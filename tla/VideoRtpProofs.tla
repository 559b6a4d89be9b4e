--------------------------- MODULE VideoRtpProofs ---------------------------
(***************************************************************************)
(* Proofs about the video component.  The receiver knows no more than a    *)
(* 16-bit number of what it expects; the proofs know how many packets the  *)
(* number stands for: e, the count of packets up to the last one taken.    *)
(* No packet that is taken is counted below e, so nothing is delivered     *)
(* twice or out of order; and if access units have fewer packets than      *)
(* there are numbers, a fragment that is added to others is counted e and  *)
(* so is the next one of the same NAL.  If moreover no 65536 packets are   *)
(* lost in a row, what is being put together is all that was taken of its  *)
(* NAL, so that every NAL whose packets were all taken is delivered.       *)
(***************************************************************************)
EXTENDS MCVideoRtp, SeqArithProofs, SequenceTheorems

SeqOf(n) == Numbered(FIRST_SEQ, n)

(* What a packet of the network is by itself: numbered by its count, and   *)
(* the piece of its NAL that it says it is.                                *)
SoundPacket(p) ==
  /\ p.index \in Nat /\ p.index < made
  /\ p.seq = SeqOf(p.index)
  /\ p.nal \in 1 .. sent /\ p.timestamp = Stream[p.nal].timestamp
  /\ p.start \in BOOLEAN /\ p.end \in BOOLEAN
  /\ p.from \in Nat /\ p.to \in Nat /\ p.from <= p.to
  /\ p.kind = "single" => /\ p.end /\ p.from = 1 /\ p.to <= PAYLOAD
                          /\ p.to = Stream[p.nal].size
  /\ p.kind = "fu" => /\ ~ (p.start /\ p.end) /\ Bytes(p) <= Fragment
                      /\ p.start => p.from = 2
                      /\ p.end => p.to = Stream[p.nal].size

(* The fragment counted after one that does not end its NAL is the next    *)
(* of the same NAL, unless it starts another; what is counted after the    *)
(* last packet of a NAL is of a later one.                                 *)
SoundOrder(p, q) ==
  /\ p.kind = "fu" /\ ~ p.end /\ q.index = p.index + 1 =>
       q.kind = "fu" /\ q.nal = p.nal /\ q.from = p.to + 1
  /\ p.kind \in {"single", "fu"} /\ p.end /\ p.index < q.index =>
       p.nal < q.nal

SenderInv ==
  /\ made \in Nat /\ sent \in 0 .. Len(Stream)
  /\ next_seq = SeqOf(made)
  /\ \A p \in network : SoundPacket(p)
  /\ \A p, q \in network : SoundOrder(p, q)
  /\ \A p \in network : p.kind = "fu" /\ ~ p.end => p.index + 1 < made

(* The receiver took no packet counted e or above, and nothing that is     *)
(* still to be taken belongs to a NAL already delivered.                   *)
OrderInv(e) ==
  /\ e \in 0 .. made
  /\ have_expected_seq \in BOOLEAN
  /\ expected_seq \in Seq16
  /\ have_expected_seq => expected_seq = SeqOf(e)
  /\ ~ have_expected_seq => e = 0 /\ delivered.nal = 0 /\ ~ reassembling
  /\ delivered.nal \in 0 .. sent
  /\ \A p \in network : p.index >= e => p.nal > delivered.nal

Pieces == [nal : Nat, from : Nat, to : Nat]

(* Pieces of one NAL from its first byte on, none missing.                 *)
Beginning(pieces, k) ==
  /\ pieces \in Seq(Pieces) /\ pieces # <<>>
  /\ pieces[1].from = 1
  /\ \A i \in 1 .. Len(pieces) : pieces[i].nal = k
  /\ \A i \in 1 .. Len(pieces) - 1 : pieces[i + 1].from = pieces[i].to + 1

(* What is being put together ends with the last packet taken, or so many  *)
(* were lost since then that the numbers went round once.                  *)
BufferInv(e) ==
  /\ reassembling \in BOOLEAN
  /\ reassembly_len \in 0 .. MAX_NAL_SIZE
  /\ ~ reassembling => reassembly = <<>>
  /\ reassembling =>
       \E p \in network :
         /\ p.kind = "fu" /\ ~ p.end
         /\ p.index + 1 = e \/ p.index + SEQ_MOD <= e
         /\ p.timestamp = reassembly_timestamp
         /\ Beginning(reassembly, p.nal)
         /\ reassembly[Len(reassembly)].to = p.to
         /\ reassembly_len = p.to
  /\ DeliveredWhole

-----------------------------------------------------------------------------
(* Rounding up.                                                            *)
LEMMA CeilDivBounds ==
  ASSUME NEW a \in Nat, NEW b \in Nat \ {0}
  PROVE  /\ CeilDiv(a, b) \in Nat
         /\ a <= CeilDiv(a, b) * b
         /\ (CeilDiv(a, b) - 1) * b < a
<1>1. /\ a = b * (a \div b) + (a % b)
      /\ a % b \in 0 .. b - 1 /\ a \div b \in Nat
  OBVIOUS
<1>2. PICK q \in Nat, r \in Nat : /\ q = a \div b /\ r = a % b
                                 /\ a = b * q + r /\ r < b
  BY <1>1
<1>3. CASE r = 0
  <2>1. CeilDiv(a, b) = q
    BY <1>2, <1>3 DEF CeilDiv
  <2>2. (q - 1) * b = b * q - b
    BY <1>2
  <2> QED  BY <2>1, <2>2, <1>2, <1>3
<1>4. CASE r # 0
  <2>1. CeilDiv(a, b) = q + 1
    BY <1>2, <1>4 DEF CeilDiv
  <2>2. (q + 1) * b = b * q + b
    BY <1>2
  <2>3. (q + 1 - 1) * b = b * q
    BY <1>2
  <2> QED  BY <2>1, <2>2, <2>3, <1>2, <1>4
<1> QED  BY <1>3, <1>4

(* A NAL larger than the payload is cut into two fragments or more; each   *)
(* begins inside it, all but the last are full, and the last reaches its   *)
(* end.                                                                    *)
LEMMA FragmentBounds ==
  ASSUME NEW size \in Nat, size > PAYLOAD,
         NEW i \in 0 .. MaxPackets(size) - 1
  PROVE  /\ MaxPackets(size) \in Nat /\ MaxPackets(size) > 1
         /\ Fragment \in Nat \ {0} /\ i * Fragment \in Nat
         /\ (i + 1) * Fragment = i * Fragment + Fragment
         /\ 2 + i * Fragment <= size
         /\ i < MaxPackets(size) - 1 => i * Fragment + Fragment + 1 < size
         /\ i = MaxPackets(size) - 1 => size <= i * Fragment + Fragment + 1
<1> DEFINE n == MaxPackets(size)
           F == Fragment
<1>1. F \in Nat \ {0} /\ PAYLOAD = F + 2
  BY VideoAssumption DEF Fragment
<1>2. n \in Nat /\ size - 1 <= n * F /\ (n - 1) * F < size - 1
  <2>1. n = CeilDiv(size - 1, F)
    BY <1>1 DEF MaxPackets
  <2>2. size - 1 \in Nat
    BY <1>1
  <2> QED  BY <1>1, <2>1, <2>2, CeilDivBounds
<1> HIDE DEF n, F
<1>3. i \in 0 .. n - 1
  BY DEF n
<1>4. n > 1
  <2>1. n = 0 => n * F = 0
    BY <1>1
  <2>2. n = 1 => n * F = F
    BY <1>1
  <2> QED  BY <1>1, <1>2, <2>1, <2>2
<1>5. i \in Nat /\ i * F \in Nat /\ (i + 1) * F = i * F + F
  BY <1>1, <1>2, <1>3
<1>6. \A m \in Nat, l \in Nat : m <= l => m * F <= l * F
  <2>1. ASSUME NEW m \in Nat, NEW l \in Nat, m <= l  PROVE m * F <= l * F
    <3>1. PICK d \in Nat : l = m + d
      BY <2>1
    <3>2. l * F = m * F + d * F /\ d * F \in Nat /\ m * F \in Nat
      BY <1>1, <3>1
    <3> QED  BY <3>2
  <2> QED  BY <2>1
<1>7. i * F <= (n - 1) * F /\ (n - 1) * F \in Nat
  <2>1. n - 1 \in Nat /\ i <= n - 1
    BY <1>2, <1>3, <1>4
  <2> QED  BY <1>1, <1>5, <1>6, <2>1
<1>8. i < n - 1 => (i + 1) * F <= (n - 1) * F
  <2>1. n - 1 \in Nat /\ i + 1 \in Nat
    BY <1>2, <1>4, <1>5
  <2>2. i < n - 1 => i + 1 <= n - 1
    BY <1>2, <1>5
  <2> QED  BY <1>6, <2>1, <2>2
<1>9. i = n - 1 => n * F = i * F + F
  <2>1. i = n - 1 => n = i + 1
    BY <1>2, <1>5
  <2> QED  BY <1>5, <2>1
<1>10. /\ 2 + i * F <= size
       /\ i < n - 1 => i * F + F + 1 < size
       /\ i = n - 1 => size <= i * F + F + 1
  BY <1>1, <1>2, <1>5, <1>7, <1>8, <1>9
<1> QED  BY <1>1, <1>2, <1>4, <1>5, <1>10 DEF n, F

(* What the i-th packet of an entry is, whatever the sizes.                *)
LEMMA PacketFacts ==
  ASSUME SenderInv, NEW k \in 1 .. Len(Stream),
         NEW i \in 0 .. PacketCount(k) - 1,
         NEW p, p = PacketOf(k, i)
  PROVE  /\ i \in Nat /\ PacketCount(k) \in Nat
         /\ p.index = made + i /\ p.seq = SeqOf(made + i)
         /\ p.nal = k /\ p.timestamp = Stream[k].timestamp
         /\ p.start <=> i = 0
         /\ p.start \in BOOLEAN /\ p.end \in BOOLEAN
         /\ p.from \in Nat /\ p.to \in Nat /\ p.from <= p.to
         /\ p.kind = "single" =>
              /\ p.end /\ p.from = 1 /\ p.to = Stream[k].size
              /\ p.to <= PAYLOAD /\ PacketCount(k) = 1
         /\ p.kind = "fu" =>
              /\ Stream[k].kind = "nal" /\ Stream[k].size > PAYLOAD
              /\ PacketCount(k) > 1
              /\ p.end <=> i = PacketCount(k) - 1
              /\ p.from = 2 + i * Fragment
              /\ p.end => p.to = Stream[k].size
              /\ ~ p.end => p.to = p.from + Fragment - 1
              /\ Bytes(p) <= Fragment
<1> DEFINE e == Stream[k]
           n == MaxPackets(e.size)
<1>1. /\ e.kind \in {"nal", "stap", "bad"} /\ e.size \in Nat \ {0}
      /\ PAYLOAD \in Nat /\ PAYLOAD > 2
  <2>1. e \in Entries
    BY VideoAssumption, ElementOfSeq
  <2> QED  BY <2>1, VideoAssumption DEF Entries
<1>2. /\ p.index = made + i /\ p.seq = (next_seq + i) % SEQ_MOD
      /\ p.nal = k /\ p.timestamp = e.timestamp
      /\ p.start = (i = 0) /\ p.end = (i = n - 1)
      /\ p.kind = IF e.kind # "nal" THEN e.kind
                  ELSE IF n = 1 THEN "single" ELSE "fu"
      /\ p.from = IF e.kind # "nal" \/ n = 1 THEN 1 ELSE 2 + i * Fragment
      /\ p.to = IF e.kind # "nal" \/ n = 1 THEN e.size
                ELSE Lesser(e.size, 2 + i * Fragment + Fragment - 1)
  BY DEF PacketOf
<1>3. PacketCount(k) = IF e.kind = "nal" THEN n ELSE 1
  BY DEF PacketCount
<1>4. e.size <= PAYLOAD => n = 1
  BY DEF MaxPackets
<1>7. /\ p.start \in BOOLEAN /\ (p.start <=> i = 0)
      /\ p.end \in BOOLEAN /\ (p.end <=> i = n - 1)
  BY <1>2, Zenon
<1> HIDE DEF e
<1>5. CASE e.kind = "nal" /\ e.size > PAYLOAD
  <2>1. i \in 0 .. n - 1
    BY <1>3, <1>5
  <2>2. /\ n \in Nat /\ n > 1
        /\ Fragment \in Nat \ {0} /\ i * Fragment \in Nat
        /\ 2 + i * Fragment <= e.size
        /\ i < n - 1 => i * Fragment + Fragment + 1 < e.size
        /\ i = n - 1 => e.size <= i * Fragment + Fragment + 1
    BY <1>1, <1>5, <2>1, FragmentBounds
  <2> HIDE DEF n
  <2>3. /\ p.from = 2 + i * Fragment
        /\ p.to = Lesser(e.size, i * Fragment + Fragment + 1)
        /\ p.kind = "fu"
    <3>1. 2 + i * Fragment + Fragment - 1 = i * Fragment + Fragment + 1
      BY <2>2
    <3> QED  BY <1>2, <1>5, <2>2, <3>1
  <2>4. /\ p.to \in Nat /\ p.from \in Nat /\ p.from <= p.to
        /\ i = n - 1 => p.to = e.size
        /\ i < n - 1 => p.to = p.from + Fragment - 1
        /\ p.to - p.from + 1 <= Fragment
    BY <1>1, <2>1, <2>2, <2>3 DEF Lesser
  <2>5. i \in Nat /\ (i = n - 1 \/ i < n - 1)
    BY <2>1, <2>2
  <2>6. p.seq = SeqOf(made + i)
    BY <1>2, <2>5, NumberedAdd, VideoAssumption DEF SenderInv, SeqOf
  <2>7. Bytes(p) <= Fragment
    BY <2>4 DEF Bytes
  <2>8. /\ PacketCount(k) = n
        /\ Stream[k].kind = "nal" /\ Stream[k].size > PAYLOAD
    BY <1>3, <1>5 DEF e
  <2>9. /\ p.index = made + i /\ p.nal = k
        /\ p.timestamp = Stream[k].timestamp
    BY <1>2 DEF e
  <2>10. /\ p.end => p.to = Stream[k].size
         /\ ~ p.end => p.to = p.from + Fragment - 1
    BY <1>7, <2>4, <2>5 DEF e
  <2> QED
    BY <1>7, <2>2, <2>3, <2>4, <2>5, <2>6, <2>7, <2>8, <2>9, <2>10
<1>6. CASE ~ (e.kind = "nal" /\ e.size > PAYLOAD)
  <2>1. e.kind = "nal" => n = 1 /\ e.size <= PAYLOAD
    BY <1>1, <1>4, <1>6
  <2> HIDE DEF n
  <2>2. PacketCount(k) = 1 /\ i = 0
    BY <1>3, <2>1
  <2>3. p.seq = SeqOf(made + i)
    BY <1>2, <2>2, NumberedAdd, VideoAssumption DEF SenderInv, SeqOf
  <2>4. /\ p.from = 1 /\ p.to = e.size /\ p.kind # "fu"
        /\ p.kind = "single" => e.kind = "nal" /\ n = 1
    BY <1>1, <1>2, <2>1
  <2>5. p.kind = "single" => p.end /\ p.to <= PAYLOAD
    BY <1>7, <2>1, <2>2, <2>4
  <2>6. /\ p.index = made + i /\ p.nal = k
        /\ p.timestamp = Stream[k].timestamp
    BY <1>2 DEF e
  <2>7. p.from \in Nat /\ p.to \in Nat /\ p.from <= p.to
    BY <1>1, <2>4
  <2> QED
    BY <1>7, <2>2, <2>3, <2>4, <2>5, <2>6, <2>7 DEF e
<1> QED  BY <1>5, <1>6

-----------------------------------------------------------------------------
(* The sender.                                                             *)

LEMMA SenderInit == VideoInit => SenderInv
<1> SUFFICES ASSUME VideoInit  PROVE SenderInv
  OBVIOUS
<1>1. next_seq = SeqOf(0) /\ made = 0 /\ sent = 0 /\ network = {}
  BY VideoAssumption, NumberedNext DEF VideoInit, SeqOf
<1>2. 0 \in 0 .. Len(Stream)
  BY VideoAssumption, LenProperties
<1> QED  BY <1>1, <1>2 DEF SenderInv

(* What sending an entry does, in terms of counts.                         *)
LEMMA SendNalCounts ==
  ASSUME SenderInv, SendNal
  PROVE  /\ sent + 1 \in 1 .. Len(Stream) /\ sent' = sent + 1
         /\ PacketCount(sent + 1) \in Nat /\ PacketCount(sent + 1) > 0
         /\ made' = made + PacketCount(sent + 1)
         /\ next_seq' = SeqOf(made')
         /\ \A p \in network' :
              \/ p \in network
              \/ \E i \in 0 .. PacketCount(sent + 1) - 1 :
                   p = PacketOf(sent + 1, i)
<1> DEFINE k == sent + 1
           n == PacketCount(k)
<1>1. k \in 1 .. Len(Stream) /\ sent' = k
  <2>1. Len(Stream) \in Nat
    BY VideoAssumption, LenProperties
  <2> QED  BY <2>1 DEF SenderInv, SendNal
<1>2. n \in Nat /\ n > 0
  <2>1. Stream[k].size \in Nat \ {0} /\ PAYLOAD \in Nat
    <3>1. Stream[k] \in Entries
      BY <1>1, VideoAssumption, ElementOfSeq
    <3> QED  BY <3>1, VideoAssumption DEF Entries
  <2>2. CASE Stream[k].kind = "nal" /\ Stream[k].size > PAYLOAD
    <3>1. /\ MaxPackets(Stream[k].size)
                = CeilDiv(Stream[k].size - 1, Fragment)
          /\ n = MaxPackets(Stream[k].size)
      BY <2>1, <2>2 DEF MaxPackets, PacketCount
    <3>2. Stream[k].size - 1 \in Nat /\ Fragment \in Nat \ {0}
      BY <2>1, VideoAssumption DEF Fragment
    <3>3. n \in Nat /\ Stream[k].size - 1 <= n * Fragment
      BY <3>1, <3>2, CeilDivBounds
    <3>4. Stream[k].size - 1 > 0
      BY <2>1, <2>2, VideoAssumption
    <3>5. n = 0 => n * Fragment = 0
      BY <3>2
    <3> HIDE DEF n
    <3> QED  BY <2>1, <3>3, <3>4, <3>5
  <2>3. CASE ~ (Stream[k].kind = "nal" /\ Stream[k].size > PAYLOAD)
    BY <2>1, <2>3 DEF PacketCount, MaxPackets
  <2> QED  BY <2>2, <2>3
<1>3. /\ made' = made + n /\ next_seq' = (next_seq + n) % SEQ_MOD
      /\ network' = network \cup {PacketOf(k, i) : i \in 0 .. n - 1}
  BY DEF SendNal
<1> HIDE DEF n
<1>4. next_seq' = SeqOf(made')
  BY <1>2, <1>3, NumberedAdd, VideoAssumption DEF SenderInv, SeqOf
<1> QED  BY <1>1, <1>2, <1>3, <1>4 DEF n

LEMMA SendNalKeepsSender ==
  ASSUME SenderInv, SendNal
  PROVE  SenderInv'
<1> DEFINE k == sent + 1
           n == PacketCount(k)
           New(p) == \E i \in 0 .. n - 1 : p = PacketOf(k, i)
<1>1. /\ k \in 1 .. Len(Stream) /\ sent' = k
      /\ n \in Nat /\ n > 0 /\ made' = made + n
      /\ next_seq' = SeqOf(made')
  BY SendNalCounts
<1>2. made \in Nat /\ sent \in Nat /\ Len(Stream) \in Nat
  BY VideoAssumption, LenProperties DEF SenderInv
<1>3. made' \in Nat /\ sent' \in 0 .. Len(Stream)
  BY <1>1, <1>2
<1>4. \A p \in network' : p \in network \/ New(p)
  BY SendNalCounts
<1>5. ASSUME NEW p, New(p)
      PROVE  /\ SoundPacket(p)' /\ p.index >= made /\ p.nal = k
             /\ p.kind = "fu" /\ ~ p.end => p.index + 1 < made'
  <2>1. PICK i \in 0 .. n - 1 : p = PacketOf(k, i)
    BY <1>5
  <2> HIDE DEF k
  <2>2. /\ i \in Nat /\ p.index = made + i /\ p.seq = SeqOf(made + i)
        /\ p.nal = k /\ p.timestamp = Stream[k].timestamp
        /\ p.start <=> i = 0
        /\ p.start \in BOOLEAN /\ p.end \in BOOLEAN
        /\ p.from \in Nat /\ p.to \in Nat /\ p.from <= p.to
        /\ p.kind = "single" =>
             /\ p.end /\ p.from = 1 /\ p.to = Stream[k].size
             /\ p.to <= PAYLOAD
        /\ p.kind = "fu" =>
             /\ n > 1 /\ (p.end <=> i = n - 1)
             /\ p.from = 2 + i * Fragment
             /\ p.end => p.to = Stream[k].size
             /\ Bytes(p) <= Fragment
    BY <1>1, <2>1, PacketFacts
  <2>3. p.index \in Nat /\ p.index < made' /\ p.index >= made
    BY <1>1, <1>2, <2>1, <2>2
  <2>4. p.kind = "fu" /\ ~ p.end => p.index + 1 < made'
    <3>1. i # n - 1 => i + 1 < n
      BY <1>1, <2>1
    <3> HIDE DEF n
    <3> QED  BY <1>1, <1>2, <2>2, <3>1
  <2>5. p.kind = "fu" /\ p.start => p.from = 2 /\ ~ p.end
    <3>1. Fragment \in Nat
      BY VideoAssumption DEF Fragment
    <3>2. i = 0 => i * Fragment = 0
      BY <3>1
    <3> HIDE DEF n
    <3> QED  BY <1>1, <2>2, <3>2
  <2>6. k \in 1 .. sent'
    BY <1>1
  <2> HIDE DEF n
  <2> QED  BY <2>2, <2>3, <2>4, <2>5, <2>6 DEF SoundPacket, Bytes
<1>6. ASSUME NEW p \in network  PROVE SoundPacket(p)' /\ p.nal < k
  <2>1. SoundPacket(p)
    BY DEF SenderInv
  <2>2. p.index < made' /\ p.nal \in 1 .. sent' /\ p.nal < k
    BY <1>1, <1>2, <2>1 DEF SoundPacket
  <2> HIDE DEF k
  <2> QED  BY <2>1, <2>2 DEF SoundPacket
<1>7. \A p \in network' : SoundPacket(p)'
  BY <1>4, <1>5, <1>6
<1>8. ASSUME NEW p \in network', NEW q \in network'  PROVE SoundOrder(p, q)
  <2>1. CASE p \in network /\ q \in network
    BY <2>1 DEF SenderInv
  <2>2. CASE p \in network /\ New(q)
    <3>1. p.kind = "fu" /\ ~ p.end => p.index + 1 < made
      BY <2>2 DEF SenderInv
    <3>2. q.index \in Nat /\ q.index >= made /\ q.nal = k /\ p.nal < k
      BY <1>5, <1>6, <2>2 DEF SoundPacket
    <3>3. p.index \in Nat /\ p.index < made
      BY <2>2 DEF SenderInv, SoundPacket
    <3>4. ~ (p.kind = "fu" /\ ~ p.end /\ q.index = p.index + 1)
      BY <1>2, <3>1, <3>2, <3>3
    <3> HIDE DEF k
    <3> QED  BY <3>2, <3>4 DEF SoundOrder
  <2>3. CASE New(p) /\ q \in network
    <3>1. p.index \in Nat /\ p.index >= made
      BY <1>5, <2>3 DEF SoundPacket
    <3>2. q.index \in Nat /\ q.index < made
      BY <2>3 DEF SenderInv, SoundPacket
    <3> QED  BY <1>2, <3>1, <3>2 DEF SoundOrder
  <2>4. CASE New(p) /\ New(q)
    <3>1. PICK i \in 0 .. n - 1 : p = PacketOf(k, i)
      BY <2>4
    <3>2. PICK j \in 0 .. n - 1 : q = PacketOf(k, j)
      BY <2>4
    <3>3. /\ i \in Nat /\ p.index = made + i /\ p.nal = k
          /\ p.kind = "single" => n = 1
          /\ p.kind = "fu" =>
               /\ p.end <=> i = n - 1
               /\ p.from = 2 + i * Fragment
               /\ ~ p.end => p.to = p.from + Fragment - 1
          /\ p.kind = (IF Stream[k].kind # "nal" THEN Stream[k].kind
                       ELSE IF MaxPackets(Stream[k].size) = 1
                            THEN "single" ELSE "fu")
      <4>1. p.kind = (IF Stream[k].kind # "nal" THEN Stream[k].kind
                      ELSE IF MaxPackets(Stream[k].size) = 1
                           THEN "single" ELSE "fu")
        BY <3>1 DEF PacketOf
      <4> HIDE DEF k
      <4> QED  BY <1>1, <3>1, <4>1, PacketFacts
    <3>4. /\ j \in Nat /\ q.index = made + j /\ q.nal = k
          /\ q.kind = "fu" => q.from = 2 + j * Fragment
          /\ q.kind = (IF Stream[k].kind # "nal" THEN Stream[k].kind
                       ELSE IF MaxPackets(Stream[k].size) = 1
                            THEN "single" ELSE "fu")
      <4>1. q.kind = (IF Stream[k].kind # "nal" THEN Stream[k].kind
                      ELSE IF MaxPackets(Stream[k].size) = 1
                           THEN "single" ELSE "fu")
        BY <3>2 DEF PacketOf
      <4> HIDE DEF k
      <4> QED  BY <1>1, <3>2, <4>1, PacketFacts
    <3>5. p.kind = q.kind
      BY <3>3, <3>4
    <3>6. p.kind \in {"single", "fu"} /\ p.end => ~ (p.index < q.index)
      <4>1. p.kind \in {"single", "fu"} /\ p.end => i = n - 1
        BY <1>1, <3>1, <3>3
      <4> QED  BY <1>1, <1>2, <3>2, <3>3, <3>4, <4>1
    <3>7. p.kind = "fu" /\ ~ p.end /\ q.index = p.index + 1 =>
            q.from = p.to + 1
      <4>1. Fragment \in Nat
        BY VideoAssumption DEF Fragment
      <4>2. q.index = p.index + 1 => j = i + 1
        BY <1>2, <3>3, <3>4
      <4>3. j = i + 1 => j * Fragment = i * Fragment + Fragment
        BY <3>3, <4>1
      <4>4. i * Fragment \in Nat
        BY <3>3, <4>1
      <4> QED  BY <3>3, <3>4, <3>5, <4>1, <4>2, <4>3, <4>4
    <3> QED  BY <3>3, <3>4, <3>5, <3>6, <3>7 DEF SoundOrder
  <2> QED  BY <1>4, <2>1, <2>2, <2>3, <2>4
<1>9. \A p \in network' : p.kind = "fu" /\ ~ p.end => p.index + 1 < made'
  <2>1. ASSUME NEW p \in network, p.kind = "fu", ~ p.end
        PROVE  p.index + 1 < made'
    <3>1. p.index + 1 < made /\ p.index \in Nat
      BY <2>1 DEF SenderInv, SoundPacket
    <3> QED  BY <1>1, <1>2, <3>1
  <2> HIDE DEF k, n
  <2> QED  BY <1>4, <1>5, <2>1
<1> QED  BY <1>1, <1>3, <1>7, <1>8, <1>9 DEF SenderInv, SoundOrder

-----------------------------------------------------------------------------
(* The receiver: order.                                                    *)

(* A packet that is not passed over is none that was counted before, and   *)
(* one that shows no gap has the number of the next.                       *)
LEMMA TakenIsNew ==
  ASSUME SenderInv, NEW e \in 0 .. made, OrderInv(e),
         NEW p \in InTransit, ~ Passed(p)
  PROVE  /\ p \in network /\ SoundPacket(p)
         /\ p.index \in Nat /\ p.index + 1 \in 0 .. made
         /\ NextSeq(p.seq) = SeqOf(p.index + 1)
         /\ SeqOf(p.index + 1) \in Seq16
         /\ e \in Nat /\ p.index >= e
         /\ have_expected_seq /\ ~ Gap(p) => SeqOf(p.index) = SeqOf(e)
<1>1. p \in network /\ made - p.index <= HALF_SEQ
  BY DEF InTransit
<1>2. SoundPacket(p) /\ made \in Nat
  BY <1>1 DEF SenderInv
<1>3. /\ p.index \in Nat /\ p.index + 1 \in 0 .. made /\ e \in Nat
      /\ p.seq = SeqOf(p.index)
  BY <1>2 DEF SoundPacket
<1>4. NextSeq(p.seq) = SeqOf(p.index + 1) /\ SeqOf(p.index + 1) \in Seq16
  <2>1. FIRST_SEQ \in Seq16 /\ p.index + 1 \in Nat
    BY <1>3, VideoAssumption
  <2>2. /\ NextSeq(Numbered(FIRST_SEQ, p.index))
             = Numbered(FIRST_SEQ, p.index + 1)
        /\ Numbered(FIRST_SEQ, p.index + 1) \in Seq16
    BY <1>3, <2>1, NumberedNext
  <2> QED  BY <1>3, <2>2 DEF SeqOf
<1>5. ASSUME p.index < e  PROVE FALSE
  <2>1. e - p.index <= HALF_SEQ
    BY <1>1, <1>2, <1>3, SeqModFacts
  <2>2. SeqBefore(SeqOf(p.index), SeqOf(e))
    BY <1>3, <1>5, <2>1, NumberedBefore, VideoAssumption DEF SeqOf
  <2>3. have_expected_seq /\ expected_seq = SeqOf(e)
    BY <1>3, <1>5 DEF OrderInv
  <2> QED  BY <1>3, <2>2, <2>3 DEF Passed
<1>6. p.index >= e
  BY <1>3, <1>5
<1>7. have_expected_seq /\ ~ Gap(p) => SeqOf(p.index) = SeqOf(e)
  BY <1>3 DEF Gap, OrderInv
<1> QED  BY <1>1, <1>2, <1>3, <1>4, <1>6, <1>7

(* Only the last packet of a NAL makes the receiver deliver it.            *)
LEMMA WhatIsDelivered ==
  ASSUME NEW p, SoundPacket(p), Process(p)
  PROVE  /\ expected_seq' = NextSeq(p.seq) /\ have_expected_seq' = TRUE
         /\ \/ delivered' = delivered
            \/ /\ p.kind \in {"single", "fu"} /\ p.end
               /\ delivered'.nal = p.nal
<1>1. expected_seq' = NextSeq(p.seq) /\ have_expected_seq' = TRUE
  BY DEF Process, Expect
<1>2. CASE Single(p)
  BY <1>1, <1>2 DEF Single, OnNal, SoundPacket
<1>3. CASE Malformed(p) \/ Unsupported(p) \/ Orphan(p)
  BY <1>1, <1>3 DEF Malformed, Unsupported, Orphan
<1>4. CASE Begin(p) \/ Continue(p)
  BY <1>1, <1>4 DEF Begin, Continue, AppendPiece, OnNal
<1> QED  BY <1>2, <1>3, <1>4 DEF Process

LEMMA ProcessKeepsOrder ==
  ASSUME SenderInv, NEW e \in 0 .. made, OrderInv(e),
         NEW p \in InTransit, Process(p), UNCHANGED sendVars,
         NEW f, f = p.index + 1
  PROVE  /\ f \in 0 .. made' /\ OrderInv(f)'
         /\ delivered'.nal = delivered.nal
            \/ delivered'.nal \in delivered.nal + 1 .. sent
<1>1. /\ p \in network /\ SoundPacket(p) /\ ~ Passed(p)
      /\ p.index \in Nat /\ f \in 0 .. made /\ e \in Nat /\ p.index >= e
      /\ NextSeq(p.seq) = SeqOf(f) /\ SeqOf(f) \in Seq16
  <2>1. ~ Passed(p)
    BY DEF Process
  <2> QED  BY <2>1, TakenIsNew
<1>2. /\ expected_seq' = NextSeq(p.seq) /\ have_expected_seq' = TRUE
      /\ \/ delivered' = delivered
         \/ /\ p.kind \in {"single", "fu"} /\ p.end
            /\ delivered'.nal = p.nal
  BY <1>1, WhatIsDelivered
<1>3. made' = made /\ sent' = sent /\ network' = network
  BY DEF sendVars
<1>4. /\ p.nal \in 1 .. sent /\ sent \in Nat
      /\ delivered.nal \in 0 .. sent /\ p.nal > delivered.nal
  <2>1. Len(Stream) \in Nat
    BY VideoAssumption, LenProperties
  <2> QED  BY <1>1, <2>1 DEF SoundPacket, OrderInv, SenderInv
<1>5. ASSUME NEW q \in network, q.index >= f  PROVE q.nal > delivered'.nal
  <2>1. SoundOrder(p, q) /\ SoundPacket(q)
    BY <1>1 DEF SenderInv
  <2>2. q.index \in Nat /\ q.index > p.index /\ q.index >= e
    BY <1>1, <1>5, <2>1 DEF SoundPacket
  <2>3. CASE delivered' = delivered
    BY <2>2, <2>3 DEF OrderInv
  <2>4. CASE /\ p.kind \in {"single", "fu"} /\ p.end
             /\ delivered'.nal = p.nal
    <3>1. p.nal < q.nal /\ q.nal \in Nat
      BY <1>1, <2>1, <2>2, <2>4 DEF SoundOrder, SoundPacket
    <3> QED  BY <1>4, <2>4, <3>1
  <2> QED  BY <1>2, <2>3, <2>4
<1>6. delivered'.nal = delivered.nal
      \/ delivered'.nal \in delivered.nal + 1 .. sent
  BY <1>2, <1>4
<1>7. delivered'.nal \in 0 .. sent
  BY <1>4, <1>6
<1>8. OrderInv(f)'
  BY <1>1, <1>2, <1>3, <1>5, <1>7 DEF OrderInv
<1> QED  BY <1>1, <1>3, <1>6, <1>8

(* Whatever is sent later belongs to later NALs.                           *)
LEMMA SendNalKeepsOrder ==
  ASSUME SenderInv, NEW e \in 0 .. made, OrderInv(e), SendNal
  PROVE  e \in 0 .. made' /\ OrderInv(e)'
<1>1. /\ sent + 1 \in 1 .. Len(Stream) /\ sent' = sent + 1
      /\ PacketCount(sent + 1) \in Nat
      /\ made' = made + PacketCount(sent + 1)
      /\ \A p \in network' :
           \/ p \in network
           \/ \E i \in 0 .. PacketCount(sent + 1) - 1 :
                p = PacketOf(sent + 1, i)
  BY SendNalCounts
<1>2. made \in Nat /\ sent \in Nat /\ Len(Stream) \in Nat
  BY VideoAssumption, LenProperties DEF SenderInv
<1>3. UNCHANGED receiveVars
  BY DEF SendNal
<1>4. \A p \in network' : p.index >= e => p.nal > delivered.nal
  <2>1. ASSUME NEW i \in 0 .. PacketCount(sent + 1) - 1
        PROVE  PacketOf(sent + 1, i).nal > delivered.nal
    <3>1. PacketOf(sent + 1, i).nal = sent + 1
      BY DEF PacketOf
    <3> QED  BY <1>2, <3>1 DEF OrderInv
  <2> QED  BY <1>1, <2>1 DEF OrderInv
<1>5. e \in 0 .. made' /\ delivered.nal \in 0 .. sent'
  BY <1>1, <1>2 DEF OrderInv
<1> QED  BY <1>3, <1>4, <1>5 DEF OrderInv, receiveVars, bufferVars

OrderedInv == SenderInv /\ \E e \in 0 .. made : OrderInv(e)

LEMMA OrderedStep ==
  ASSUME OrderedInv, [VideoNext]_videoVars
  PROVE  OrderedInv'
<1>1. PICK e \in 0 .. made : OrderInv(e)
  BY DEF OrderedInv
<1>2. SenderInv
  BY DEF OrderedInv
<1>3. CASE SendNal
  BY <1>1, <1>2, <1>3, SendNalKeepsOrder, SendNalKeepsSender DEF OrderedInv
<1>4. CASE UNCHANGED sendVars
  <2>1. SenderInv'
    BY <1>2, <1>4 DEF SenderInv, sendVars, SoundPacket, SoundOrder, Bytes
  <2>2. ASSUME NEW p \in InTransit, Process(p)
        PROVE  \E f \in 0 .. made' : OrderInv(f)'
    <3>1. PICK f : f = p.index + 1
      OBVIOUS
    <3> QED  BY <1>1, <1>2, <1>4, <2>2, <3>1, ProcessKeepsOrder
  <2>3. CASE UNCHANGED receiveVars
    <3>1. e \in 0 .. made' /\ OrderInv(e)'
      BY <1>1, <1>4, <2>3
      DEF OrderInv, sendVars, receiveVars, bufferVars
    <3> QED  BY <2>1, <3>1 DEF OrderedInv
  <2>4. UNCHANGED receiveVars \/ \E p \in InTransit : Process(p)
    BY <1>4 DEF VideoNext, Receive, SendNal, videoVars
  <2> QED  BY <2>1, <2>2, <2>3, <2>4 DEF OrderedInv
<1> QED  BY <1>3, <1>4 DEF VideoNext, Receive, videoVars

LEMMA OrderedInit == VideoInit => OrderedInv
<1> SUFFICES ASSUME VideoInit  PROVE OrderedInv
  OBVIOUS
<1>1. SenderInv
  BY SenderInit
<1>2. /\ made = 0 /\ sent = 0 /\ network = {} /\ expected_seq = 0
      /\ delivered.nal = 0
  BY DEF VideoInit
<1>3. 0 \in Seq16
  BY SeqModFacts DEF Seq16
<1>4. have_expected_seq \in BOOLEAN /\ ~ have_expected_seq /\ ~ reassembling
  BY Zenon DEF VideoInit
<1>5. /\ 0 \in 0 .. made /\ expected_seq \in Seq16
      /\ delivered.nal \in 0 .. sent
      /\ \A p \in network : p.index >= 0 => p.nal > delivered.nal
  BY <1>2, <1>3
<1>6. 0 \in 0 .. made /\ OrderInv(0)
  BY <1>2, <1>4, <1>5, Zenon DEF OrderInv
<1> QED  BY <1>1, <1>6 DEF OrderedInv

(* The counts behind the numbers are as described, in every state.         *)
THEOREM VideoOrdered == VideoSpec => []OrderedInv
<1>1. OrderedInv /\ [VideoNext]_videoVars => OrderedInv'
  BY OrderedStep
<1> QED  BY OrderedInit, <1>1, PTL DEF VideoSpec

(* Sender, network and receiver implement the channel that may lose NALs   *)
(* but never reorders or repeats one, for streams of any length, of any    *)
(* NALs: only what a packet may be overtaken by is bounded.                *)
THEOREM VideoIsChannel == VideoSpec => ChannelRefinement
<1>1. VideoInit => Channel!ChannelInit
  BY DEF VideoInit, Channel!ChannelInit
<1>2. ASSUME OrderedInv, [VideoNext]_videoVars
      PROVE  [Channel!Produce \/ Channel!Consume]_(Channel!channelVars)
  <2>1. CASE SendNal
    <3>1. sent < Len(Stream) /\ sent' = sent + 1 /\ delivered' = delivered
      BY <2>1 DEF SendNal, receiveVars
    <3> QED  BY <3>1 DEF Channel!Produce
  <2>2. CASE Receive
    <3>1. sent' = sent
      BY <2>2 DEF Receive, sendVars
    <3>2. ASSUME NEW p \in InTransit, Process(p)
          PROVE  delivered'.nal = delivered.nal
                 \/ delivered'.nal \in delivered.nal + 1 .. sent
      <4>1. UNCHANGED sendVars
        BY <2>2 DEF Receive
      <4>2. PICK e \in 0 .. made : OrderInv(e)
        BY <1>2 DEF OrderedInv
      <4>3. PICK f : f = p.index + 1
        OBVIOUS
      <4> QED
        BY <1>2, <3>2, <4>1, <4>2, <4>3, ProcessKeepsOrder DEF OrderedInv
    <3>3. delivered'.nal = delivered.nal
          \/ delivered'.nal \in delivered.nal + 1 .. sent
      BY <2>2, <3>2 DEF Receive, receiveVars
    <3> QED  BY <3>1, <3>3 DEF Channel!Consume, Channel!channelVars
  <2>3. CASE UNCHANGED videoVars
    BY <2>3 DEF videoVars, sendVars, receiveVars, Channel!channelVars
  <2> QED  BY <1>2, <2>1, <2>2, <2>3 DEF VideoNext
<1> QED
  BY <1>1, <1>2, VideoOrdered, PTL
  DEF VideoSpec, ChannelRefinement, Channel!ChannelSpec

-----------------------------------------------------------------------------
(* The receiver: what it puts together.                                    *)

(* Pieces that begin a NAL still do with the piece that follows them.      *)
LEMMA AppendBeginning ==
  ASSUME NEW pieces, NEW k, Beginning(pieces, k),
         NEW piece \in Pieces, piece.nal = k,
         piece.from = pieces[Len(pieces)].to + 1
  PROVE  /\ Beginning(Append(pieces, piece), k)
         /\ Append(pieces, piece)[Len(Append(pieces, piece))] = piece
<1> DEFINE more == Append(pieces, piece)
<1>1. pieces \in Seq(Pieces) /\ pieces # <<>>
  BY DEF Beginning
<1>2. /\ more \in Seq(Pieces) /\ more # <<>>
      /\ Len(more) = Len(pieces) + 1
      /\ \A i \in 1 .. Len(pieces) : more[i] = pieces[i]
      /\ more[Len(pieces) + 1] = piece
  BY <1>1, AppendProperties
<1>3. Len(pieces) \in Nat /\ Len(pieces) > 0
  BY <1>1, LenProperties, EmptySeq
<1> HIDE DEF more
<1>4. more[1].from = 1
  BY <1>2, <1>3 DEF Beginning
<1>5. ASSUME NEW i \in 1 .. Len(more)  PROVE more[i].nal = k
  <2>1. i \in 1 .. Len(pieces) \/ i = Len(pieces) + 1
    BY <1>2, <1>3
  <2> QED  BY <1>2, <2>1 DEF Beginning
<1>6. ASSUME NEW i \in 1 .. Len(more) - 1
      PROVE  more[i + 1].from = more[i].to + 1
  <2>1. CASE i = Len(pieces)
    BY <1>2, <1>3, <2>1
  <2>2. CASE i # Len(pieces)
    <3>1. /\ i \in 1 .. Len(pieces) - 1 /\ i \in 1 .. Len(pieces)
          /\ i + 1 \in 1 .. Len(pieces)
      BY <1>2, <1>3, <2>2
    <3> QED  BY <1>2, <3>1 DEF Beginning
  <2> QED  BY <2>1, <2>2
<1>7. more[Len(more)] = piece
  BY <1>2
<1>8. Beginning(more, k)
  BY <1>2, <1>4, <1>5, <1>6 DEF Beginning
<1> QED  BY <1>7, <1>8 DEF more

(* A beginning that reaches the end of the NAL is the whole.               *)
LEMMA BeginningToEnd ==
  ASSUME NEW pieces, NEW k, Beginning(pieces, k),
         pieces[Len(pieces)].to = Stream[k].size
  PROVE  WholeNal(pieces, k)
<1>1. DOMAIN pieces = 1 .. Len(pieces)
  BY LenProperties DEF Beginning
<1> QED  BY <1>1 DEF Beginning, WholeNal

LEMMA OnePiece ==
  ASSUME NEW piece \in Pieces, piece.from = 1
  PROVE  /\ Beginning(<<piece>>, piece.nal)
         /\ <<piece>>[Len(<<piece>>)] = piece
BY DEF Beginning

(* With the buffer empty only what was delivered matters.                  *)
LEMMA EmptyBuffer ==
  ASSUME Reset, DeliveredWhole', NEW f
  PROVE  BufferInv(f)'
<1>1. reassembly' = <<>> /\ reassembly_len' = 0
  BY DEF Reset
<1>2. reassembling' \in BOOLEAN /\ ~ reassembling'
  BY Zenon DEF Reset
<1>3. reassembly_len' \in 0 .. MAX_NAL_SIZE
  BY <1>1, VideoAssumption
<1> QED  BY <1>1, <1>2, <1>3, Zenon DEF BufferInv

(* A fragment that continues a beginning leaves a longer beginning, or the *)
(* whole NAL, or nothing.                                                  *)
LEMMA AppendKeepsBuffer ==
  ASSUME NEW p \in network, SoundPacket(p), p.kind = "fu",
         NEW pieces, Beginning(pieces, p.nal),
         NEW len, len = p.from - 1, pieces[Len(pieces)].to = len,
         NEW flag, AppendPiece(p, pieces, len, flag),
         reassembly_timestamp' = p.timestamp, UNCHANGED sendVars,
         DeliveredWhole,
         NEW f, f = p.index + 1
  PROVE  BufferInv(f)'
<1> DEFINE more == Append(pieces, Piece(p))
<1>1. /\ p.nal \in Nat /\ p.from \in Nat /\ p.to \in Nat /\ p.from <= p.to
      /\ p.end => p.to = Stream[p.nal].size
      /\ p.index \in Nat
  BY DEF SoundPacket
<1>2. Piece(p) \in Pieces /\ Piece(p).nal = p.nal /\ Piece(p).to = p.to
      /\ Piece(p).from = pieces[Len(pieces)].to + 1
  BY <1>1 DEF Piece, Pieces
<1>3. Beginning(more, p.nal) /\ more[Len(more)].to = p.to
  BY <1>2, AppendBeginning
<1> HIDE DEF more
<1>4. len + Bytes(p) = p.to
  BY <1>1 DEF Bytes
<1>5. network' = network
  BY DEF sendVars
<1>6. CASE len + Bytes(p) > MAX_NAL_SIZE
  <2>1. Reset /\ UNCHANGED delivered
    BY <1>1, <1>4, <1>6, VideoAssumption DEF AppendPiece
  <2>2. DeliveredWhole'
    BY <2>1 DEF DeliveredWhole
  <2> QED  BY <2>1, <2>2, EmptyBuffer
<1>7. CASE len + Bytes(p) <= MAX_NAL_SIZE /\ p.end
  <2>1. Reset /\ delivered'.pieces = more /\ delivered'.nal = p.nal
    BY <1>1, <1>4, <1>7, VideoAssumption DEF AppendPiece, OnNal, more
  <2>2. WholeNal(more, p.nal)
    BY <1>1, <1>3, <1>7, BeginningToEnd
  <2>3. DeliveredWhole'
    BY <2>1, <2>2 DEF DeliveredWhole
  <2> QED  BY <2>1, <2>3, EmptyBuffer
<1>8. CASE len + Bytes(p) <= MAX_NAL_SIZE /\ ~ p.end
  <2>1. /\ reassembly' = more /\ reassembly_len' = p.to
        /\ delivered' = delivered
    BY <1>1, <1>4, <1>8, VideoAssumption DEF AppendPiece, more
  <2>2. reassembling' = TRUE
    BY <1>1, <1>4, <1>8, VideoAssumption DEF AppendPiece
  <2>3. reassembling' \in BOOLEAN /\ reassembling'
    BY <2>2, Zenon
  <2>4. DeliveredWhole'
    BY <2>1 DEF DeliveredWhole
  <2>5. reassembly_len' \in 0 .. MAX_NAL_SIZE
    BY <1>1, <1>4, <1>8, <2>1, VideoAssumption
  <2>6. /\ p \in network' /\ p.index + 1 = f
        /\ p.timestamp = reassembly_timestamp'
        /\ Beginning(reassembly', p.nal)
        /\ reassembly'[Len(reassembly')].to = p.to
        /\ reassembly_len' = p.to
    BY <1>3, <1>5, <2>1
  <2> QED  BY <1>8, <2>3, <2>4, <2>5, <2>6, Zenon DEF BufferInv
<1> QED
  <2>1. len + Bytes(p) \in Nat /\ MAX_NAL_SIZE \in Nat
    BY <1>1, <1>4, VideoAssumption
  <2>2. len + Bytes(p) > MAX_NAL_SIZE \/ len + Bytes(p) <= MAX_NAL_SIZE
    BY <2>1
  <2> QED  BY <1>6, <1>7, <1>8, <2>2

(* A packet that shows no gap while a NAL is put together is the next      *)
(* fragment of that NAL, or the numbers went round once since then.        *)
LEMMA NextOrRound ==
  ASSUME SenderInv, NEW e \in 0 .. made, OrderInv(e), reassembling,
         NEW p \in InTransit, ~ Passed(p), ~ Gap(p),
         NEW r \in network, r.kind = "fu", ~ r.end,
         r.index + 1 = e \/ r.index + SEQ_MOD <= e
  PROVE  \/ /\ r.index + 1 = p.index /\ p.kind = "fu" /\ p.nal = r.nal
            /\ p.from = r.to + 1 /\ p.timestamp = r.timestamp
         \/ r.index + SEQ_MOD <= p.index
<1>1. /\ p \in network /\ SoundPacket(p)
      /\ p.index \in Nat /\ e \in Nat /\ p.index >= e
      /\ SeqOf(p.index) = SeqOf(e)
  <2>1. have_expected_seq
    BY DEF OrderInv
  <2> QED  BY <2>1, TakenIsNew
<1>2. SoundPacket(r) /\ r.index \in Nat /\ SoundOrder(r, p)
  BY <1>1 DEF SenderInv, SoundPacket
<1>3. CASE p.index = e /\ r.index + 1 = e
  <2>1. p.kind = "fu" /\ p.nal = r.nal /\ p.from = r.to + 1
    BY <1>2, <1>3 DEF SoundOrder
  <2>2. p.timestamp = r.timestamp
    BY <1>1, <1>2, <2>1 DEF SoundPacket
  <2> QED  BY <1>3, <2>1, <2>2
<1>4. CASE p.index # e
  <2>1. p.index - e >= SEQ_MOD
    <3>1. SUFFICES ASSUME p.index - e < SEQ_MOD  PROVE FALSE
      BY <1>1, SeqModFacts
    <3> QED
      BY <1>1, <1>4, <3>1, NumberedInjective, VideoAssumption DEF SeqOf
  <2> QED  BY <1>1, <1>2, <2>1, SeqModFacts
<1>5. CASE r.index + SEQ_MOD <= e
  BY <1>1, <1>2, <1>5, SeqModFacts
<1> QED  BY <1>3, <1>4, <1>5

(* The buffer as it is stays right when a packet without a gap is neither  *)
(* added to it nor a reason to give it up.                                 *)
LEMMA KeptBuffer ==
  ASSUME SenderInv, NEW e \in 0 .. made, OrderInv(e), BufferInv(e),
         NEW p \in InTransit, ~ Passed(p), ~ Gap(p),
         p.kind # "fu" \/ p.timestamp # reassembly_timestamp
           \/ ~ reassembling,
         UNCHANGED <<network, bufferVars, reassembly_timestamp, delivered>>,
         NEW f, f = p.index + 1
  PROVE  BufferInv(f)'
<1>1. CASE ~ reassembling
  BY <1>1 DEF BufferInv, bufferVars, DeliveredWhole
<1>2. CASE reassembling
  <2>1. PICK r \in network :
          /\ r.kind = "fu" /\ ~ r.end
          /\ r.index + 1 = e \/ r.index + SEQ_MOD <= e
          /\ r.timestamp = reassembly_timestamp
          /\ Beginning(reassembly, r.nal)
          /\ reassembly[Len(reassembly)].to = r.to
          /\ reassembly_len = r.to
    BY <1>2 DEF BufferInv
  <2>2. r.index + SEQ_MOD <= p.index
    BY <1>2, <2>1, NextOrRound
  <2>3. r.index \in Nat /\ p.index \in Nat
    <3>1. SoundPacket(r) /\ SoundPacket(p)
      BY DEF SenderInv, InTransit
    <3> QED  BY <3>1 DEF SoundPacket
  <2>4. r.index + SEQ_MOD <= f
    BY <2>2, <2>3, SeqModFacts
  <2>5. /\ reassembling' = reassembling /\ reassembly' = reassembly
        /\ reassembly_len' = reassembly_len /\ network' = network
        /\ reassembly_timestamp' = reassembly_timestamp
        /\ delivered' = delivered
    BY DEF bufferVars
  <2>6. DeliveredWhole'
    BY <2>5 DEF BufferInv, DeliveredWhole
  <2> QED  BY <1>2, <2>1, <2>4, <2>5, <2>6 DEF BufferInv
<1> QED  BY <1>1, <1>2 DEF BufferInv

LEMMA ProcessKeepsBuffer ==
  ASSUME SenderInv, UnitsFit, NEW e \in 0 .. made, OrderInv(e), BufferInv(e),
         NEW p \in InTransit, Process(p), UNCHANGED sendVars,
         NEW f, f = p.index + 1
  PROVE  BufferInv(f)'
<1>1. p \in network /\ SoundPacket(p) /\ p.index \in Nat /\ ~ Passed(p)
  BY DEF SenderInv, InTransit, Process, SoundPacket
<1>2. DeliveredWhole /\ network' = network
  BY DEF BufferInv, sendVars
<1>3. CASE Single(p)
  <2>1. Reset /\ delivered'.pieces = <<Piece(p)>> /\ delivered'.nal = p.nal
    BY <1>3 DEF Single, OnNal
  <2>2. /\ Piece(p) \in Pieces /\ Piece(p).from = 1 /\ Piece(p).nal = p.nal
        /\ Piece(p).to = Stream[p.nal].size
    BY <1>1, <1>3 DEF Single, SoundPacket, Piece, Pieces
  <2>3. WholeNal(<<Piece(p)>>, p.nal)
    BY <2>2, OnePiece, BeginningToEnd
  <2>4. DeliveredWhole'
    BY <2>1, <2>3 DEF DeliveredWhole
  <2> QED  BY <2>1, <2>4, EmptyBuffer
<1>4. ASSUME ResetIfGap(p), UNCHANGED <<reassembly_timestamp, delivered>>,
             p.kind # "fu" \/ ~ Continues(p)
      PROVE  BufferInv(f)'
  <2>1. CASE Gap(p)
    <3>1. Reset /\ DeliveredWhole'
      BY <1>2, <1>4, <2>1 DEF ResetIfGap, DeliveredWhole
    <3> QED  BY <3>1, EmptyBuffer
  <2>2. CASE ~ Gap(p)
    <3>1. UNCHANGED <<network, bufferVars, reassembly_timestamp, delivered>>
      BY <1>2, <1>4, <2>2 DEF ResetIfGap
    <3>2. p.kind # "fu" \/ p.timestamp # reassembly_timestamp
          \/ ~ reassembling
      BY <1>4, <2>2 DEF Continues
    <3> QED  BY <1>1, <2>2, <3>1, <3>2, KeptBuffer
  <2> QED  BY <2>1, <2>2
<1>5. CASE Malformed(p)
  <2>1. Reset /\ DeliveredWhole'
    BY <1>2, <1>5 DEF Malformed, DeliveredWhole
  <2> QED  BY <2>1, EmptyBuffer
<1>6. CASE Unsupported(p)
  BY <1>4, <1>6 DEF Unsupported
<1>7. CASE Orphan(p)
  BY <1>4, <1>7 DEF Orphan
<1>8. CASE Begin(p)
  <2>1. /\ p.kind = "fu" /\ reassembly_timestamp' = p.timestamp
        /\ AppendPiece(p, <<Header(p)>>, 1, Gap(p)) /\ p.from = 2
    BY <1>1, <1>8 DEF Begin, SoundPacket
  <2>2. /\ Header(p) \in Pieces /\ Header(p).nal = p.nal
        /\ Header(p).from = 1 /\ Header(p).to = 1
    BY <1>1 DEF Header, Pieces, SoundPacket
  <2>3. /\ Beginning(<<Header(p)>>, p.nal)
        /\ <<Header(p)>>[Len(<<Header(p)>>)].to = 1
    BY <2>2, OnePiece
  <2>4. 1 = p.from - 1
    BY <2>1
  <2> QED  BY <1>1, <1>2, <2>1, <2>3, <2>4, AppendKeepsBuffer
<1>9. CASE Continue(p)
  <2>1. /\ p.kind = "fu" /\ reassembling /\ ~ Gap(p)
        /\ reassembly_timestamp = p.timestamp
        /\ reassembly_timestamp' = p.timestamp
        /\ AppendPiece(p, reassembly, reassembly_len, discontinuity)
    BY <1>9 DEF Continue, Continues
  <2>2. PICK r \in network :
          /\ r.kind = "fu" /\ ~ r.end
          /\ r.index + 1 = e \/ r.index + SEQ_MOD <= e
          /\ r.timestamp = reassembly_timestamp
          /\ Beginning(reassembly, r.nal)
          /\ reassembly[Len(reassembly)].to = r.to
          /\ reassembly_len = r.to
    BY <2>1 DEF BufferInv
  <2>3. ~ (r.index + SEQ_MOD <= p.index)
    <3>1. p.index - r.index < SEQ_MOD
      BY <1>1, <2>1, <2>2 DEF UnitsFit
    <3>2. r.index \in Nat
      BY DEF SenderInv, SoundPacket
    <3> QED  BY <1>1, <3>1, <3>2, SeqModFacts
  <2>4. p.nal = r.nal /\ p.from = r.to + 1
    BY <1>1, <2>1, <2>2, <2>3, NextOrRound
  <2>5. reassembly_len = p.from - 1
    <3>1. r.to \in Nat
      BY DEF SenderInv, SoundPacket
    <3> QED  BY <2>2, <2>4, <3>1
  <2>6. /\ Beginning(reassembly, p.nal)
        /\ reassembly[Len(reassembly)].to = reassembly_len
    BY <2>2, <2>4
  <2> QED  BY <1>1, <1>2, <2>1, <2>5, <2>6, AppendKeepsBuffer
<1> QED
  BY <1>3, <1>5, <1>6, <1>7, <1>8, <1>9 DEF Process

VideoIInv == SenderInv /\ \E e \in 0 .. made : OrderInv(e) /\ BufferInv(e)

LEMMA VideoStep ==
  ASSUME VideoIInv, UnitsFit, [VideoNext]_videoVars
  PROVE  VideoIInv'
<1>1. PICK e \in 0 .. made : OrderInv(e) /\ BufferInv(e)
  BY DEF VideoIInv
<1>2. SenderInv
  BY DEF VideoIInv
<1>3. CASE SendNal
  <2>1. e \in 0 .. made' /\ OrderInv(e)' /\ SenderInv'
    BY <1>1, <1>2, <1>3, SendNalKeepsOrder, SendNalKeepsSender
  <2>2. UNCHANGED receiveVars /\ network \subseteq network'
    BY <1>3 DEF SendNal
  <2>3. BufferInv(e)'
    BY <1>1, <2>2
    DEF BufferInv, receiveVars, bufferVars, DeliveredWhole
  <2> QED  BY <2>1, <2>3 DEF VideoIInv
<1>4. CASE UNCHANGED sendVars
  <2>1. SenderInv'
    BY <1>2, <1>4 DEF SenderInv, sendVars, SoundPacket, SoundOrder, Bytes
  <2>2. ASSUME NEW p \in InTransit, Process(p)
        PROVE  \E f \in 0 .. made' : OrderInv(f)' /\ BufferInv(f)'
    <3>1. PICK f : f = p.index + 1
      OBVIOUS
    <3>2. OrderInv(f)' /\ f \in 0 .. made'
      BY <1>1, <1>2, <1>4, <2>2, <3>1, ProcessKeepsOrder
    <3>3. BufferInv(f)'
      BY <1>1, <1>2, <1>4, <2>2, <3>1, ProcessKeepsBuffer
    <3> QED  BY <3>2, <3>3
  <2>3. CASE UNCHANGED receiveVars
    <3>1. e \in 0 .. made' /\ OrderInv(e)'
      BY <1>1, <1>4, <2>3
      DEF OrderInv, sendVars, receiveVars, bufferVars
    <3>2. BufferInv(e)'
      BY <1>1, <1>4, <2>3
      DEF BufferInv, sendVars, receiveVars, bufferVars, DeliveredWhole
    <3> QED  BY <2>1, <3>1, <3>2 DEF VideoIInv
  <2>4. UNCHANGED receiveVars \/ \E p \in InTransit : Process(p)
    BY <1>4 DEF VideoNext, Receive, SendNal, videoVars
  <2> QED  BY <2>1, <2>2, <2>3, <2>4 DEF VideoIInv
<1> QED  BY <1>3, <1>4 DEF VideoNext, Receive, videoVars

LEMMA VideoInitial == VideoInit => VideoIInv
<1> SUFFICES ASSUME VideoInit  PROVE VideoIInv
  OBVIOUS
<1>1. SenderInv /\ 0 \in 0 .. made /\ OrderInv(0)
  BY OrderedInit DEF OrderedInv, OrderInv, VideoInit
<1>2. reassembling \in BOOLEAN /\ ~ reassembling
  BY Zenon DEF VideoInit
<1>3. /\ reassembly = <<>> /\ reassembly_len \in 0 .. MAX_NAL_SIZE
      /\ DeliveredWhole
  BY VideoAssumption DEF VideoInit, DeliveredWhole
<1>4. BufferInv(0)
  BY <1>2, <1>3, Zenon DEF BufferInv
<1> QED  BY <1>1, <1>4 DEF VideoIInv

LEMMA VideoIInvImplies == VideoIInv => VideoInv
<1> SUFFICES ASSUME VideoIInv  PROVE VideoInv
  OBVIOUS
<1>1. PICK e \in 0 .. made : OrderInv(e) /\ BufferInv(e)
  BY DEF VideoIInv
<1>2. SenderInv
  BY DEF VideoIInv
<1>3. SoundFragments
  BY <1>2 DEF SenderInv, SoundFragments, SoundPacket, Bytes
<1>4. next_seq \in Seq16
  BY <1>2, NumberedNext, VideoAssumption DEF SenderInv, SeqOf
<1>5. /\ reassembling <=> reassembly # <<>>
      /\ reassembling => reassembly_len = reassembly[Len(reassembly)].to
      /\ reassembly_len \in 0 .. MAX_NAL_SIZE
  BY <1>1 DEF BufferInv, Beginning
<1>6. VideoTypeOK
  BY <1>1, <1>4, <1>5 DEF VideoTypeOK, OrderInv
<1> QED  BY <1>1, <1>3, <1>6 DEF VideoInv, BufferInv

(* As long as access units have fewer packets than there are numbers, what *)
(* the receiver delivers is whole, whatever the network lost, repeated or  *)
(* reordered, and its buffer never holds more than was allocated.          *)
THEOREM VideoCorrect == VideoSpec /\ []UnitsFit => []VideoInv
<1>1. VideoIInv /\ UnitsFit /\ [VideoNext]_videoVars => VideoIInv'
  BY VideoStep
<1> QED
  BY VideoInitial, VideoIInvImplies, <1>1, PTL DEF VideoSpec

-----------------------------------------------------------------------------
(* What was taken, and what comes of it.                                   *)

(* The network has every packet once, in the order of the NALs; only the   *)
(* first packet of a NAL is its start.                                     *)
StreamInv ==
  /\ \A i \in 0 .. made - 1 : \E p \in network : p.index = i
  /\ \A p, q \in network :
       /\ p.index = q.index => p = q
       /\ p.index < q.index => /\ p.nal <= q.nal
                               /\ q.start => p.nal < q.nal
  /\ \A p \in network :
       /\ p.kind \in {"single", "fu"} <=> Stream[p.nal].kind = "nal"
       /\ p.kind = "single" => p.start
       /\ p.kind = "fu" /\ ~ p.start =>
            /\ p.index > 0
            /\ \A q \in network :
                 q.index + 1 = p.index => q.kind = "fu" /\ ~ q.end

\* all of the NAL's packets up to r were taken
AllUpTo(r, taken) ==
  \A q \in network : q.nal = r.nal /\ q.index <= r.index => q \in taken

AfterGap(p, taken) == /\ \E q \in taken : q.index < p.index
                      /\ \A q \in taken : q.index + 1 # p.index

FlagRight(k, flag, taken) ==
  \E first \in taken : /\ first.nal = k /\ first.start
                       /\ flag <=> AfterGap(first, taken)

(* What is put together is what was taken of the NAL of the packet counted *)
(* before e: all of it up to there.                                        *)
HistoryInv(e) ==
  /\ accepted \subseteq network
  /\ \A q \in accepted : q.index < e
  /\ have_expected_seq => \E q \in accepted : q.index + 1 = e
  /\ ~ have_expected_seq => accepted = {}
  /\ reassembling =>
       \E r \in accepted :
         /\ r.kind = "fu" /\ ~ r.end /\ r.index + 1 = e
         /\ r.timestamp = reassembly_timestamp /\ reassembly_len = r.to
         /\ AllUpTo(r, accepted)
         /\ FlagRight(r.nal, discontinuity, accepted)
  /\ \A r \in accepted :
       /\ r.kind = "fu" /\ ~ r.end /\ r.index + 1 = e
       /\ AllUpTo(r, accepted) /\ r.to <= MAX_NAL_SIZE
       => reassembling
  /\ delivered.nal # 0 =>
       FlagRight(delivered.nal, delivered.discontinuity, accepted)

LEMMA StreamInitial == VideoInit => StreamInv
<1> SUFFICES ASSUME VideoInit  PROVE StreamInv
  OBVIOUS
<1>1. network = {} /\ made = 0
  BY DEF VideoInit
<1> QED  BY <1>1 DEF StreamInv

(* The packets of one entry, among each other.                             *)
LEMMA EntryPackets ==
  ASSUME SenderInv, NEW k \in 1 .. Len(Stream),
         NEW i \in 0 .. PacketCount(k) - 1, NEW p, p = PacketOf(k, i)
  PROVE  /\ p.kind \in {"single", "fu"} <=> Stream[p.nal].kind = "nal"
         /\ p.kind = "single" => p.start
         /\ p.index = made + i /\ p.nal = k /\ (p.start <=> i = 0)
         /\ p.kind = "fu" /\ i > 0 =>
              /\ PacketOf(k, i - 1).kind = "fu" /\ ~ PacketOf(k, i - 1).end
<1>1. /\ i \in Nat /\ PacketCount(k) \in Nat /\ p.index = made + i
      /\ p.nal = k /\ (p.start <=> i = 0)
      /\ p.kind = "single" => PacketCount(k) = 1
      /\ p.kind = "fu" => PacketCount(k) > 1
  BY PacketFacts
<1>2. Stream[k].kind \in {"nal", "stap", "bad"}
  <2>1. Stream[k] \in Entries
    BY VideoAssumption, ElementOfSeq
  <2> QED  BY <2>1 DEF Entries
<1>3. \A j : PacketOf(k, j).kind
               = IF Stream[k].kind # "nal" THEN Stream[k].kind
                 ELSE IF MaxPackets(Stream[k].size) = 1
                      THEN "single" ELSE "fu"
  BY DEF PacketOf
<1>4. p.kind \in {"single", "fu"} <=> Stream[p.nal].kind = "nal"
  BY <1>1, <1>2, <1>3
<1>5. p.kind = "single" => p.start
  BY <1>1
<1>6. ASSUME p.kind = "fu", i > 0
      PROVE  PacketOf(k, i - 1).kind = "fu" /\ ~ PacketOf(k, i - 1).end
  <2>1. i - 1 \in 0 .. PacketCount(k) - 1 /\ i - 1 # PacketCount(k) - 1
    BY <1>1, <1>6
  <2>2. PacketOf(k, i - 1).kind = "fu"
    BY <1>3, <1>6
  <2>3. PICK q : q = PacketOf(k, i - 1)
    OBVIOUS
  <2>4. q.kind = "fu" => (q.end <=> i - 1 = PacketCount(k) - 1)
    BY <2>1, <2>3, PacketFacts
  <2> QED  BY <2>1, <2>2, <2>3, <2>4
<1> QED  BY <1>1, <1>4, <1>5, <1>6

LEMMA SendNalKeepsStream ==
  ASSUME SenderInv, StreamInv, SendNal
  PROVE  StreamInv'
<1> DEFINE k == sent + 1
           n == PacketCount(k)
           New(p, i) == i \in 0 .. n - 1 /\ p = PacketOf(k, i)
<1>1. /\ k \in 1 .. Len(Stream) /\ n \in Nat /\ n > 0
      /\ made' = made + n /\ made \in Nat /\ sent \in Nat
  <2>1. Len(Stream) \in Nat
    BY VideoAssumption, LenProperties
  <2> QED  BY <2>1, SendNalCounts DEF SenderInv
<1>2. network' = network \cup {PacketOf(k, i) : i \in 0 .. n - 1}
  BY DEF SendNal
<1>3. ASSUME NEW p \in network
      PROVE  /\ p.index \in Nat /\ p.index < made
             /\ p.nal \in Nat /\ p.nal < k
  BY <1>1 DEF SenderInv, SoundPacket
<1>4. ASSUME NEW p, NEW i, New(p, i)
      PROVE  /\ i \in Nat /\ i < n
             /\ p.index = made + i /\ p.nal = k /\ (p.start <=> i = 0)
             /\ p.kind \in {"single", "fu"} <=> Stream[p.nal].kind = "nal"
             /\ p.kind = "single" => p.start
             /\ p.kind = "fu" /\ i > 0 =>
                  PacketOf(k, i - 1).kind = "fu" /\ ~ PacketOf(k, i - 1).end
  <2>1. i \in 0 .. PacketCount(k) - 1
    BY <1>4
  <2>2. i \in Nat /\ i < n
    BY <1>1, <1>4
  <2>3. k \in 1 .. Len(Stream) /\ p = PacketOf(k, i)
    BY <1>1, <1>4
  <2> HIDE DEF k, n
  <2>4. /\ p.index = made + i /\ p.nal = k /\ (p.start <=> i = 0)
        /\ p.kind \in {"single", "fu"} <=> Stream[p.nal].kind = "nal"
        /\ p.kind = "single" => p.start
        /\ p.kind = "fu" /\ i > 0 =>
             PacketOf(k, i - 1).kind = "fu" /\ ~ PacketOf(k, i - 1).end
    BY <2>1, <2>3, EntryPackets
  <2> QED  BY <2>2, <2>4
<1>5. \A p \in network' : p \in network \/ \E i : New(p, i)
  BY <1>2
<1> HIDE DEF k, n
<1>6. ASSUME NEW j \in 0 .. made' - 1
      PROVE  \E p \in network' : p.index = j
  <2>1. CASE j < made
    <3>1. j \in 0 .. made - 1
      BY <1>1, <2>1
    <3>2. PICK p \in network : p.index = j
      BY <3>1 DEF StreamInv
    <3>3. p \in network'
      BY <1>2
    <3> QED  BY <3>2, <3>3
  <2>2. CASE ~ (j < made)
    <3>1. New(PacketOf(k, j - made), j - made) /\ made + (j - made) = j
      BY <1>1, <2>2
    <3>2. PacketOf(k, j - made) \in network'
      BY <1>2, <3>1
    <3> QED  BY <1>4, <3>1, <3>2
  <2> QED  BY <2>1, <2>2
<1>7. ASSUME NEW p \in network', NEW q \in network'
      PROVE  /\ p.index = q.index => p = q
             /\ p.index < q.index => /\ p.nal <= q.nal
                                     /\ q.start => p.nal < q.nal
  <2>1. CASE p \in network /\ q \in network
    BY <2>1 DEF StreamInv
  <2>2. CASE p \in network /\ \E j : New(q, j)
    <3>1. PICK j : New(q, j)
      BY <2>2
    <3>2. q.index = made + j /\ q.nal = k /\ j \in Nat
      BY <1>4, <3>1
    <3>3. p.index # q.index /\ p.nal < q.nal /\ p.nal <= q.nal
      BY <1>1, <1>3, <2>2, <3>2
    <3> QED  BY <3>3
  <2>3. CASE (\E i : New(p, i)) /\ q \in network
    <3>1. PICK i : New(p, i)
      BY <2>3
    <3>2. p.index = made + i /\ i \in Nat
      BY <1>4, <3>1
    <3>3. p.index # q.index /\ ~ (p.index < q.index)
      BY <1>1, <1>3, <2>3, <3>2
    <3> QED  BY <3>3
  <2>4. CASE (\E i : New(p, i)) /\ (\E j : New(q, j))
    <3>1. PICK i : New(p, i)
      BY <2>4
    <3>2. PICK j : New(q, j)
      BY <2>4
    <3>3. /\ p.index = made + i /\ p.nal = k /\ i \in Nat
          /\ q.index = made + j /\ q.nal = k /\ j \in Nat
          /\ q.start => j = 0
      BY <1>4, <3>1, <3>2
    <3>4. /\ p.index = q.index => i = j
          /\ p.index < q.index => ~ q.start /\ p.nal <= q.nal
      BY <1>1, <3>3
    <3> QED  BY <3>1, <3>2, <3>4
  <2> QED  BY <1>5, <2>1, <2>2, <2>3, <2>4
<1>8. ASSUME NEW p \in network'
      PROVE  /\ p.kind \in {"single", "fu"} <=> Stream[p.nal].kind = "nal"
             /\ p.kind = "single" => p.start
             /\ p.kind = "fu" /\ ~ p.start =>
                  /\ p.index > 0
                  /\ \A q \in network' :
                       q.index + 1 = p.index => q.kind = "fu" /\ ~ q.end
  <2>1. CASE p \in network
    <3>1. ASSUME NEW q \in network', q.index + 1 = p.index
          PROVE  q \in network
      <4>1. ASSUME NEW j, New(q, j)  PROVE FALSE
        <5>1. q.index = made + j /\ j \in Nat
          BY <1>4, <4>1
        <5> QED  BY <1>1, <1>3, <2>1, <3>1, <5>1
      <4> QED  BY <1>5, <4>1
    <3> QED  BY <2>1, <3>1 DEF StreamInv
  <2>2. CASE \E i : New(p, i)
    <3>1. PICK i : New(p, i)
      BY <2>2
    <3>2. /\ i \in Nat /\ i < n /\ p.index = made + i
          /\ (p.start <=> i = 0)
          /\ p.kind \in {"single", "fu"} <=> Stream[p.nal].kind = "nal"
          /\ p.kind = "single" => p.start
          /\ p.kind = "fu" /\ i > 0 =>
               PacketOf(k, i - 1).kind = "fu" /\ ~ PacketOf(k, i - 1).end
      BY <1>4, <3>1
    <3>3. ASSUME p.kind = "fu", ~ p.start
          PROVE  /\ i > 0 /\ p.index > 0
                 /\ \A q \in network' : q.index + 1 = p.index =>
                      q = PacketOf(k, i - 1)
      <4>1. i > 0 /\ p.index > 0
        BY <1>1, <3>2, <3>3
      <4>2. ASSUME NEW q \in network', q.index + 1 = p.index
            PROVE  q = PacketOf(k, i - 1)
        <5>1. PICK j : New(q, j)
          <6>1. q \notin network
            BY <1>1, <1>3, <3>2, <4>1, <4>2
          <6> QED  BY <1>5, <6>1
        <5>2. q.index = made + j /\ j \in Nat
          BY <1>4, <5>1
        <5>3. j = i - 1
          BY <1>1, <3>2, <4>2, <5>2
        <5> QED  BY <5>1, <5>3
      <4> QED  BY <4>1, <4>2
    <3> QED  BY <3>2, <3>3
  <2> QED  BY <1>5, <2>1, <2>2
<1> QED  BY <1>6, <1>7, <1>8 DEF StreamInv

(* As long as no whole circle of numbers is lost, the numbers show every   *)
(* gap.                                                                    *)
LEMMA GapIsSeen ==
  ASSUME SenderInv, StreamInv, NEW e \in 0 .. made, OrderInv(e),
         HistoryInv(e), LossesFit, NEW p \in InTransit, ~ Passed(p)
  PROVE  /\ p \in network /\ SoundPacket(p) /\ p \notin accepted
         /\ p.index \in Nat /\ e \in Nat /\ p.index >= e
         /\ have_expected_seq => (Gap(p) <=> p.index # e)
         /\ Gap(p) <=> AfterGap(p, accepted)
<1>1. /\ p \in network /\ SoundPacket(p)
      /\ p.index \in Nat /\ e \in Nat /\ p.index >= e
      /\ p.seq = SeqOf(p.index)
      /\ have_expected_seq /\ ~ Gap(p) => SeqOf(p.index) = SeqOf(e)
  BY TakenIsNew DEF SoundPacket
<1>2. accepted \subseteq network /\ \A q \in accepted : q.index < e
  BY DEF HistoryInv
<1>3. \A q \in accepted : q.index \in Nat /\ q.index < p.index
  <2>1. ASSUME NEW q \in accepted  PROVE q.index \in Nat /\ q.index < p.index
    <3>1. SoundPacket(q)
      BY <1>2 DEF SenderInv
    <3> QED  BY <1>1, <1>2, <3>1 DEF SoundPacket
  <2> QED  BY <2>1
<1>4. p \notin accepted
  BY <1>1, <1>3
<1>5. CASE have_expected_seq
  <2>1. PICK last \in accepted : last.index + 1 = e
    BY <1>5 DEF HistoryInv
  <2>2. p.index = e => ~ Gap(p)
    BY <1>1, <1>5 DEF Gap, OrderInv
  <2>3. ~ Gap(p) => p.index = e
    <3>1. SUFFICES ASSUME ~ Gap(p)  PROVE p.index = e
      OBVIOUS
    <3>2. PICK q \in accepted : p.index - q.index <= SEQ_MOD
      BY <2>1 DEF LossesFit
    <3>3. p.index - e < SEQ_MOD
      <4>1. q.index \in Nat /\ q.index < e
        BY <1>2, <1>3
      <4> QED  BY <1>1, <3>2, <4>1, SeqModFacts
    <3>4. SeqOf(e) = SeqOf(p.index)
      BY <1>1, <1>5, <3>1
    <3> QED
      BY <1>1, <3>3, <3>4, NumberedInjective, VideoAssumption DEF SeqOf
  <2>4. AfterGap(p, accepted) <=> p.index # e
    <3>1. p.index = e => last.index + 1 = p.index
      BY <2>1
    <3>2. ASSUME p.index # e, NEW q \in accepted  PROVE q.index + 1 # p.index
      BY <1>1, <1>2, <1>3, <3>2
    <3> QED  BY <1>3, <2>1, <3>1, <3>2 DEF AfterGap
  <2> QED  BY <1>1, <1>4, <2>2, <2>3, <2>4
<1>6. CASE ~ have_expected_seq
  <2>1. accepted = {}
    BY <1>6 DEF HistoryInv
  <2> QED  BY <1>1, <1>4, <1>6, <2>1 DEF Gap, AfterGap
<1> QED  BY <1>5, <1>6

(* What is put together when a packet comes that shows no gap is the NAL   *)
(* of that packet, and the packet its next fragment.                       *)
LEMMA BufferIsOfNext ==
  ASSUME SenderInv, StreamInv, NEW e \in 0 .. made, OrderInv(e),
         HistoryInv(e), LossesFit, NEW p \in InTransit, ~ Passed(p),
         reassembling, ~ Gap(p)
  PROVE  /\ p.index = e /\ p.kind = "fu" /\ ~ p.start
         /\ p.timestamp = reassembly_timestamp
         /\ reassembly_len + 1 = p.from
         /\ FlagRight(p.nal, discontinuity, accepted)
         /\ \A q \in network :
              q.nal = p.nal /\ q.index < p.index => q \in accepted
<1>1. /\ p \in network /\ SoundPacket(p) /\ p.index \in Nat
      /\ have_expected_seq => p.index = e
  BY GapIsSeen
<1>2. have_expected_seq
  BY DEF OrderInv
<1>3. PICK r \in accepted :
         /\ r.kind = "fu" /\ ~ r.end /\ r.index + 1 = e
         /\ r.timestamp = reassembly_timestamp /\ reassembly_len = r.to
         /\ AllUpTo(r, accepted)
         /\ FlagRight(r.nal, discontinuity, accepted)
  BY DEF HistoryInv
<1>4. r \in network /\ SoundPacket(r) /\ SoundOrder(r, p)
  BY <1>1 DEF HistoryInv, SenderInv
<1>5. p.index = r.index + 1 /\ r.index \in Nat
  BY <1>1, <1>2, <1>3, <1>4 DEF SoundPacket
<1>6. p.kind = "fu" /\ p.nal = r.nal /\ p.from = r.to + 1
  BY <1>3, <1>4, <1>5 DEF SoundOrder
<1>7. ~ p.start
  <2>1. p.start => r.nal < p.nal
    BY <1>1, <1>4, <1>5 DEF StreamInv
  <2>2. r.nal \in Nat
    BY <1>4 DEF SoundPacket
  <2> QED  BY <1>6, <2>1, <2>2
<1>8. p.timestamp = reassembly_timestamp
  BY <1>1, <1>3, <1>4, <1>6 DEF SoundPacket
<1>9. ASSUME NEW q \in network, q.nal = p.nal, q.index < p.index
      PROVE  q \in accepted
  <2>1. q.index \in Nat
    BY DEF SenderInv, SoundPacket
  <2>2. q.index <= r.index
    BY <1>5, <1>9, <2>1
  <2> QED  BY <1>3, <1>6, <1>9, <2>2 DEF AllUpTo
<1>10. reassembly_len + 1 = p.from
  BY <1>3, <1>6
<1> QED
  BY <1>1, <1>2, <1>3, <1>6, <1>7, <1>8, <1>9, <1>10

(* A later fragment finds its NAL being put together if all before it were *)
(* taken and there is room.                                                *)
LEMMA LaterContinues ==
  ASSUME SenderInv, StreamInv, NEW e \in 0 .. made, OrderInv(e),
         HistoryInv(e), LossesFit, NEW p \in InTransit, ~ Passed(p),
         p.kind = "fu", ~ p.start, p.to <= MAX_NAL_SIZE,
         \A q \in network :
           q.nal = p.nal /\ q.index < p.index => q \in accepted
  PROVE  Continues(p)
<1>1. /\ p \in network /\ SoundPacket(p) /\ p.index \in Nat
      /\ e \in Nat /\ p.index >= e
      /\ have_expected_seq => (Gap(p) <=> p.index # e)
  BY GapIsSeen
<1>2. p.index > 0 /\ made \in Nat /\ p.index < made
  BY <1>1 DEF StreamInv, SenderInv, SoundPacket
<1>3. PICK q \in network : q.index = p.index - 1
  BY <1>1, <1>2 DEF StreamInv
<1>4. q.index + 1 = p.index /\ q.index < p.index
  BY <1>1, <1>3
<1>5. q.kind = "fu" /\ ~ q.end /\ SoundOrder(q, p) /\ SoundPacket(q)
  BY <1>1, <1>4 DEF StreamInv, SenderInv
<1>6. p.nal = q.nal /\ p.from = q.to + 1
  BY <1>4, <1>5 DEF SoundOrder
<1>7. q \in accepted
  BY <1>4, <1>6
<1>8. p.index = e /\ q.index + 1 = e
  <2>1. q.index < e
    BY <1>7 DEF HistoryInv
  <2> QED  BY <1>1, <1>3, <2>1
<1>9. AllUpTo(q, accepted)
  <2>1. ASSUME NEW o \in network, o.nal = q.nal, o.index <= q.index
        PROVE  o \in accepted
    <3>1. o.index \in Nat
      BY DEF SenderInv, SoundPacket
    <3>2. o.index < p.index
      BY <1>1, <1>3, <2>1, <3>1
    <3> QED  BY <1>6, <2>1, <3>2
  <2> QED  BY <2>1 DEF AllUpTo
<1>10. q.to <= MAX_NAL_SIZE
  <2>1. q.to \in Nat /\ p.from \in Nat /\ p.to \in Nat /\ p.from <= p.to
    BY <1>1, <1>5 DEF SoundPacket
  <2> QED  BY <1>6, <2>1, VideoAssumption
<1>11. reassembling
  BY <1>5, <1>7, <1>8, <1>9, <1>10 DEF HistoryInv
<1>12. have_expected_seq /\ ~ Gap(p)
  <2>1. have_expected_seq
    BY <1>11 DEF OrderInv
  <2> QED  BY <1>1, <1>8, <2>1
<1>13. p.timestamp = reassembly_timestamp
  BY <1>11, <1>12, BufferIsOfNext
<1> QED  BY <1>11, <1>12, <1>13 DEF Continues

\* packets taken later change nothing about the beginning of a NAL
LEMMA FlagKept ==
  ASSUME NEW taken, NEW e \in Nat,
         \A q \in taken : q.index \in Nat /\ q.index < e,
         NEW p, p.index \in Nat, p.index >= e,
         NEW k, NEW flag, FlagRight(k, flag, taken)
  PROVE  FlagRight(k, flag, taken \cup {p})
<1>1. PICK first \in taken : /\ first.nal = k /\ first.start
                             /\ flag <=> AfterGap(first, taken)
  BY DEF FlagRight
<1>2. ~ (p.index < first.index) /\ p.index + 1 # first.index
  BY <1>1
<1>3. AfterGap(first, taken \cup {p}) <=> AfterGap(first, taken)
  BY <1>2 DEF AfterGap
<1>4. first \in taken \cup {p}
  OBVIOUS
<1> QED  BY <1>1, <1>3, <1>4, Zenon DEF FlagRight

LEMMA FlagOfStart ==
  ASSUME NEW taken, NEW p, p.index \in Nat, p.start,
         NEW flag, flag <=> AfterGap(p, taken)
  PROVE  FlagRight(p.nal, flag, taken \cup {p})
<1>1. ~ (p.index < p.index) /\ p.index + 1 # p.index
  OBVIOUS
<1>2. AfterGap(p, taken \cup {p}) <=> AfterGap(p, taken)
  BY <1>1 DEF AfterGap
<1>3. p \in taken \cup {p}
  OBVIOUS
<1> QED  BY <1>2, <1>3, Zenon DEF FlagRight

(* Taking p is remembered rightly if what is put together afterwards is    *)
(* the NAL of p, begun and not ended, whenever it can be.                  *)
LEMMA TakingRemembered ==
  ASSUME SenderInv, StreamInv, NEW e \in Nat, HistoryInv(e),
         NEW p \in network, p.index \in Nat, p.index >= e,
         accepted' = accepted \cup {p}, network' = network,
         have_expected_seq' = TRUE,
         reassembling' =>
           /\ p.kind = "fu" /\ ~ p.end
           /\ p.timestamp = reassembly_timestamp' /\ reassembly_len' = p.to
           /\ AllUpTo(p, accepted')
           /\ FlagRight(p.nal, discontinuity', accepted'),
         p.kind = "fu" /\ ~ p.end /\ AllUpTo(p, accepted')
           /\ p.to <= MAX_NAL_SIZE => reassembling',
         delivered'.nal # 0 =>
           FlagRight(delivered'.nal, delivered'.discontinuity, accepted'),
         NEW f, f = p.index + 1
  PROVE  HistoryInv(f)'
<1>1. accepted \subseteq network /\ \A q \in accepted : q.index < e
  BY DEF HistoryInv
<1>2. \A q \in accepted : q.index \in Nat
  BY <1>1 DEF SenderInv, SoundPacket
<1>3. accepted' \subseteq network'
  BY <1>1
<1>4. \A q \in accepted' : q.index < f
  <2>1. ASSUME NEW q \in accepted'  PROVE q.index < f
    <3>1. CASE q = p
      BY <3>1
    <3>2. CASE q \in accepted
      <4>1. q.index \in Nat /\ q.index < e
        BY <1>1, <1>2, <3>2
      <4> QED  BY <4>1
    <3> QED  BY <2>1, <3>1, <3>2
  <2> QED  BY <2>1
<1>5. p \in accepted' /\ p.index + 1 = f
  OBVIOUS
<1>6. ASSUME NEW r \in accepted', r.index + 1 = f  PROVE r = p
  <2>1. r \in network /\ r.index \in Nat
    BY <1>3 DEF SenderInv, SoundPacket
  <2>2. r.index = p.index
    BY <1>6, <2>1
  <2> QED  BY <2>1, <2>2 DEF StreamInv
<1>7. \A r \in accepted' :
        /\ r.kind = "fu" /\ ~ r.end /\ r.index + 1 = f
        /\ AllUpTo(r, accepted') /\ r.to <= MAX_NAL_SIZE
        => reassembling'
  BY <1>6
<1> QED  BY <1>3, <1>4, <1>5, <1>7 DEF HistoryInv, AllUpTo

Complete(p) ==
  /\ PacketsOf(p.nal) \subseteq accepted'
  /\ PacketsOf(p.nal) \cap {q \in network : q.kind = "fu"} # {}
       => Stream[p.nal].size <= MAX_NAL_SIZE

(* The receiver's step, for every packet it may take.                      *)
LEMMA ProcessRemembers ==
  ASSUME SenderInv, StreamInv, NEW e \in 0 .. made, OrderInv(e),
         HistoryInv(e), LossesFit, NEW p \in InTransit, Process(p),
         accepted' = accepted \cup {p}, UNCHANGED sendVars,
         NEW f, f = p.index + 1
  PROVE  /\ HistoryInv(f)'
         /\ p.end /\ Stream[p.nal].kind = "nal" =>
              (delivered'.nal = p.nal <=> Complete(p))
<1> DEFINE Remembered ==
             /\ reassembling' =>
                  /\ p.kind = "fu" /\ ~ p.end
                  /\ p.timestamp = reassembly_timestamp'
                  /\ reassembly_len' = p.to
                  /\ AllUpTo(p, accepted')
                  /\ FlagRight(p.nal, discontinuity', accepted')
             /\ p.kind = "fu" /\ ~ p.end /\ AllUpTo(p, accepted')
                  /\ p.to <= MAX_NAL_SIZE => reassembling'
             /\ delivered'.nal # 0 =>
                  FlagRight(delivered'.nal, delivered'.discontinuity,
                            accepted')
           Right == p.end /\ Stream[p.nal].kind = "nal" =>
                      (delivered'.nal = p.nal <=> Complete(p))
<1>1. /\ ~ Passed(p) /\ p \in network /\ SoundPacket(p) /\ p \notin accepted
      /\ p.index \in Nat /\ e \in Nat /\ p.index >= e
      /\ have_expected_seq => (Gap(p) <=> p.index # e)
      /\ Gap(p) <=> AfterGap(p, accepted)
  <2>1. ~ Passed(p)
    BY DEF Process
  <2> QED  BY <2>1, GapIsSeen
<1>2. /\ accepted \subseteq network
      /\ \A q \in accepted : q.index \in Nat /\ q.index < e
  <2>1. accepted \subseteq network /\ \A q \in accepted : q.index < e
    BY DEF HistoryInv
  <2> QED  BY <2>1 DEF SenderInv, SoundPacket
<1>3. /\ network' = network /\ have_expected_seq' = TRUE
  BY DEF sendVars, Process, Expect
<1>4. delivered.nal # 0 =>
        FlagRight(delivered.nal, delivered.discontinuity, accepted')
  BY <1>1, <1>2, FlagKept DEF HistoryInv
<1>5. delivered.nal # p.nal
  <2>1. p.nal > delivered.nal /\ delivered.nal \in Nat /\ p.nal \in Nat
    BY <1>1 DEF OrderInv, SoundPacket, SenderInv
  <2> QED  BY <2>1
<1>6. p.start => FlagRight(p.nal, Gap(p), accepted')
  BY <1>1, FlagOfStart
<1>7. p.kind \in {"single", "fu"} <=> Stream[p.nal].kind = "nal"
  BY <1>1 DEF StreamInv
<1>8. \A q \in network : q.index \in Nat /\ q.nal \in Nat
  BY DEF SenderInv, SoundPacket
<1>9. ASSUME p.start, NEW q \in network, q.nal = p.nal, q.index <= p.index
      PROVE  q = p
  <2>1. ~ (q.index < p.index)
    BY <1>1, <1>8, <1>9 DEF StreamInv
  <2> QED  BY <1>1, <1>8, <1>9, <2>1 DEF StreamInv
<1>10. ASSUME p.end, p.kind \in {"single", "fu"},
              NEW q \in network, q.nal = p.nal
       PROVE  q.index <= p.index
  <2>1. SoundOrder(p, q)
    BY <1>1 DEF SenderInv
  <2> QED  BY <1>1, <1>8, <1>10, <2>1 DEF SoundOrder
<1>11. ASSUME AllUpTo(p, accepted')
       PROVE  \A q \in network :
                q.nal = p.nal /\ q.index < p.index => q \in accepted
  BY <1>1, <1>8, <1>11 DEF AllUpTo
<1>12. p.kind = "fu" /\ p.end /\ Complete(p) =>
         AllUpTo(p, accepted') /\ p.to <= MAX_NAL_SIZE
  BY <1>1 DEF Complete, PacketsOf, AllUpTo, SoundPacket
<1>13. ASSUME Single(p)  PROVE Remembered /\ Right
  <2>1. /\ p.kind = "single" /\ reassembling' = FALSE
        /\ delivered'.nal = p.nal /\ delivered'.discontinuity = Gap(p)
    BY <1>13 DEF Single, Reset, OnNal
  <2>2. p.start /\ p.end
    BY <1>1, <2>1 DEF StreamInv, SoundPacket
  <2>3. FlagRight(delivered'.nal, delivered'.discontinuity, accepted')
    BY <1>6, <2>1, <2>2
  <2>4. Complete(p)
    <3>1. \A q \in network : q.nal = p.nal => q = p
      BY <1>9, <1>10, <2>1, <2>2
    <3> QED  BY <1>1, <2>1, <3>1 DEF Complete, PacketsOf
  <2>5. Remembered
    BY <2>1, <2>3, Zenon
  <2> QED  BY <2>1, <2>4, <2>5
<1>14. ASSUME Malformed(p)  PROVE Remembered /\ Right
  <2>1. /\ p.kind = "bad" /\ reassembling' = FALSE /\ delivered' = delivered
    BY <1>14 DEF Malformed, Reset
  <2>2. Remembered
    BY <1>4, <2>1, Zenon
  <2> QED  BY <1>7, <2>1, <2>2
<1>15. ASSUME Unsupported(p)  PROVE Remembered /\ Right
  <2>1. p.kind = "stap" /\ delivered' = delivered /\ ResetIfGap(p)
    BY <1>15 DEF Unsupported
  <2>2. ~ reassembling'
    <3>1. CASE Gap(p)
      BY <2>1, <3>1 DEF ResetIfGap, Reset
    <3>2. CASE ~ Gap(p)
      <4>1. reassembling' = reassembling
        BY <2>1, <3>2 DEF ResetIfGap, bufferVars
      <4>2. ~ reassembling
        BY <1>1, <2>1, <3>2, BufferIsOfNext
      <4> QED  BY <4>1, <4>2, Zenon
    <3> QED  BY <3>1, <3>2
  <2>3. Remembered
    BY <1>4, <2>1, <2>2, Zenon
  <2> QED  BY <1>7, <2>1, <2>3
<1>16. ASSUME Orphan(p)  PROVE Remembered /\ Right
  <2>1. /\ p.kind = "fu" /\ ~ p.start /\ ~ Continues(p)
        /\ ResetIfGap(p) /\ delivered' = delivered
    BY <1>16 DEF Orphan
  <2>2. ~ reassembling'
    <3>1. CASE Gap(p)
      BY <2>1, <3>1 DEF ResetIfGap, Reset
    <3>2. CASE ~ Gap(p)
      <4>1. reassembling' = reassembling
        BY <2>1, <3>2 DEF ResetIfGap, bufferVars
      <4>2. reassembling => p.timestamp = reassembly_timestamp
        BY <1>1, <3>2, BufferIsOfNext
      <4>3. ~ reassembling
        BY <2>1, <3>2, <4>2 DEF Continues
      <4> QED  BY <4>1, <4>3, Zenon
    <3> QED  BY <3>1, <3>2
  <2>3. ~ (AllUpTo(p, accepted') /\ p.to <= MAX_NAL_SIZE)
    <3>1. SUFFICES ASSUME AllUpTo(p, accepted'), p.to <= MAX_NAL_SIZE
                   PROVE  FALSE
      OBVIOUS
    <3>2. \A q \in network :
            q.nal = p.nal /\ q.index < p.index => q \in accepted
      BY <1>11, <3>1
    <3>3. Continues(p)
      BY <1>1, <2>1, <3>1, <3>2, LaterContinues
    <3> QED  BY <2>1, <3>3
  <2>4. Remembered
    BY <1>4, <2>1, <2>2, <2>3, Zenon
  <2>5. Right
    BY <1>5, <1>12, <2>1, <2>3
  <2> QED  BY <2>4, <2>5
<1>17. ASSUME Begin(p)  PROVE Remembered /\ Right
  <2>1. /\ p.kind = "fu" /\ p.start
        /\ reassembly_timestamp' = p.timestamp /\ discontinuity' = Gap(p)
        /\ AppendPiece(p, <<Header(p)>>, 1, Gap(p))
    BY <1>17 DEF Begin
  <2>2. /\ ~ p.end /\ p.from = 2 /\ p.to \in Nat /\ MAX_NAL_SIZE \in Nat
    BY <1>1, <2>1, VideoAssumption DEF SoundPacket
  <2>3. 1 + Bytes(p) = p.to
    BY <2>2 DEF Bytes
  <2>4. \/ /\ p.to > MAX_NAL_SIZE
           /\ reassembling' = FALSE /\ delivered' = delivered
        \/ /\ p.to <= MAX_NAL_SIZE /\ reassembling' = TRUE
           /\ reassembly_len' = p.to /\ delivered' = delivered
    BY <2>1, <2>2, <2>3 DEF AppendPiece, Reset
  <2>5. AllUpTo(p, accepted')
    BY <1>9, <2>1 DEF AllUpTo
  <2>6. FlagRight(p.nal, discontinuity', accepted')
    BY <1>6, <2>1
  <2>7. p.to > MAX_NAL_SIZE => ~ (p.to <= MAX_NAL_SIZE)
    BY <2>2
  <2>8. Remembered
    BY <1>4, <2>1, <2>2, <2>4, <2>5, <2>6, <2>7, Zenon
  <2> QED  BY <2>2, <2>8
<1>18. ASSUME Continue(p)  PROVE Remembered /\ Right
  <2>1. /\ p.kind = "fu" /\ ~ p.start /\ reassembling /\ ~ Gap(p)
        /\ reassembly_timestamp = p.timestamp
        /\ AppendPiece(p, reassembly, reassembly_len, discontinuity)
        /\ UNCHANGED <<reassembly_timestamp, discontinuity>>
    BY <1>18 DEF Continue, Continues
  <2>2. /\ reassembly_len + 1 = p.from
        /\ FlagRight(p.nal, discontinuity, accepted)
        /\ \A q \in network :
             q.nal = p.nal /\ q.index < p.index => q \in accepted
    BY <1>1, <2>1, BufferIsOfNext
  <2>3. reassembly_len + Bytes(p) = p.to
    <3>1. reassembly_len \in Nat
      <4>1. PICK r \in accepted : reassembly_len = r.to
        BY <2>1 DEF HistoryInv
      <4> QED  BY <1>2, <4>1 DEF SenderInv, SoundPacket
    <3>2. p.from \in Nat /\ p.to \in Nat
      BY <1>1 DEF SoundPacket
    <3> QED  BY <2>2, <3>1, <3>2 DEF Bytes
  <2>4. FlagRight(p.nal, discontinuity, accepted')
    BY <1>1, <1>2, <2>2, FlagKept
  <2>5. AllUpTo(p, accepted')
    <3>1. ASSUME NEW q \in network, q.nal = p.nal, q.index <= p.index
          PROVE  q \in accepted'
      <4>1. CASE q.index < p.index
        BY <2>2, <3>1, <4>1
      <4>2. CASE q.index = p.index
        BY <1>1, <4>2 DEF StreamInv
      <4> QED  BY <1>1, <1>8, <3>1, <4>1, <4>2
    <3> QED  BY <3>1 DEF AllUpTo
  <2>6. \/ /\ p.to > MAX_NAL_SIZE
           /\ reassembling' = FALSE /\ delivered' = delivered
        \/ /\ p.to <= MAX_NAL_SIZE /\ p.end /\ reassembling' = FALSE
           /\ delivered'.nal = p.nal
           /\ delivered'.discontinuity = discontinuity
        \/ /\ p.to <= MAX_NAL_SIZE /\ ~ p.end /\ reassembling' = TRUE
           /\ reassembly_len' = p.to /\ delivered' = delivered
    BY <2>1, <2>3 DEF AppendPiece, Reset, OnNal
  <2>7. p.to > MAX_NAL_SIZE => ~ (p.to <= MAX_NAL_SIZE)
    BY <1>1, VideoAssumption DEF SoundPacket
  <2>8. /\ reassembly_timestamp' = p.timestamp
        /\ discontinuity' = discontinuity
    BY <2>1
  <2>9. Remembered
    BY <1>4, <2>1, <2>4, <2>5, <2>6, <2>7, <2>8, Zenon
  <2>10. ASSUME p.end
         PROVE  delivered'.nal = p.nal <=> Complete(p)
    <3>1. PacketsOf(p.nal) \subseteq accepted'
      BY <1>10, <2>1, <2>5, <2>10 DEF PacketsOf, AllUpTo
    <3>2. p.to = Stream[p.nal].size
      BY <1>1, <2>1, <2>10 DEF SoundPacket
    <3>3. Complete(p) <=> p.to <= MAX_NAL_SIZE
      BY <1>1, <2>1, <3>1, <3>2 DEF Complete, PacketsOf
    <3> QED  BY <1>5, <2>6, <2>7, <2>10, <3>3
  <2> QED  BY <2>9, <2>10
<1>19. Remembered /\ Right
  BY <1>13, <1>14, <1>15, <1>16, <1>17, <1>18 DEF Process
<1>20. HistoryInv(f)'
  BY <1>1, <1>3, <1>19, TakingRemembered
<1> QED  BY <1>19, <1>20

\* nothing is remembered otherwise because more was sent
LEMMA SendNalRemembers ==
  ASSUME SenderInv, NEW e \in 0 .. made, HistoryInv(e), SendNal,
         accepted' = accepted
  PROVE  HistoryInv(e)'
<1>1. /\ \A p \in network' :
           \/ p \in network
           \/ \E i \in 0 .. PacketCount(sent + 1) - 1 :
                p = PacketOf(sent + 1, i)
      /\ network \subseteq network' /\ UNCHANGED receiveVars
  BY SendNalCounts DEF SendNal
<1>2. made \in Nat /\ e \in Nat /\ e <= made
  BY DEF SenderInv
<1>3. ASSUME NEW p \in network', p \notin network
      PROVE  p.index \in Nat /\ p.index >= e
  <2>1. PICK i \in 0 .. PacketCount(sent + 1) - 1 :
               p = PacketOf(sent + 1, i)
    BY <1>1, <1>3
  <2>2. p.index = made + i /\ i \in Nat
    BY <2>1 DEF PacketOf
  <2> QED  BY <1>2, <2>2
<1>4. accepted \subseteq network /\ \A q \in accepted : q.index < e
  BY DEF HistoryInv
<1>5. \A r \in accepted : r.index \in Nat
  BY <1>4 DEF SenderInv, SoundPacket
<1>6. ASSUME NEW r \in accepted
      PROVE  AllUpTo(r, accepted)' <=> AllUpTo(r, accepted)
  <2>1. ASSUME NEW q \in network', q.index <= r.index
        PROVE  q \in network
    BY <1>2, <1>3, <1>4, <1>5, <2>1
  <2> QED  BY <1>1, <2>1 DEF AllUpTo
<1>7. /\ reassembling' = reassembling
      /\ reassembly_timestamp' = reassembly_timestamp
      /\ reassembly_len' = reassembly_len
      /\ discontinuity' = discontinuity /\ delivered' = delivered
      /\ have_expected_seq' = have_expected_seq
  BY <1>1 DEF receiveVars, bufferVars
<1>8. ASSUME NEW k, NEW flag
      PROVE  FlagRight(k, flag, accepted) = FlagRight(k, flag, accepted)'
  OBVIOUS
<1> QED  BY <1>1, <1>4, <1>6, <1>7 DEF HistoryInv, FlagRight, AfterGap

TakenInv == /\ SenderInv /\ StreamInv
            /\ \E e \in 0 .. made : OrderInv(e) /\ HistoryInv(e)

LEMMA TakenInitial == MCInit => TakenInv
<1> SUFFICES ASSUME MCInit  PROVE TakenInv
  OBVIOUS
<1>1. VideoInit /\ accepted = {}
  BY DEF MCInit
<1>2. SenderInv /\ 0 \in 0 .. made /\ OrderInv(0)
  BY <1>1, OrderedInit DEF OrderedInv, OrderInv, VideoInit
<1>3. ~ have_expected_seq /\ ~ reassembling
  BY <1>1, Zenon DEF VideoInit
<1>4. delivered.nal = 0
  BY <1>1 DEF VideoInit
<1>5. HistoryInv(0)
  BY <1>1, <1>3, <1>4 DEF HistoryInv
<1> QED  BY <1>1, <1>2, <1>5, StreamInitial DEF TakenInv

\* the steps of the receiver that take a packet, and those that take none
LEMMA TakingSteps ==
  ASSUME [MCNext]_mcVars
  PROVE  \/ SendNal /\ accepted' = accepted
         \/ /\ UNCHANGED sendVars
            /\ \E p \in InTransit :
                 Process(p) /\ accepted' = accepted \cup {p}
         \/ UNCHANGED <<sendVars, receiveVars>> /\ accepted' = accepted
BY DEF MCNext, mcVars, videoVars

LEMMA TakenStep ==
  ASSUME TakenInv, LossesFit, [MCNext]_mcVars
  PROVE  TakenInv'
<1>1. PICK e \in 0 .. made : OrderInv(e) /\ HistoryInv(e)
  BY DEF TakenInv
<1>2. SenderInv /\ StreamInv
  BY DEF TakenInv
<1>3. CASE SendNal /\ accepted' = accepted
  <2>1. /\ e \in 0 .. made' /\ OrderInv(e)' /\ SenderInv' /\ StreamInv'
        /\ HistoryInv(e)'
    BY <1>1, <1>2, <1>3, SendNalKeepsOrder, SendNalKeepsSender,
       SendNalKeepsStream, SendNalRemembers
  <2> QED  BY <2>1 DEF TakenInv
<1>4. UNCHANGED sendVars => SenderInv' /\ StreamInv'
  BY <1>2 DEF SenderInv, StreamInv, sendVars, SoundPacket, SoundOrder, Bytes
<1>5. ASSUME UNCHANGED sendVars, NEW p \in InTransit, Process(p),
             accepted' = accepted \cup {p}
      PROVE  TakenInv'
  <2>1. PICK f : f = p.index + 1
    OBVIOUS
  <2>2. OrderInv(f)' /\ f \in 0 .. made'
    BY <1>1, <1>2, <1>5, <2>1, ProcessKeepsOrder
  <2>3. HistoryInv(f)'
    BY <1>1, <1>2, <1>5, <2>1, ProcessRemembers
  <2> QED  BY <1>4, <1>5, <2>2, <2>3 DEF TakenInv
<1>6. CASE UNCHANGED <<sendVars, receiveVars>> /\ accepted' = accepted
  <2>1. e \in 0 .. made' /\ OrderInv(e)'
    BY <1>1, <1>6 DEF OrderInv, sendVars, receiveVars, bufferVars
  <2>2. HistoryInv(e)'
    BY <1>1, <1>6 DEF HistoryInv, AllUpTo, FlagRight, AfterGap, sendVars,
                      receiveVars, bufferVars
  <2> QED  BY <1>4, <1>6, <2>1, <2>2 DEF TakenInv
<1> QED  BY <1>3, <1>5, <1>6, TakingSteps

LEMMA TakenFlags == TakenInv => GapBeforeIsFlagged
<1> SUFFICES ASSUME TakenInv, delivered.nal # 0
             PROVE  LET first == CHOOSE p \in PacketsOf(delivered.nal) :
                                   p.start
                        first_taken ==
                          \A q \in accepted : q.nal >= delivered.nal
                    IN  delivered.discontinuity
                          <=> /\ ~ first_taken
                              /\ ~ (PacketBefore(first) \subseteq accepted)
  BY DEF GapBeforeIsFlagged
<1> DEFINE first == CHOOSE p \in PacketsOf(delivered.nal) : p.start
           first_taken == \A q \in accepted : q.nal >= delivered.nal
<1>1. PICK e \in 0 .. made : OrderInv(e) /\ HistoryInv(e)
  BY DEF TakenInv
<1>2. SenderInv /\ StreamInv
  BY DEF TakenInv
<1>3. PICK f \in accepted :
        /\ f.nal = delivered.nal /\ f.start
        /\ delivered.discontinuity <=> AfterGap(f, accepted)
  BY <1>1 DEF HistoryInv, FlagRight
<1>4. /\ accepted \subseteq network /\ f \in network
      /\ \A q \in network : q.index \in Nat /\ q.nal \in Nat
  BY <1>1, <1>2 DEF HistoryInv, SenderInv, SoundPacket
<1>5. first = f
  <2>1. f \in PacketsOf(delivered.nal)
    BY <1>3, <1>4 DEF PacketsOf
  <2>2. first \in PacketsOf(delivered.nal) /\ first.start
    BY <1>3, <2>1
  <2>3. first \in network /\ first.nal = f.nal
    BY <1>3, <2>2 DEF PacketsOf
  <2>4. ~ (first.nal < f.nal) /\ ~ (f.nal < first.nal)
    BY <1>4, <2>3
  <2>5. ~ (first.index < f.index) /\ ~ (f.index < first.index)
    BY <1>2, <1>3, <1>4, <2>2, <2>3, <2>4 DEF StreamInv
  <2>6. first.index = f.index
    BY <1>4, <2>3, <2>5
  <2> QED  BY <1>2, <1>4, <2>3, <2>6 DEF StreamInv
<1>6. first_taken <=> \A q \in accepted : ~ (q.index < f.index)
  <2>1. ASSUME NEW q \in accepted
        PROVE  q.nal >= delivered.nal <=> ~ (q.index < f.index)
    <3>1. q \in network /\ q.index \in Nat /\ q.nal \in Nat
      BY <1>4
    <3>2. CASE q.index < f.index
      <4>1. q.nal < f.nal
        BY <1>2, <1>3, <1>4, <3>1, <3>2 DEF StreamInv
      <4> QED  BY <1>3, <1>4, <3>1, <3>2, <4>1
    <3>3. CASE ~ (q.index < f.index)
      <4>1. q.index = f.index \/ f.index < q.index
        BY <1>4, <3>1, <3>3
      <4>2. q = f \/ f.nal <= q.nal
        BY <1>2, <1>4, <3>1, <4>1 DEF StreamInv
      <4> QED  BY <1>3, <1>4, <3>1, <3>3, <4>2
    <3> QED  BY <3>2, <3>3
  <2> QED  BY <2>1
<1>7. ASSUME NEW q \in accepted, q.index < f.index
      PROVE  PacketBefore(f) \subseteq accepted
             <=> \E b \in accepted : b.index + 1 = f.index
  <2>1. made \in Nat /\ f.index < made
    BY <1>2, <1>4 DEF SenderInv, SoundPacket
  <2>2. f.index - 1 \in 0 .. made - 1
    BY <1>4, <1>7, <2>1
  <2>3. PICK b \in network : b.index = f.index - 1
    BY <1>2, <2>2 DEF StreamInv
  <2>4. b.index + 1 = f.index
    BY <1>4, <2>3
  <2>5. \A c \in network : c.index + 1 = f.index => c = b
    <3>1. ASSUME NEW c \in network, c.index + 1 = f.index  PROVE c = b
      <4>1. c.index = b.index
        BY <1>4, <2>3, <3>1
      <4> QED  BY <1>2, <4>1 DEF StreamInv
    <3> QED  BY <3>1
  <2>6. \A c : c \in PacketBefore(f) <=> c = b
    BY <2>3, <2>4, <2>5 DEF PacketBefore
  <2> QED  BY <1>4, <2>4, <2>5, <2>6
<1>8. AfterGap(f, accepted)
        <=> ~ first_taken /\ ~ (PacketBefore(f) \subseteq accepted)
  BY <1>6, <1>7 DEF AfterGap
<1> QED  BY <1>3, <1>5, <1>8

(* As long as the network never loses 65536 packets in a row, a NAL is     *)
(* delivered with the flag of a gap exactly if the packet before its first *)
(* was not taken, and it is not the first NAL of which anything was.       *)
THEOREM VideoGapFlagged == MCSpec /\ []LossesFit => []GapBeforeIsFlagged
<1>1. TakenInv /\ LossesFit /\ [MCNext]_mcVars => TakenInv'
  BY TakenStep
<1> QED
  BY TakenInitial, TakenFlags, <1>1, PTL DEF MCSpec

(* Under the same condition every NAL that fits is delivered with its last *)
(* packet if all its packets were taken, and none is otherwise.            *)
THEOREM VideoDeliversComplete ==
  MCSpec /\ []LossesFit => DeliveredIfComplete
<1>1. TakenInv /\ LossesFit /\ [MCNext]_mcVars => TakenInv'
  BY TakenStep
<1>2. ASSUME TakenInv, LossesFit, [MCNext]_mcVars
      PROVE  [\A p \in accepted' \ accepted :
                p.end /\ Stream[p.nal].kind = "nal" =>
                  (delivered'.nal = p.nal <=>
                     /\ PacketsOf(p.nal) \subseteq accepted'
                     /\ PacketsOf(p.nal)
                          \cap {q \in network : q.kind = "fu"} # {}
                          => Stream[p.nal].size <= MAX_NAL_SIZE)]_mcVars
  <2>1. SUFFICES ASSUME NEW p \in accepted' \ accepted,
                        p.end, Stream[p.nal].kind = "nal"
                 PROVE  delivered'.nal = p.nal <=> Complete(p)
    BY DEF Complete
  <2>2. UNCHANGED sendVars /\ p \in InTransit /\ Process(p)
        /\ accepted' = accepted \cup {p}
    BY <1>2, TakingSteps
  <2>3. PICK e \in 0 .. made : OrderInv(e) /\ HistoryInv(e)
    BY <1>2 DEF TakenInv
  <2>4. PICK f : f = p.index + 1
    OBVIOUS
  <2> QED  BY <1>2, <2>1, <2>2, <2>3, <2>4, ProcessRemembers DEF TakenInv
<1> QED
  BY TakenInitial, <1>1, <1>2, PTL DEF MCSpec, DeliveredIfComplete
=============================================================================
