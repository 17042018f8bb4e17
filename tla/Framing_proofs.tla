--------------------------- MODULE Framing_proofs ---------------------------
(***************************************************************************)
(* encode_packet and try_decode_packet are inverse, for every packet whose *)
(* length fits its field; split_into_packets cuts a message into packets   *)
(* from which it can be put together again.                                *)
(***************************************************************************)
EXTENDS Framing, SequenceFacts

\* The fields that share the first byte of the header can be told apart.
LEMMA FirstByteFlagged ==
  ASSUME NEW mt \in 0 .. 3, NEW gid \in 0 .. 15, NEW b, b = mt * 32 + 16 + gid
  PROVE  /\ b \in 0 .. 255
         /\ (b \div 32) % 8 = mt
         /\ (b \div 16) % 2 = 1
         /\ b % 16 = gid
  OBVIOUS

LEMMA FirstByteUnflagged ==
  ASSUME NEW mt \in 0 .. 3, NEW gid \in 0 .. 15, NEW b, b = mt * 32 + 0 + gid
  PROVE  /\ b \in 0 .. 255
         /\ (b \div 32) % 8 = mt
         /\ (b \div 16) % 2 = 0
         /\ b % 16 = gid
  OBVIOUS

\* A number of two bytes is put together again from the two.
LEMMA TwoBytes ==
  ASSUME NEW length \in Nat, length < 256 * 256,
         NEW q, q = length \div 256, NEW r, r = length % 256
  PROVE  /\ r \in 0 .. 255
         /\ q % 256 \in 0 .. 255
         /\ length = r + 256 * (q % 256)
<1>1. q \in Int /\ r \in 0 .. 255 /\ length = 256 * q + r
  OBVIOUS
<1>2. q \in 0 .. 255
  BY <1>1
<1>3. q % 256 = q
  BY <1>2
<1> QED
  BY <1>1, <1>2, <1>3

LEMMA TwoBytesOf ==
  ASSUME NEW length \in Nat, length < 256 * 256
  PROVE  /\ length % 256 \in 0 .. 255
         /\ (length \div 256) % 256 \in 0 .. 255
         /\ length = (length % 256) + 256 * ((length \div 256) % 256)
  BY TwoBytes

\* The parts of a packet whose length fits its field.
LEMMA PacketParts ==
  ASSUME NEW p \in Packet
  PROVE  /\ p.mt \in MessageType
         /\ p.pbf \in BOOLEAN
         /\ p.gid \in 0 .. 15
         /\ p.oid \in Byte
         /\ p.payload \in Seq(Byte)
         /\ Len(p.payload) \in Nat
         /\ p.mt # DataPacket => Len(p.payload) <= MaxPayloadSize
         /\ p = [ mt |-> p.mt, pbf |-> p.pbf, gid |-> p.gid, oid |-> p.oid,
                  payload |-> p.payload ]
<1>1. p \in [mt : MessageType, pbf : BOOLEAN, gid : 0 .. 15, oid : Byte, payload : Seq(Byte)]
  BY DEF Packet
<1>2. p.mt # DataPacket => Len(p.payload) <= MaxPayloadSize
  BY DEF Packet, PacketFits
<1>3. p.payload \in Seq(Byte)
  BY <1>1
<1> QED
  BY <1>1, <1>2, <1>3

LEMMA FirstByteOf ==
  ASSUME NEW p \in Packet, NEW first, first = FirstByte(p)
  PROVE  /\ first \in Byte
         /\ (first \div 32) % 8 = p.mt
         /\ (first \div 16) % 2 = 1 <=> p.pbf
         /\ first % 16 = p.gid
<1>1. p.mt \in 0 .. 3 /\ p.gid \in 0 .. 15
  BY PacketParts DEF MessageType, DataPacket, Notification
<1>2. CASE p.pbf
  <2>1. first = p.mt * 32 + 16 + p.gid
    BY <1>2 DEF FirstByte
  <2>2. ASSUME NEW mt \in 0 .. 3, NEW gid \in 0 .. 15, first = mt * 32 + 16 + gid
        PROVE  /\ first \in 0 .. 255
               /\ (first \div 32) % 8 = mt
               /\ (first \div 16) % 2 = 1
               /\ first % 16 = gid
    BY <2>2, FirstByteFlagged
  <2> QED
    BY <1>1, <1>2, <2>1, <2>2 DEF Byte
<1>3. CASE ~p.pbf
  <2>1. first = p.mt * 32 + 0 + p.gid
    BY <1>3 DEF FirstByte
  <2>2. ASSUME NEW mt \in 0 .. 3, NEW gid \in 0 .. 15, first = mt * 32 + 0 + gid
        PROVE  /\ first \in 0 .. 255
               /\ (first \div 32) % 8 = mt
               /\ (first \div 16) % 2 # 1
               /\ first % 16 = gid
    BY <2>2, FirstByteUnflagged
  <2> QED
    BY <1>1, <1>3, <2>1, <2>2 DEF Byte
<1> QED
  BY <1>2, <1>3

\* Neither length field loses anything of a length it has room for.
LEMMA HeaderOf ==
  ASSUME NEW p \in Packet, Len(p.payload) < 256 * 256
  PROVE  \E low \in Byte, high \in Byte :
           /\ Header(p) = << FirstByte(p), p.oid, low, high >>
           /\ Len(p.payload) = IF p.mt = DataPacket THEN low + 256 * high ELSE high
<1>1. Len(p.payload) \in Nat
  BY PacketParts
<1>2. CASE p.mt = DataPacket
  <2>1. PICK low, high : low = Len(p.payload) % 256 /\ high = (Len(p.payload) \div 256) % 256
    OBVIOUS
  <2>2. ASSUME NEW length \in Nat, length < 256 * 256,
               low = length % 256, high = (length \div 256) % 256
        PROVE  low \in Byte /\ high \in Byte /\ length = low + 256 * high
    BY ONLY <2>2, TwoBytesOf DEF Byte
  <2>3. low \in Byte /\ high \in Byte /\ Len(p.payload) = low + 256 * high
    BY <1>1, <2>1, <2>2
  <2>4. Header(p) = << FirstByte(p), p.oid, low, high >>
    BY <1>2, <2>1 DEF Header
  <2> QED
    BY <1>2, <2>3, <2>4
<1>3. CASE p.mt # DataPacket
  <2>1. ASSUME NEW length \in Nat, length <= 255
        PROVE  length \in Byte /\ length % 256 = length
    BY <2>1 DEF Byte
  <2>2. Len(p.payload) <= 255
    BY <1>3, PacketParts DEF MaxPayloadSize
  <2>3. Header(p) = << FirstByte(p), p.oid, 0, Len(p.payload) % 256 >>
    BY <1>3 DEF Header
  <2>4. 0 \in Byte
    BY DEF Byte
  <2> QED
    BY <1>1, <1>3, <2>1, <2>2, <2>3, <2>4
<1> QED
  BY <1>2, <1>3

\* Four bytes and a payload.
LEMMA Laid ==
  ASSUME NEW S, NEW c \in Seq(S), NEW b1 \in S, NEW b2 \in S, NEW b3 \in S, NEW b4 \in S,
         NEW all, all = << b1, b2, b3, b4 >> \o c
  PROVE  /\ all \in Seq(S)
         /\ all[1] = b1 /\ all[2] = b2 /\ all[3] = b3 /\ all[4] = b4
         /\ Len(all) = 4 + Len(c)
         /\ \A i \in 1 .. Len(c) : all[4 + i] = c[i]
  OBVIOUS

\* A packet on the wire, byte by byte.
LEMMA EncodedAt ==
  ASSUME NEW p \in Packet, Len(p.payload) < 256 * 256,
         NEW bytes, bytes = EncodePacket(p)
  PROVE  /\ bytes \in Seq(Byte)
         /\ Len(bytes) = 4 + Len(p.payload)
         /\ bytes[1] = FirstByte(p)
         /\ bytes[2] = p.oid
         /\ Len(p.payload) = IF p.mt = DataPacket THEN bytes[3] + 256 * bytes[4] ELSE bytes[4]
         /\ \A i \in 1 .. Len(p.payload) : bytes[4 + i] = p.payload[i]
<1>1. PICK low \in Byte, high \in Byte :
        /\ Header(p) = << FirstByte(p), p.oid, low, high >>
        /\ Len(p.payload) = IF p.mt = DataPacket THEN low + 256 * high ELSE high
  BY HeaderOf
<1>2. bytes = << FirstByte(p), p.oid, low, high >> \o p.payload
  BY <1>1 DEF EncodePacket
<1>3. FirstByte(p) \in Byte /\ p.oid \in Byte /\ p.payload \in Seq(Byte)
  BY FirstByteOf, PacketParts
<1>4. /\ bytes \in Seq(Byte)
      /\ bytes[1] = FirstByte(p) /\ bytes[2] = p.oid /\ bytes[3] = low /\ bytes[4] = high
      /\ Len(bytes) = 4 + Len(p.payload)
      /\ \A i \in 1 .. Len(p.payload) : bytes[4 + i] = p.payload[i]
  BY <1>2, <1>3, Laid
<1> QED
  BY <1>1, <1>4

\* The header is read back from any bytes that begin with it.
LEMMA HeaderRead ==
  ASSUME NEW p \in Packet, Len(p.payload) < 256 * 256,
         NEW buffer, \A i \in 1 .. 4 : buffer[i] = EncodePacket(p)[i]
  PROVE  /\ HeaderType(buffer) = p.mt
         /\ DeclaredLength(buffer) = Len(p.payload)
         /\ (buffer[1] \div 16) % 2 = 1 <=> p.pbf
         /\ buffer[1] % 16 = p.gid
         /\ buffer[2] = p.oid
<1>1. /\ buffer[1] = EncodePacket(p)[1] /\ buffer[2] = EncodePacket(p)[2]
      /\ buffer[3] = EncodePacket(p)[3] /\ buffer[4] = EncodePacket(p)[4]
  OBVIOUS
<1>2. /\ buffer[1] = FirstByte(p) /\ buffer[2] = p.oid
      /\ Len(p.payload) = IF p.mt = DataPacket THEN buffer[3] + 256 * buffer[4] ELSE buffer[4]
  BY <1>1, EncodedAt
<1>3. /\ HeaderType(buffer) = p.mt
      /\ (buffer[1] \div 16) % 2 = 1 <=> p.pbf
      /\ buffer[1] % 16 = p.gid
  BY <1>2, FirstByteOf DEF HeaderType
<1> QED
  BY <1>2, <1>3 DEF DeclaredLength

\* Any bytes that begin with a packet decode to it.
LEMMA WholePacketDecodes ==
  ASSUME NEW p \in Packet, Len(p.payload) < 256 * 256,
         NEW buffer \in Seq(Byte),
         NEW size, size = HeaderSize + Len(p.payload), size <= Len(buffer),
         \A i \in 1 .. size : buffer[i] = EncodePacket(p)[i]
  PROVE  TryDecodePacket(buffer) = Decoded(p, size)
<1>1. Len(p.payload) \in Nat /\ Len(buffer) \in Nat /\ HeaderSize = 4
  BY PacketParts DEF HeaderSize
<1>2. \A i \in 1 .. 4 : buffer[i] = EncodePacket(p)[i]
  BY <1>1
<1>3. /\ HeaderType(buffer) = p.mt
      /\ DeclaredLength(buffer) = Len(p.payload)
      /\ (buffer[1] \div 16) % 2 = 1 <=> p.pbf
      /\ buffer[1] % 16 = p.gid
      /\ buffer[2] = p.oid
  BY <1>2, HeaderRead
<1>4. ASSUME NEW payload,
             payload = SubSeq(buffer, HeaderSize + 1, HeaderSize + DeclaredLength(buffer))
      PROVE  payload = p.payload
  <2>1. /\ payload \in Seq(Byte)
        /\ Len(payload) = Len(p.payload)
        /\ \A i \in 1 .. Len(p.payload) : payload[i] = buffer[HeaderSize + i]
    BY <1>1, <1>3, <1>4
  <2>2. \A i \in 1 .. Len(p.payload) : EncodePacket(p)[HeaderSize + i] = p.payload[i]
    BY EncodedAt DEF HeaderSize
  <2>3. \A i \in 1 .. Len(p.payload) : buffer[HeaderSize + i] = EncodePacket(p)[HeaderSize + i]
    BY <1>1
  <2>4. \A i \in 1 .. Len(p.payload) : payload[i] = p.payload[i]
    BY <2>1, <2>2, <2>3
  <2> QED
    BY <2>1, <2>4, PacketParts
<1>5. HeadPacket(buffer) = p
  <2>1. ((buffer[1] \div 16) % 2 = 1) = p.pbf
    BY <1>3, PacketParts
  <2> QED
    BY <1>3, <1>4, <2>1, PacketParts DEF HeadPacket
<1>6. ~(Len(buffer) < HeaderSize) /\ ~(Len(buffer) < size)
  BY <1>1
<1> QED
  BY <1>3, <1>5, <1>6, PacketParts DEF TryDecodePacket

\* A proper beginning of a packet is never decoded and never an error.
LEMMA PartOfPacketWaits ==
  ASSUME NEW p \in Packet, Len(p.payload) < 256 * 256,
         NEW buffer \in Seq(Byte), Len(buffer) < HeaderSize + Len(p.payload),
         \A i \in 1 .. Len(buffer) : buffer[i] = EncodePacket(p)[i]
  PROVE  TryDecodePacket(buffer) = Incomplete
<1>1. CASE Len(buffer) < HeaderSize
  BY <1>1 DEF TryDecodePacket
<1>2. CASE ~(Len(buffer) < HeaderSize)
  <2>1. \A i \in 1 .. 4 : buffer[i] = EncodePacket(p)[i]
    BY <1>2 DEF HeaderSize
  <2>2. HeaderType(buffer) = p.mt /\ DeclaredLength(buffer) = Len(p.payload)
    BY <2>1, HeaderRead
  <2> QED
    BY <1>2, <2>2, PacketParts DEF TryDecodePacket
<1> QED
  BY <1>1, <1>2

-----------------------------------------------------------------------------
(* Cutting a message.                                                       *)

\* The number of packets is the number of steps of this size in the payload.
LEMMA Counted ==
  ASSUME NEW length \in Nat, NEW size \in Nat \ {0},
         NEW c, c = PacketCount(length, size)
  PROVE  /\ c \in Nat \ {0}
         /\ (c - 1) * size <= length
         /\ c > 1 => (c - 1) * size < length
         /\ length <= c * size
<1>1. CASE length = 0
  BY <1>1 DEF PacketCount
<1>2. CASE length # 0
  <2>1. c = (length + size - 1) \div size
    BY <1>2 DEF PacketCount
  <2>2. ASSUME NEW a \in Nat, NEW q, q = a \div size
        PROVE  q \in Nat /\ q * size <= a /\ a < (q + 1) * size
    BY <2>2
  <2>3. PICK a \in Nat : a = length + size - 1
    BY <1>2
  <2>4. c \in Nat /\ c * size <= a /\ a < (c + 1) * size
    BY <2>1, <2>2, <2>3
  <2>5. c # 0
    BY <1>2, <2>3, <2>4
  <2>6. (c - 1) * size = c * size - size /\ (c + 1) * size = c * size + size
    BY <2>4
  <2> QED
    BY <1>2, <2>3, <2>4, <2>5, <2>6
<1> QED
  BY <1>1, <1>2

\* No packet but the last is shorter than it may be, and none is longer.
LEMMA SliceOf ==
  ASSUME NEW payload \in Seq(Byte), NEW size \in Nat \ {0},
         NEW i \in 1 .. PacketCount(Len(payload), size)
  PROVE  LET c == PacketCount(Len(payload), size)
             before == (i - 1) * size
             stop == IF i = c THEN Len(payload) ELSE i * size
         IN /\ before \in Nat /\ stop \in Nat
            /\ before <= stop /\ stop <= Len(payload) /\ stop - before <= size
            /\ Slice(payload, i, size) = SubSeq(payload, before + 1, stop)
<1> DEFINE c == PacketCount(Len(payload), size)
           before == (i - 1) * size
<1>1. /\ c \in Nat \ {0}
      /\ (c - 1) * size <= Len(payload)
      /\ c > 1 => (c - 1) * size < Len(payload)
      /\ Len(payload) <= c * size
      /\ Len(payload) \in Nat
  BY Counted
<1>2. i \in 1 .. c
  OBVIOUS
<1> HIDE DEF c
<1>3. i - 1 \in Nat /\ before \in Nat /\ i * size \in Nat /\ i * size = before + size
  BY <1>1, <1>2
<1>4. CASE i = c
  <2>1. Len(payload) <= i * size
    BY <1>1, <1>4
  <2>2. (IF i * size <= Len(payload) THEN i * size ELSE Len(payload)) = Len(payload)
    BY <1>1, <1>3, <2>1
  <2>3. Slice(payload, i, size) = SubSeq(payload, before + 1, Len(payload))
    BY <2>2 DEF Slice
  <2> QED
    BY <1>1, <1>3, <1>4, <2>3 DEF c
<1>5. CASE i # c
  <2>1. i <= c - 1
    BY <1>1, <1>2, <1>5
  <2>2. i * size <= (c - 1) * size
    BY <1>1, <1>2, <2>1
  <2>3. i * size <= Len(payload)
    BY <1>1, <1>3, <2>2
  <2>4. Slice(payload, i, size) = SubSeq(payload, before + 1, i * size)
    BY <1>3, <2>3 DEF Slice
  <2> QED
    BY <1>1, <1>3, <1>5, <2>3, <2>4 DEF c
<1> QED
  BY <1>4, <1>5

\* The packets of a message, each with the bytes it carries.
PartOf(m, size, first, i) ==
  LET before == (i - 1) * size
      stop == IF i = Len(first) THEN Len(m.payload) ELSE i * size
  IN /\ first[i].mt = m.mt /\ first[i].gid = m.gid /\ first[i].oid = m.oid
     /\ first[i].pbf = (i # Len(first))
     /\ before \in Nat /\ stop \in Nat
     /\ before <= stop /\ stop <= Len(m.payload)
     /\ first[i].payload = SubSeq(m.payload, before + 1, stop)

\* split_into_packets: at least one packet, none longer than it may be, the flag
\* on all but the last, and the parts side by side from the first byte to the
\* last.
THEOREM SplitParts ==
  ASSUME NEW m \in Message, NEW size \in 1 .. MaxPayloadSize,
         NEW first, first = SplitIntoPackets(m, size)
  PROVE  /\ first \in Seq({ p \in Packet : Len(p.payload) <= MaxPayloadSize })
         /\ Len(first) \in Nat \ {0}
         /\ \A i \in 1 .. Len(first) : PartOf(m, size, first, i)
<1> DEFINE c == PacketCount(Len(m.payload), size)
           packet(i) == [ mt |-> m.mt, pbf |-> i # c, gid |-> m.gid, oid |-> m.oid,
                          payload |-> Slice(m.payload, i, size) ]
           Short == { p \in Packet : Len(p.payload) <= MaxPayloadSize }
<1>1. /\ m.mt \in MessageType /\ m.gid \in 0 .. 15 /\ m.oid \in Byte
      /\ m.payload \in Seq(Byte) /\ Len(m.payload) \in Nat
      /\ size \in Nat \ {0} /\ size <= MaxPayloadSize /\ MaxPayloadSize \in Nat
  BY DEF Message, MaxPayloadSize
<1>2. c \in Nat \ {0}
  BY <1>1, Counted
<1>3. first = [ i \in 1 .. c |-> packet(i) ]
  BY DEF SplitIntoPackets
<1>4. ASSUME NEW i \in 1 .. c
      PROVE  LET before == (i - 1) * size
                 stop == IF i = c THEN Len(m.payload) ELSE i * size
             IN /\ before \in Nat /\ stop \in Nat
                /\ before <= stop /\ stop <= Len(m.payload) /\ stop - before <= size
                /\ Slice(m.payload, i, size) = SubSeq(m.payload, before + 1, stop)
  BY <1>1, SliceOf
<1> HIDE DEF c
<1>5. ASSUME NEW i \in 1 .. c PROVE packet(i) \in Short
  <2>1. PICK before \in Nat, stop \in Nat :
          /\ before <= stop /\ stop <= Len(m.payload) /\ stop - before <= size
          /\ Slice(m.payload, i, size) = SubSeq(m.payload, before + 1, stop)
    BY <1>4
  <2>2. /\ Slice(m.payload, i, size) \in Seq(Byte)
        /\ Len(Slice(m.payload, i, size)) = stop - before
    BY <1>1, <2>1, SliceAt
  <2>3. Len(Slice(m.payload, i, size)) <= MaxPayloadSize
    BY <1>1, <2>1, <2>2
  <2> QED
    BY <1>1, <2>2, <2>3 DEF Packet, PacketFits
<1> HIDE DEF Short
<1>6. first \in [1 .. c -> Short]
  <2> HIDE DEF packet
  <2> QED
    BY <1>3, <1>5
<1>7. first \in Seq(Short) /\ Len(first) = c
  BY <1>2, <1>6
<1>8. ASSUME NEW i \in 1 .. c PROVE first[i] = packet(i)
  <2> HIDE DEF packet
  <2> QED
    BY <1>3
<1>9. ASSUME NEW i \in 1 .. c
      PROVE  LET before == (i - 1) * size
                 stop == IF i = c THEN Len(m.payload) ELSE i * size
             IN /\ first[i].mt = m.mt /\ first[i].gid = m.gid /\ first[i].oid = m.oid
                /\ first[i].pbf = (i # c)
                /\ before \in Nat /\ stop \in Nat
                /\ before <= stop /\ stop <= Len(m.payload)
                /\ first[i].payload = SubSeq(m.payload, before + 1, stop)
  <2>1. /\ first[i].mt = m.mt /\ first[i].gid = m.gid /\ first[i].oid = m.oid
        /\ first[i].pbf = (i # c)
        /\ first[i].payload = Slice(m.payload, i, size)
    <3>1. first[i] = packet(i)
      BY <1>8
    <3>2. packet(i).pbf = (i # c)
      BY Zenon
    <3>3. first[i].pbf = (i # c)
      <4> HIDE DEF packet
      <4> QED
        BY <3>1, <3>2, Zenon
    <3>4. /\ packet(i).mt = m.mt /\ packet(i).gid = m.gid /\ packet(i).oid = m.oid
          /\ packet(i).payload = Slice(m.payload, i, size)
      OBVIOUS
    <3> QED
      BY <3>1, <3>3, <3>4
  <2> QED
    BY <1>4, <2>1
<1> QED
  BY <1>2, <1>7, <1>9 DEF Short, PartOf
-----------------------------------------------------------------------------
(* The beginning of a line.                                                *)

\* What the two decoders say of the first n bytes of a packet and more.
ReadsFirst(prefix, n, p, size) ==
  /\ TryDecodePacket(prefix) = IF n < size THEN Incomplete ELSE Decoded(p, size)
  /\ DecodePacket(prefix) # Malformed <=> n = size

LEMMA PrefixDecodes ==
  ASSUME NEW p \in Packet, Len(p.payload) < 256 * 256,
         NEW size, size = HeaderSize + Len(p.payload),
         NEW bytes, bytes = EncodePacket(p),
         NEW line \in Seq(Byte), \A i \in 1 .. size : line[i] = bytes[i],
         NEW n \in Nat, n <= Len(line),
         NEW prefix, prefix = SubSeq(line, 1, n)
  PROVE  ReadsFirst(prefix, n, p, size)
<1>1. size \in Nat
  BY PacketParts DEF HeaderSize
<1>2. /\ prefix \in Seq(Byte) /\ Len(prefix) = n /\ n \in Nat
      /\ \A i \in 1 .. n : i <= size => prefix[i] = bytes[i]
  <2>1. /\ prefix \in Seq(Byte) /\ Len(prefix) = n
        /\ \A i \in 1 .. n : prefix[i] = line[i]
    OBVIOUS
  <2>2. \A i \in 1 .. n : i <= size => line[i] = bytes[i]
    BY <1>1
  <2> QED
    BY <2>1, <2>2
<1>3. CASE n < size
  <2>1. \A i \in 1 .. Len(prefix) : prefix[i] = bytes[i]
    BY ONLY <1>1, <1>2, <1>3
  <2>2. Len(prefix) < HeaderSize + Len(p.payload)
    BY <1>2, <1>3
  <2>3. TryDecodePacket(prefix) = Incomplete
    BY ONLY <1>2, <2>1, <2>2, p \in Packet, Len(p.payload) < 256 * 256,
            bytes = EncodePacket(p), PartOfPacketWaits
  <2> QED
    BY <1>1, <1>3, <2>3 DEF ReadsFirst, DecodePacket, Incomplete
<1>4. CASE ~(n < size)
  <2>1. (\A i \in 1 .. size : prefix[i] = bytes[i]) /\ size <= Len(prefix)
    BY ONLY <1>1, <1>2, <1>4
  <2>2. TryDecodePacket(prefix) = Decoded(p, size)
    BY ONLY <1>2, <2>1, p \in Packet, Len(p.payload) < 256 * 256,
            size = HeaderSize + Len(p.payload), bytes = EncodePacket(p), WholePacketDecodes
  <2>3. /\ Decoded(p, size).kind = "decoded"
        /\ Decoded(p, size).size = size
        /\ Decoded(p, size) # Malformed
    BY DEF Decoded, Malformed
  <2> QED
    BY <1>1, <1>2, <1>4, <2>2, <2>3 DEF ReadsFirst, DecodePacket
<1> QED
  BY <1>3, <1>4

-----------------------------------------------------------------------------
(* What fragments make together.                                            *)

LEMMA NotAMessage == NoMessage \notin Message
<1>1. ASSUME NoMessage \in Message PROVE FALSE
  <2>1. DOMAIN NoMessage = {"mt", "gid", "oid", "payload"}
    BY <1>1 DEF Message
  <2>2. DOMAIN NoMessage = {"kind"}
    BY DEF NoMessage
  <2> QED
    BY <2>1, <2>2
<1> QED
  BY <1>1

\* A message is what its fields are.
LEMMA MessageFields ==
  ASSUME NEW m \in Message
  PROVE  /\ m.mt \in MessageType /\ m.gid \in 0 .. 15 /\ m.oid \in Byte
         /\ m.payload \in Seq(Byte) /\ Len(m.payload) \in Nat
         /\ m = [ mt |-> m.mt, gid |-> m.gid, oid |-> m.oid, payload |-> m.payload ]
         /\ \A payload : [ m EXCEPT !.payload = payload ]
              = [ mt |-> m.mt, gid |-> m.gid, oid |-> m.oid, payload |-> payload ]
  BY DEF Message
=============================================================================
