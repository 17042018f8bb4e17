------------------------ MODULE StreamDecoder_proofs ------------------------
(***************************************************************************)
(* Proofs about StreamDecoder, for every set of messages, every size of    *)
(* packets and reads and all bounds; and about FrameArrival, which asks    *)
(* the same decoder for more kinds of packets and any bytes behind them.   *)
(* The two machines have no variable in common.                            *)
(***************************************************************************)
EXTENDS StreamDecoderInvariant, FrameArrival, Framing_proofs

OnWire == Fragment \cup Unknown

-----------------------------------------------------------------------------
(* The bytes of packets.                                                    *)

\* A packet type that has no name has its own value of the three bits.
LEMMA UnknownFirstByte ==
  ASSUME NEW mt \in 4 .. 7, NEW b, b = mt * 32 + 0 + 0
  PROVE  b \in 0 .. 255 /\ (b \div 32) % 8 = mt
  OBVIOUS

LEMMA UnknownEncoded ==
  ASSUME NEW p \in Unknown, NEW bytes, bytes = EncodePacket(p)
  PROVE  /\ bytes \in Seq(Byte)
         /\ Len(bytes) = 4
         /\ (bytes[1] \div 32) % 8 \notin MessageType
<1>1. PICK mt \in UnknownTypes : p = UnknownPacket(mt)
  BY DEF Unknown
<1>2. mt \in 4 .. 7 /\ mt \notin MessageType /\ mt # DataPacket
  BY UnknownTypesAssumption DEF MessageType, DataPacket, Notification
<1>3. /\ p.mt = mt /\ ~p.pbf /\ p.gid = 0 /\ p.oid = 0 /\ p.payload = << >>
      /\ Len(p.payload) = 0
  BY <1>1 DEF UnknownPacket
<1>4. FirstByte(p) = mt * 32 + 0 + 0
  BY <1>3 DEF FirstByte
<1>5. FirstByte(p) \in Byte /\ (FirstByte(p) \div 32) % 8 = mt
  BY <1>2, <1>4, UnknownFirstByte DEF Byte
<1>6. Header(p) = << FirstByte(p), 0, 0, 0 >>
  <2>1. 0 % 256 = 0
    OBVIOUS
  <2> QED
    BY <1>2, <1>3, <2>1 DEF Header
<1>7. bytes = << FirstByte(p), 0, 0, 0 >> \o << >>
  BY <1>3, <1>6 DEF EncodePacket
<1>8. 0 \in Byte /\ << >> \in Seq(Byte) /\ Len(<< >>) = 0
  BY DEF Byte
<1>9. bytes \in Seq(Byte) /\ Len(bytes) = 4 + Len(<< >>) /\ bytes[1] = FirstByte(p)
  BY ONLY <1>5, <1>7, <1>8, Laid
<1> QED
  BY <1>2, <1>5, <1>8, <1>9

LEMMA FragmentFits ==
  ASSUME NEW p \in Fragment
  PROVE  p \in Packet /\ Len(p.payload) < 256 * 256 /\ Len(p.payload) \in Nat
  BY PacketParts DEF Fragment, MaxPayloadSize

LEMMA OnWireEncoded ==
  ASSUME NEW p \in OnWire
  PROVE  EncodePacket(p) \in Seq(Byte)
  BY FragmentFits, EncodedAt, UnknownEncoded DEF OnWire

Encoded == [ p \in OnWire |-> EncodePacket(p) ]

LEMMA BytesMapped ==
  ASSUME NEW s \in Seq(OnWire)
  PROVE  Bytes(s) = FlatMap(Encoded, s)
<1>1. \A i \in DOMAIN s : s[i] \in OnWire
  OBVIOUS
<1> HIDE DEF OnWire
<1>2. [ i \in DOMAIN s |-> EncodePacket(s[i]) ] = [ i \in DOMAIN s |-> Encoded[s[i]] ]
  BY <1>1 DEF Encoded
<1> QED
  BY <1>2 DEF Bytes, FlatMap, Mapped

LEMMA EncodedInto == Into(Encoded, OnWire, Seq(Byte)) /\ Joins(Seq(Byte))
  BY OnWireEncoded, SequencesJoin DEF Encoded, Into

LEMMA BytesType ==
  ASSUME NEW s \in Seq(OnWire) PROVE Bytes(s) \in Seq(Byte)
  BY BytesMapped, EncodedInto, FlatMapType

LEMMA BytesEmpty == Bytes(<< >>) = << >>
<1>1. << >> \in Seq(OnWire)
  OBVIOUS
<1> QED
  BY <1>1, BytesMapped, FlatMapEmpty

LEMMA BytesAppend ==
  ASSUME NEW s \in Seq(OnWire), NEW p \in OnWire
  PROVE  Bytes(Append(s, p)) = Bytes(s) \o EncodePacket(p)
<1>1. Append(s, p) \in Seq(OnWire)
  BY AppendAt
<1>2. Encoded[p] = EncodePacket(p)
  BY DEF Encoded
<1> QED
  BY <1>1, <1>2, BytesMapped, EncodedInto, FlatMapAppend

LEMMA BytesHead ==
  ASSUME NEW s \in Seq(OnWire), s # << >>
  PROVE  /\ Head(s) \in OnWire
         /\ Tail(s) \in Seq(OnWire)
         /\ Bytes(s) = EncodePacket(Head(s)) \o Bytes(Tail(s))
<1>1. Head(s) \in OnWire /\ Tail(s) \in Seq(OnWire)
  BY TailAt
<1>2. Encoded[Head(s)] = EncodePacket(Head(s))
  BY <1>1 DEF Encoded
<1> QED
  BY <1>1, <1>2, BytesMapped, EncodedInto, FlatMapHead

-----------------------------------------------------------------------------
(* What is at the head of the buffer.                                       *)

LEMMA SplitElsewhere ==
  ASSUME NEW S, NEW b \in Seq(S), NEW l \in Seq(S), NEW e \in Seq(S), NEW r \in Seq(S),
         b \o l = e \o r
  PROVE  /\ \A i \in 1 .. Len(b) : i <= Len(e) => b[i] = e[i]
         /\ Len(e) <= Len(b) => SubSeq(b, Len(e) + 1, Len(b)) \o l = r
<1>1. PICK all : all = b \o l
  OBVIOUS
<1>2. /\ Len(b) \in Nat /\ Len(l) \in Nat /\ Len(all) = Len(b) + Len(l)
      /\ \A i \in 1 .. Len(b) : all[i] = b[i]
      /\ \A i \in 1 .. Len(l) : all[Len(b) + i] = l[i]
  BY ONLY <1>1, JoinAt
<1>3. /\ Len(e) \in Nat /\ Len(r) \in Nat /\ Len(all) = Len(e) + Len(r)
      /\ \A i \in 1 .. Len(e) : all[i] = e[i]
      /\ \A i \in 1 .. Len(r) : all[Len(e) + i] = r[i]
  <2>1. all = e \o r
    BY <1>1
  <2> QED
    BY ONLY <2>1, JoinAt
<1>4. \A i \in 1 .. Len(b) : i <= Len(e) => b[i] = e[i]
  BY ONLY <1>2, <1>3
<1>5. ASSUME Len(e) <= Len(b)
      PROVE  SubSeq(b, Len(e) + 1, Len(b)) \o l = r
  <2> DEFINE k == Len(e)
             t == SubSeq(b, k + 1, Len(b))
  <2>1. /\ t \in Seq(S) /\ Len(t) = Len(b) - k
        /\ \A i \in 1 .. Len(b) - k : t[i] = b[i + k]
    BY <1>2, <1>3, <1>5, DropAt
  <2> HIDE DEF t
  <2>2. /\ t \o l \in Seq(S) /\ Len(t \o l) = Len(r)
        /\ \A i \in 1 .. Len(b) - k : (t \o l)[i] = t[i]
        /\ \A i \in 1 .. Len(l) : (t \o l)[(Len(b) - k) + i] = l[i]
    <3>1. Len(t \o l) = Len(t) + Len(l)
      BY <2>1, JoinAt
    <3>2. Len(t \o l) = Len(r)
      BY <1>2, <1>3, <2>1, <3>1
    <3> QED
      BY <2>1, <3>2, JoinAt
  <2> HIDE DEF k
  <2>3. ASSUME NEW i \in 1 .. Len(t \o l) PROVE (t \o l)[i] = r[i]
    <3>1. k = Len(e) /\ i \in 1 .. Len(r) /\ r[i] = all[k + i]
      BY <1>3, <2>2 DEF k
    <3>2. CASE i <= Len(b) - k
      <4>1. i \in 1 .. Len(b) - k /\ i + k \in 1 .. Len(b) /\ k + i = i + k
        BY <1>2, <1>3, <3>1, <3>2
      <4>2. (t \o l)[i] = b[i + k] /\ b[i + k] = all[i + k]
        BY <1>2, <1>3, <2>1, <2>2, <4>1
      <4> QED
        BY <3>1, <4>1, <4>2
    <3>3. CASE ~(i <= Len(b) - k)
      <4>1. PICK j \in 1 .. Len(l) : i = (Len(b) - k) + j
        <5>1. i - (Len(b) - k) \in 1 .. Len(l) /\ i = (Len(b) - k) + (i - (Len(b) - k))
          BY <1>2, <1>3, <3>1, <3>3
        <5> QED
          BY <5>1
      <4>2. (t \o l)[i] = l[j] /\ k + i = Len(b) + j
        BY <1>2, <1>3, <2>2, <3>1, <4>1
      <4> QED
        BY <1>2, <1>3, <3>1, <4>1, <4>2
    <3> QED
      BY ONLY <3>2, <3>3
  <2>4. t \o l = r
    BY <2>2, <2>3, SameItems
  <2> QED
    BY <2>4 DEF t, k
<1> QED
  BY <1>4, <1>5

\* The packet that is first on the line is all that decides: it is decoded once
\* it is whole, refused once its header is there if its type is unknown, and
\* waited for otherwise.
LEMMA HeadDecides ==
  ASSUME NEW s \in Seq(OnWire), NEW b \in Seq(Byte), NEW l \in Seq(Byte),
         b \o l = Bytes(s)
  PROVE  \/ TryDecodePacket(b) = Incomplete
         \/ /\ s # << >> /\ Head(s) \in Fragment
            /\ \E size \in 1 .. Len(b) :
                 /\ TryDecodePacket(b) = Decoded(Head(s), size)
                 /\ SubSeq(b, size + 1, Len(b)) \o l = Bytes(Tail(s))
         \/ /\ s # << >> /\ Head(s) \in Unknown
            /\ TryDecodePacket(b) = Malformed
<1>1. CASE s = << >>
  <2>1. b \o l = << >>
    BY <1>1, BytesEmpty
  <2>2. Len(b) = 0
    BY <2>1, JoinAt
  <2> QED
    BY <2>2 DEF TryDecodePacket, HeaderSize
<1>2. CASE s # << >> /\ Head(s) \in Fragment
  <2>1. PICK p, e, r : p = Head(s) /\ e = EncodePacket(p) /\ r = Bytes(Tail(s))
    OBVIOUS
  <2>2. /\ p \in Packet /\ Len(p.payload) < 256 * 256 /\ Len(p.payload) \in Nat
        /\ e \in Seq(Byte) /\ Len(e) = 4 + Len(p.payload)
        /\ r \in Seq(Byte) /\ b \o l = e \o r
    BY <1>2, <2>1, FragmentFits, EncodedAt, BytesHead, BytesType
  <2>3. /\ \A i \in 1 .. Len(b) : i <= Len(e) => b[i] = e[i]
        /\ Len(e) <= Len(b) => SubSeq(b, Len(e) + 1, Len(b)) \o l = r
    BY <2>2, SplitElsewhere
  <2>4. CASE Len(e) <= Len(b)
    <3>1. \A i \in 1 .. Len(e) : b[i] = EncodePacket(p)[i]
      BY <2>1, <2>2, <2>3, <2>4
    <3>2. TryDecodePacket(b) = Decoded(p, Len(e))
      BY <2>2, <2>4, <3>1, WholePacketDecodes DEF HeaderSize
    <3>3. Len(e) \in 1 .. Len(b)
      BY <2>2, <2>4
    <3> QED
      BY <1>2, <2>1, <2>3, <2>4, <3>2, <3>3
  <2>5. CASE ~(Len(e) <= Len(b))
    <3>1. /\ Len(b) < HeaderSize + Len(p.payload)
          /\ \A i \in 1 .. Len(b) : b[i] = EncodePacket(p)[i]
      BY <2>1, <2>2, <2>3, <2>5 DEF HeaderSize
    <3> QED
      BY <2>2, <3>1, PartOfPacketWaits
  <2> QED
    BY <2>4, <2>5
<1>3. CASE s # << >> /\ Head(s) \in Unknown
  <2>1. PICK p, e, r : p = Head(s) /\ e = EncodePacket(p) /\ r = Bytes(Tail(s))
    OBVIOUS
  <2>2. /\ e \in Seq(Byte) /\ Len(e) = 4 /\ (e[1] \div 32) % 8 \notin MessageType
        /\ r \in Seq(Byte) /\ b \o l = e \o r
    BY <1>3, <2>1, UnknownEncoded, BytesHead, BytesType
  <2>3. \A i \in 1 .. Len(b) : i <= Len(e) => b[i] = e[i]
    BY <2>2, SplitElsewhere
  <2>4. CASE Len(b) < HeaderSize
    BY <2>4 DEF TryDecodePacket
  <2>5. CASE ~(Len(b) < HeaderSize)
    <3>1. b[1] = e[1]
      BY <2>2, <2>3, <2>5 DEF HeaderSize
    <3>2. HeaderType(b) \notin MessageType
      BY <2>2, <3>1 DEF HeaderType
    <3> QED
      BY <1>3, <2>5, <3>2 DEF TryDecodePacket
  <2> QED
    BY <2>4, <2>5
<1>4. s # << >> => Head(s) \in OnWire
  BY BytesHead
<1> QED
  BY <1>1, <1>2, <1>3, <1>4 DEF OnWire

-----------------------------------------------------------------------------
(* Types and alignment.                                                     *)

AlignedInv == TypeInv /\ FrameAligned

LEMMA WireType ==
  ASSUME TypeInv
  PROVE  wire \in Seq(OnWire) /\ buffer \in Seq(Byte) /\ line \in Seq(Byte)
  BY DEF TypeInv, TypeOK, OnWire

\* A packet that is taken off the buffer is the first of those on the line.
LEMMA DecodedHead ==
  ASSUME AlignedInv, NEW result, result = TryDecodePacket(buffer),
         result.kind = "decoded"
  PROVE  /\ wire # << >>
         /\ Head(wire) \in Fragment
         /\ Tail(wire) \in Seq(OnWire)
         /\ result.packet = Head(wire)
         /\ SubSeq(buffer, result.size + 1, Len(buffer)) \in Seq(Byte)
         /\ SubSeq(buffer, result.size + 1, Len(buffer)) \o line = Bytes(Tail(wire))
<1>1. wire \in Seq(OnWire) /\ buffer \in Seq(Byte) /\ line \in Seq(Byte)
      /\ buffer \o line = Bytes(wire)
  BY WireType DEF AlignedInv, FrameAligned
<1>2. result # Incomplete /\ result # Malformed
  BY DEF Incomplete, Malformed
<1>3. /\ wire # << >> /\ Head(wire) \in Fragment
      /\ \E size \in 1 .. Len(buffer) :
           /\ result = Decoded(Head(wire), size)
           /\ SubSeq(buffer, size + 1, Len(buffer)) \o line = Bytes(Tail(wire))
  BY <1>1, <1>2, HeadDecides
<1>4. PICK size \in 1 .. Len(buffer) :
        /\ result = Decoded(Head(wire), size)
        /\ SubSeq(buffer, size + 1, Len(buffer)) \o line = Bytes(Tail(wire))
  BY <1>3
<1>5. result.packet = Head(wire) /\ result.size = size
  BY <1>4 DEF Decoded
<1>6. SubSeq(buffer, size + 1, Len(buffer)) \in Seq(Byte)
  BY <1>1, DropAt
<1>7. Tail(wire) \in Seq(OnWire)
  BY <1>1, <1>3, TailAt
<1> QED
  BY <1>3, <1>4, <1>5, <1>6, <1>7

LEMMA MergedType ==
  ASSUME NEW held \in Message \cup {NoMessage}, NEW p \in Fragment
  PROVE  Merged(held, p) \in Message
<1>1. /\ p.mt \in MessageType /\ p.gid \in 0 .. 15 /\ p.oid \in Byte
      /\ p.payload \in Seq(Byte)
  BY FragmentFits, PacketParts
<1>2. held # NoMessage => held.payload \in Seq(Byte)
  BY DEF Message
<1>3. held # NoMessage => held.payload \o p.payload \in Seq(Byte)
  BY <1>1, <1>2, JoinAt
<1> QED
  BY <1>1, <1>3 DEF Merged, Message

\* The messages the device may send, cut.
LEMMA CutParts ==
  ASSUME NEW m \in Messages
  PROVE  /\ m \in Message
         /\ Cut(m) \in Seq(Fragment)
         /\ Len(Cut(m)) \in Nat \ {0}
<1>1. m \in Message /\ FragmentSize \in 1 .. MaxPayloadSize
  BY MessagesAssumption, SizesAssumption
<1> QED
  BY <1>1, SplitParts DEF Cut, Fragment

LEMMA InitAligned == Init => AlignedInv
<1> SUFFICES ASSUME Init PROVE AlignedInv
  OBVIOUS
<1>1. PICK empty : empty = << >> /\ \A S : empty \in Seq(S)
  <2>1. \A S : << >> \in Seq(S)
    OBVIOUS
  <2> QED
    BY ONLY <2>1, Zenon
<1>2. TypeInv
  <2>1. /\ buffer = empty /\ line = empty /\ messages = empty /\ returned = empty
        /\ sent = empty /\ givenUp = empty /\ wire = empty /\ toWrite = empty
    BY <1>1 DEF Init
  <2>2. /\ pending = NoMessage /\ feeding = FALSE /\ writing = NoMessage
        /\ started = 0 /\ faults = 0 /\ toWrite = << >>
    BY DEF Init
  <2>3. 0 \in 0 .. MaxSent /\ 0 \in 0 .. MaxFaults
    BY BoundsAssumption
  <2>4. TypeOK
    BY ONLY <1>1, <2>1, <2>2, <2>3 DEF TypeOK
  <2>5. wire \in Seq(Fragment \cup Unknown) /\ toWrite \in Seq(Fragment)
    BY ONLY <1>1, <2>1
  <2> QED
    BY <2>2, <2>4, <2>5 DEF TypeInv
<1>3. << >> \o << >> = << >>
  OBVIOUS
<1>4. FrameAligned
  BY <1>3, BytesEmpty DEF Init, FrameAligned
<1> QED
  BY <1>2, <1>4 DEF AlignedInv

LEMMA StartAligned ==
  ASSUME AlignedInv, NEW message \in Messages, StartMessage(message)
  PROVE  AlignedInv'
<1> USE DEF AlignedInv, StartMessage, decoder
<1>1. Cut(message) \in Seq(Fragment) /\ toWrite' = Cut(message)
  BY CutParts DEF Cut
<1>2. started' \in 0 .. MaxSent
  BY BoundsAssumption DEF TypeInv, TypeOK
<1>3. TypeInv'
  BY <1>1, <1>2 DEF TypeInv, TypeOK
<1> QED
  BY <1>3 DEF FrameAligned

\* A packet that the device writes goes behind all that is on the line.
LEMMA PutAligned ==
  ASSUME AlignedInv, NEW packet \in OnWire, PutOnLine(packet), UNCHANGED buffer
  PROVE  /\ FrameAligned'
         /\ line' \in Seq(Byte)
         /\ wire' \in Seq(OnWire)
<1>1. /\ wire \in Seq(OnWire) /\ buffer \in Seq(Byte) /\ line \in Seq(Byte)
      /\ buffer \o line = Bytes(wire)
  BY WireType DEF AlignedInv, FrameAligned
<1>2. EncodePacket(packet) \in Seq(Byte)
  BY OnWireEncoded
<1>3. /\ buffer' = buffer
      /\ line' = line \o EncodePacket(packet)
      /\ wire' = Append(wire, packet)
  BY DEF PutOnLine
<1>4. buffer \o (line \o EncodePacket(packet)) = (buffer \o line) \o EncodePacket(packet)
  <2>1. buffer \in Seq(Byte) /\ line \in Seq(Byte)
    BY <1>1
  <2> QED
    BY ONLY <1>2, <2>1, JoinAssociates
<1>5. Bytes(Append(wire, packet)) = Bytes(wire) \o EncodePacket(packet)
  BY <1>1, BytesAppend
<1>6. line' \in Seq(Byte)
  BY <1>1, <1>2, <1>3, JoinAt
<1>7. wire' \in Seq(OnWire)
  BY <1>1, <1>3, AppendAt
<1> QED
  BY <1>1, <1>3, <1>4, <1>5, <1>6, <1>7 DEF FrameAligned

LEMMA WriteAligned == AlignedInv /\ WritePacket => AlignedInv'
<1> SUFFICES ASSUME AlignedInv, WritePacket PROVE AlignedInv'
  OBVIOUS
<1>1. /\ toWrite \in Seq(Fragment) /\ toWrite # << >> /\ writing \in Messages
      /\ sent \in Seq(Messages)
  BY DEF AlignedInv, TypeInv, TypeOK, WritePacket
<1>2. Head(toWrite) \in Fragment /\ Tail(toWrite) \in Seq(Fragment)
  BY <1>1, TailAt
<1>3. FrameAligned' /\ line' \in Seq(Byte) /\ wire' \in Seq(OnWire)
  BY <1>2, PutAligned DEF WritePacket, decoder, OnWire
<1>4. sent' \in Seq(Messages)
  BY <1>1, AppendAt DEF WritePacket
<1>5. TypeInv'
  BY <1>1, <1>2, <1>3, <1>4 DEF AlignedInv, TypeInv, TypeOK, WritePacket, decoder, OnWire
<1> QED
  BY <1>3, <1>5 DEF AlignedInv

LEMMA AbandonAligned == AlignedInv /\ AbandonMessage => AlignedInv'
<1> SUFFICES ASSUME AlignedInv, AbandonMessage PROVE AlignedInv'
  OBVIOUS
<1>1. << >> \in Seq(Fragment)
  OBVIOUS
<1>2. faults' \in 0 .. MaxFaults
  BY BoundsAssumption DEF AlignedInv, TypeInv, TypeOK, AbandonMessage
<1> QED
  BY <1>1, <1>2 DEF AlignedInv, TypeInv, TypeOK, FrameAligned, AbandonMessage, decoder

LEMMA UnknownAligned ==
  ASSUME AlignedInv, NEW mt \in UnknownTypes, WriteUnknown(mt)
  PROVE  AlignedInv'
<1>1. UnknownPacket(mt) \in OnWire
  BY DEF OnWire, Unknown
<1>2. FrameAligned' /\ line' \in Seq(Byte) /\ wire' \in Seq(OnWire)
  BY <1>1, PutAligned DEF WriteUnknown, decoder
<1>3. faults' \in 0 .. MaxFaults
  BY BoundsAssumption DEF AlignedInv, TypeInv, TypeOK, WriteUnknown
<1> QED
  BY <1>2, <1>3 DEF AlignedInv, TypeInv, TypeOK, WriteUnknown, decoder, OnWire

\* Bytes that are read go from one end of the line to one end of the buffer.
LEMMA FeedAligned ==
  ASSUME AlignedInv, NEW size \in 1 .. ChunkSize, Feed(size)
  PROVE  AlignedInv'
<1>1. /\ buffer \in Seq(Byte) /\ line \in Seq(Byte)
      /\ buffer \o line = Bytes(wire)
  BY DEF AlignedInv, TypeInv, TypeOK, FrameAligned
<1>2. size \in Nat /\ size <= Len(line) /\ Len(line) \in Nat
  BY <1>1, SizesAssumption DEF Feed
<1> DEFINE chunk == SubSeq(line, 1, size)
           rest == SubSeq(line, size + 1, Len(line))
<1>3. chunk \in Seq(Byte) /\ rest \in Seq(Byte)
  BY <1>1, <1>2
<1>4. chunk \o rest = line
  <2>1. size \in 0 .. Len(line)
    BY <1>2
  <2> QED
    BY <1>1, <2>1, TakeDrop
<1>5. buffer' = buffer \o chunk /\ line' = rest /\ messages' = << >> /\ feeding' = TRUE
  BY DEF Feed
<1> HIDE DEF chunk, rest
<1>6. buffer' \o line' = buffer \o line
  <2>1. buffer \in Seq(Byte)
    BY <1>1
  <2>2. (buffer \o chunk) \o rest = buffer \o (chunk \o rest)
    BY ONLY <1>3, <2>1, JoinAssociates
  <2> QED
    BY ONLY <1>4, <1>5, <2>2
<1>7. buffer' \in Seq(Byte) /\ line' \in Seq(Byte) /\ messages' \in Seq(Message)
  <2>1. << >> \in Seq(Message)
    OBVIOUS
  <2> QED
    BY <1>1, <1>3, <1>5, <2>1, JoinAt
<1>8. FrameAligned'
  BY <1>1, <1>6 DEF Feed, FrameAligned
<1>9. TypeInv'
  BY <1>5, <1>7 DEF AlignedInv, TypeInv, TypeOK, Feed, device
<1> QED
  BY <1>8, <1>9 DEF AlignedInv

LEMMA DecodeAligned == AlignedInv /\ DecodeNext => AlignedInv'
<1> SUFFICES ASSUME AlignedInv, DecodeNext PROVE AlignedInv'
  OBVIOUS
<1>1. PICK result : result = TryDecodePacket(buffer)
  OBVIOUS
<1>2. /\ result.kind = "decoded"
      /\ buffer' = SubSeq(buffer, result.size + 1, Len(buffer))
      /\ Accumulate(result.packet)
      /\ wire' = Tail(wire)
      /\ UNCHANGED << device, line, feeding, returned >>
  BY <1>1 DEF DecodeNext, DropPacket
<1>3. /\ Head(wire) \in Fragment
      /\ Tail(wire) \in Seq(OnWire)
      /\ result.packet = Head(wire)
      /\ buffer' \in Seq(Byte)
      /\ buffer' \o line = Bytes(Tail(wire))
  BY <1>1, <1>2, DecodedHead
<1>4. FrameAligned'
  BY <1>2, <1>3 DEF FrameAligned
<1>5. Merged(pending, result.packet) \in Message
  BY <1>3, MergedType DEF AlignedInv, TypeInv, TypeOK
<1>6. pending' \in Message \cup {NoMessage} /\ messages' \in Seq(Message)
  <2>1. messages \in Seq(Message)
    BY DEF AlignedInv, TypeInv, TypeOK
  <2> QED
    BY <1>2, <1>5, <2>1, AppendAt DEF Accumulate
<1>7. TypeInv'
  BY <1>2, <1>3, <1>6 DEF AlignedInv, TypeInv, TypeOK, device, OnWire
<1> QED
  BY <1>4, <1>7 DEF AlignedInv

LEMMA InterruptedAligned == AlignedInv /\ RaiseInterrupted => AlignedInv'
<1> SUFFICES ASSUME AlignedInv, RaiseInterrupted PROVE AlignedInv'
  OBVIOUS
<1>1. PICK result : result = TryDecodePacket(buffer)
  OBVIOUS
<1>2. /\ result.kind = "decoded"
      /\ buffer' = SubSeq(buffer, result.size + 1, Len(buffer))
      /\ wire' = Tail(wire)
      /\ feeding' = FALSE /\ messages' = << >>
      /\ UNCHANGED << device, line, pending, returned >>
  BY <1>1 DEF RaiseInterrupted, DropPacket
<1>3. /\ Tail(wire) \in Seq(OnWire)
      /\ buffer' \in Seq(Byte)
      /\ buffer' \o line = Bytes(Tail(wire))
  BY <1>1, <1>2, DecodedHead
<1>4. FrameAligned'
  BY <1>2, <1>3 DEF FrameAligned
<1>5. << >> \in Seq(Message)
  OBVIOUS
<1>6. TypeInv'
  BY <1>2, <1>3, <1>5 DEF AlignedInv, TypeInv, TypeOK, device, OnWire
<1> QED
  BY <1>4, <1>6 DEF AlignedInv

LEMMA UnknownRaisedAligned == AlignedInv /\ RaiseUnknown => AlignedInv'
<1>1. << >> \in Seq(Message)
  OBVIOUS
<1> QED
  BY <1>1 DEF AlignedInv, TypeInv, TypeOK, FrameAligned, RaiseUnknown, device

LEMMA ReturnAligned == AlignedInv /\ Return => AlignedInv'
<1> SUFFICES ASSUME AlignedInv, Return PROVE AlignedInv'
  OBVIOUS
<1>1. returned' \in Seq(Message) /\ messages' \in Seq(Message)
  <2>1. << >> \in Seq(Message)
    OBVIOUS
  <2> QED
    BY <2>1, JoinAt DEF AlignedInv, TypeInv, TypeOK, Return
<1> QED
  BY <1>1 DEF AlignedInv, TypeInv, TypeOK, FrameAligned, Return, device

LEMMA StepAligned == AlignedInv /\ [Next]_vars => AlignedInv'
<1> SUFFICES ASSUME AlignedInv, [Next]_vars PROVE AlignedInv'
  OBVIOUS
<1>1. ASSUME NEW message \in Messages, StartMessage(message) PROVE AlignedInv'
  BY <1>1, StartAligned
<1>2. CASE WritePacket
  BY <1>2, WriteAligned
<1>3. CASE AbandonMessage
  BY <1>3, AbandonAligned
<1>4. ASSUME NEW mt \in UnknownTypes, WriteUnknown(mt) PROVE AlignedInv'
  BY <1>4, UnknownAligned
<1>5. ASSUME NEW size \in 1 .. ChunkSize, Feed(size) PROVE AlignedInv'
  BY <1>5, FeedAligned
<1>6. CASE DecodeNext
  BY <1>6, DecodeAligned
<1>7. CASE RaiseInterrupted
  BY <1>7, InterruptedAligned
<1>8. CASE RaiseUnknown
  BY <1>8, UnknownRaisedAligned
<1>9. CASE Return
  BY <1>9, ReturnAligned
<1>10. CASE UNCHANGED vars
  BY <1>10 DEF AlignedInv, TypeInv, TypeOK, FrameAligned, vars, decoder, device
<1> QED
  BY <1>1, <1>2, <1>3, <1>4, <1>5, <1>6, <1>7, <1>8, <1>9, <1>10
     DEF Next, Device, Read, InFeed

\* The types of all variables, and what may be on the line.
THEOREM TypeCorrect == Safety => []TypeOK
<1>1. AlignedInv => TypeOK
  BY DEF AlignedInv, TypeInv
<1> QED
  BY <1>1, InitAligned, StepAligned, PTL DEF Safety

\* The buffer starts at the first byte of a packet, however reads cut the
\* stream, whatever the device leaves unfinished and whatever feed has raised.
THEOREM Aligned == Safety => []FrameAligned
<1>1. AlignedInv => FrameAligned
  BY DEF AlignedInv
<1> QED
  BY <1>1, InitAligned, StepAligned, PTL DEF Safety

-----------------------------------------------------------------------------
(* Cut messages.                                                            *)

\* With each packet but the last, what is gathered grows by one packet; with the
\* last it is the message.
LEMMA GatherStep ==
  ASSUME NEW m \in Messages, NEW k \in 0 .. Len(Cut(m)) - 1,
         NEW p, p = Cut(m)[k + 1]
  PROVE  /\ p \in Fragment
         /\ p.pbf = (k + 1 # Len(Cut(m)))
         /\ ~Interrupts(Gathered(m, k), p)
         /\ Merged(Gathered(m, k), p) =
              IF k + 1 = Len(Cut(m)) THEN m ELSE Gathered(m, k + 1)
<1>1. /\ m \in Message /\ FragmentSize \in 1 .. MaxPayloadSize
      /\ Cut(m) \in Seq(Fragment) /\ Len(Cut(m)) \in Nat \ {0}
  BY CutParts, SizesAssumption
<1>2. k \in Nat /\ k + 1 \in 1 .. Len(Cut(m)) /\ (k + 1) - 1 = k
  BY <1>1
<1>3. p \in Fragment
  BY <1>1, <1>2
<1>4. PICK n, stop : /\ n = Len(Cut(m))
                     /\ stop = IF k + 1 = n THEN Len(m.payload) ELSE (k + 1) * FragmentSize
  OBVIOUS
<1>5. /\ p.mt = m.mt /\ p.gid = m.gid /\ p.oid = m.oid
      /\ p.pbf = (k + 1 # n)
      /\ k * FragmentSize \in Nat /\ stop \in Nat
      /\ k * FragmentSize <= stop /\ stop <= Len(m.payload)
      /\ p.payload = SubSeq(m.payload, k * FragmentSize + 1, stop)
  <2>1. PICK i, first : i = k + 1 /\ first = Cut(m)
    OBVIOUS
  <2>2. i \in 1 .. Len(first) /\ i - 1 = k /\ n = Len(first) /\ p = first[i]
    BY <1>2, <1>4, <2>1
  <2>3. first = SplitIntoPackets(m, FragmentSize)
    BY <2>1 DEF Cut
  <2>4. PartOf(m, FragmentSize, first, i)
    BY ONLY <1>1, <2>2, <2>3, SplitParts
  <2>5. stop = IF i = Len(first) THEN Len(m.payload) ELSE i * FragmentSize
    BY <1>4, <2>1
  <2>6. i = k + 1
    BY <2>1
  <2> QED
    BY ONLY <2>2, <2>4, <2>5, <2>6 DEF PartOf
<1>6. PICK before \in Nat : before = k * FragmentSize
  BY <1>5
<1>7. /\ m.payload \in Seq(Byte) /\ Len(m.payload) \in Nat
      /\ m = [ mt |-> m.mt, gid |-> m.gid, oid |-> m.oid, payload |-> m.payload ]
  BY <1>1, MessageFields
<1> DEFINE whole == [ mt |-> m.mt, gid |-> m.gid, oid |-> m.oid,
                     payload |-> SubSeq(m.payload, 1, stop) ]
           Goal == ~Interrupts(Gathered(m, k), p) /\ Merged(Gathered(m, k), p) = whole
<1>8. whole = IF k + 1 = Len(Cut(m)) THEN m ELSE Gathered(m, k + 1)
  <2>1. CASE k + 1 = n
    <3>1. SubSeq(m.payload, 1, stop) = m.payload
      BY <1>4, <1>7, <2>1
    <3> QED
      BY <1>4, <1>7, <2>1, <3>1
  <2>2. CASE k + 1 # n
    <3>1. stop = (k + 1) * FragmentSize /\ k + 1 # 0
      BY <1>2, <1>4, <2>2
    <3> QED
      BY <1>1, <1>4, <2>2, <3>1, MessageFields DEF Gathered
  <2> QED
    BY <2>1, <2>2
<1>9. ASSUME k = 0 PROVE Goal
  <2>1. Gathered(m, k) = NoMessage /\ k * FragmentSize = 0
    <3>1. FragmentSize \in Nat
      BY SizesAssumption DEF MaxPayloadSize
    <3> QED
      BY <1>9, <3>1 DEF Gathered
  <2>2. p.payload = SubSeq(m.payload, 1, stop)
    BY <1>5, <2>1
  <2>3. /\ ~Interrupts(Gathered(m, k), p)
        /\ Merged(Gathered(m, k), p)
             = [ mt |-> m.mt, gid |-> m.gid, oid |-> m.oid,
                 payload |-> SubSeq(m.payload, 1, stop) ]
    BY <1>5, <2>1, <2>2 DEF Interrupts, Merged
  <2>4. Goal
    BY <2>3
  <2> QED
    BY <2>4
<1>10. ASSUME k # 0 PROVE Goal
  <2>1. /\ SubSeq(m.payload, 1, before) \o SubSeq(m.payload, before + 1, stop)
             = SubSeq(m.payload, 1, stop)
    BY <1>5, <1>6, <1>7, TakeTake
  <2>2. PICK held : held = SubSeq(m.payload, 1, before)
    OBVIOUS
  <2>3. held \in Seq(Byte)
    BY <1>5, <1>6, <1>7, <2>2
  <2>4. Gathered(m, k) = [ mt |-> m.mt, gid |-> m.gid, oid |-> m.oid, payload |-> held ]
    BY <1>1, <1>6, <1>10, <2>2, MessageFields DEF Gathered
  <2>5. Gathered(m, k) \in Message
    BY <1>1, <2>3, <2>4, MessageFields DEF Message
  <2>6. Gathered(m, k) # NoMessage
    BY <2>5, NotAMessage
  <2>7. /\ ~Interrupts(Gathered(m, k), p)
        /\ Merged(Gathered(m, k), p)
             = [ mt |-> m.mt, gid |-> m.gid, oid |-> m.oid,
                 payload |-> SubSeq(m.payload, 1, stop) ]
    <3>1. /\ Gathered(m, k).gid = m.gid /\ Gathered(m, k).oid = m.oid
          /\ Gathered(m, k).mt = m.mt /\ Gathered(m, k).payload = held
      BY <2>4
    <3>2. held \o p.payload = SubSeq(m.payload, 1, stop)
      BY <1>5, <1>6, <2>1, <2>2
    <3> QED
      BY <1>5, <2>6, <3>1, <3>2 DEF Interrupts, SameMessage, Merged
  <2>8. Goal
    BY <2>7
  <2> QED
    BY <2>8
<1>11. Goal
  BY <1>9, <1>10
<1> QED
  BY <1>3, <1>4, <1>5, <1>8, <1>11

CutUp == [ m \in Messages |-> Cut(m) ]

LEMMA CutUpInto == Into(CutUp, Messages, Seq(Fragment)) /\ Joins(Seq(Fragment))
  BY CutParts, SequencesJoin DEF CutUp, Into

LEMMA CutAllMapped ==
  ASSUME NEW list \in Seq(Messages)
  PROVE  CutAll(list) = FlatMap(CutUp, list)
<1>1. \A i \in DOMAIN list : list[i] \in Messages
  OBVIOUS
<1>2. [ i \in DOMAIN list |-> Cut(list[i]) ] = [ i \in DOMAIN list |-> CutUp[list[i]] ]
  BY <1>1 DEF CutUp
<1> QED
  BY <1>2 DEF CutAll, FlatMap, Mapped

LEMMA CutAllType ==
  ASSUME NEW list \in Seq(Messages) PROVE CutAll(list) \in Seq(Fragment)
  BY CutAllMapped, CutUpInto, FlatMapType

LEMMA CutAllEmpty == CutAll(<< >>) = << >>
<1>1. << >> \in Seq(Messages)
  OBVIOUS
<1> QED
  BY <1>1, CutAllMapped, FlatMapEmpty

LEMMA CutAllAppend ==
  ASSUME NEW list \in Seq(Messages), NEW m \in Messages
  PROVE  CutAll(Append(list, m)) = CutAll(list) \o Cut(m)
<1>1. Append(list, m) \in Seq(Messages)
  BY AppendAt
<1>2. CutUp[m] = Cut(m)
  BY DEF CutUp
<1> QED
  BY <1>1, <1>2, CutAllMapped, CutUpInto, FlatMapAppend

LEMMA CutAllHead ==
  ASSUME NEW list \in Seq(Messages), list # << >>
  PROVE  /\ Head(list) \in Messages
         /\ Tail(list) \in Seq(Messages)
         /\ CutAll(list) = Cut(Head(list)) \o CutAll(Tail(list))
<1>1. Head(list) \in Messages /\ Tail(list) \in Seq(Messages)
  BY TailAt
<1>2. CutUp[Head(list)] = Cut(Head(list))
  BY <1>1 DEF CutUp
<1> QED
  BY <1>1, <1>2, CutAllMapped, CutUpInto, FlatMapHead

\* Messages of which nothing was taken yet.
LEMMA SplitsWhole ==
  ASSUME NEW list \in Seq(Messages)
  PROVE  Splits(list, NoMessage, CutAll(list))
<1>1. CASE list = << >>
  BY <1>1, CutAllEmpty DEF Splits
<1>2. CASE list # << >>
  <2> DEFINE first == Cut(Head(list))
  <2>1. /\ Head(list) \in Messages
        /\ CutAll(list) = first \o CutAll(Tail(list))
    BY <1>2, CutAllHead
  <2>2. first \in Seq(Fragment) /\ Len(first) \in Nat \ {0}
    BY <2>1, CutParts
  <2> HIDE DEF first
  <2>3. 0 \in 0 .. Len(first) - 1 /\ SubSeq(first, 0 + 1, Len(first)) = first
    BY <2>2
  <2>4. NoMessage = Gathered(Head(list), 0)
    BY DEF Gathered
  <2> QED
    BY <1>2, <2>1, <2>3, <2>4 DEF Splits, first
<1> QED
  BY <1>1, <1>2

\* A message that the device begins goes behind the others.
LEMMA SplitsMore ==
  ASSUME NEW list \in Seq(Messages), NEW held, NEW packets, NEW m \in Messages,
         Splits(list, held, packets)
  PROVE  Splits(Append(list, m), held, packets \o Cut(m))
<1>1. CASE list = << >>
  <2>1. held = NoMessage /\ packets = << >>
    BY <1>1 DEF Splits
  <2>2. Cut(m) \in Seq(Fragment)
    BY CutParts
  <2>3. CutAll(Append(list, m)) = << >> \o Cut(m)
    BY <1>1, CutAllAppend, CutAllEmpty
  <2>4. packets \o Cut(m) = CutAll(Append(list, m))
    BY <2>1, <2>3
  <2>5. Append(list, m) \in Seq(Messages)
    BY AppendAt
  <2> QED
    BY <2>1, <2>4, <2>5, SplitsWhole
<1>2. CASE list # << >>
  <2> DEFINE first == Cut(Head(list))
  <2>1. PICK k \in 0 .. Len(first) - 1 :
          /\ held = Gathered(Head(list), k)
          /\ packets = SubSeq(first, k + 1, Len(first)) \o CutAll(Tail(list))
    BY <1>2 DEF Splits
  <2>2. Head(list) \in Messages /\ Tail(list) \in Seq(Messages)
    BY <1>2, CutAllHead
  <2>3. /\ first \in Seq(Fragment) /\ Len(first) \in Nat \ {0}
        /\ Cut(m) \in Seq(Fragment)
    BY <2>2, CutParts
  <2> HIDE DEF first
  <2>4. PICK rest : rest = SubSeq(first, k + 1, Len(first))
    OBVIOUS
  <2>5. rest \in Seq(Fragment)
    <3>1. k \in 0 .. Len(first)
      BY <2>3
    <3> QED
      BY <2>3, <2>4, <3>1, DropAt
  <2>6. CutAll(Tail(list)) \in Seq(Fragment)
    BY <2>2, CutAllType
  <2>7. (rest \o CutAll(Tail(list))) \o Cut(m) = rest \o (CutAll(Tail(list)) \o Cut(m))
    <3>1. PICK x, y : x = CutAll(Tail(list)) /\ y = Cut(m)
      OBVIOUS
    <3>2. x \in Seq(Fragment) /\ y \in Seq(Fragment)
      BY <2>3, <2>6, <3>1
    <3>3. (rest \o x) \o y = rest \o (x \o y)
      BY ONLY <2>5, <3>2, JoinAssociates
    <3> QED
      BY <3>1, <3>3
  <2>8. /\ Append(list, m) # << >>
        /\ Head(Append(list, m)) = Head(list)
        /\ Tail(Append(list, m)) = Append(Tail(list), m)
    BY <1>2, AppendFront
  <2>9. CutAll(Append(Tail(list), m)) = CutAll(Tail(list)) \o Cut(m)
    BY <2>2, CutAllAppend
  <2>10. packets \o Cut(m) = rest \o CutAll(Tail(Append(list, m)))
    BY ONLY <2>1, <2>4, <2>7, <2>8, <2>9
  <2> QED
    BY <2>1, <2>4, <2>8, <2>10 DEF Splits, first
<1> QED
  BY <1>1, <1>2

\* The next packet continues what is held, or ends it.
LEMMA SplitsTake ==
  ASSUME NEW list \in Seq(Messages), NEW held, NEW packets, packets # << >>,
         Splits(list, held, packets),
         NEW p, p = Head(packets)
  PROVE  /\ list # << >>
         /\ p \in Fragment
         /\ ~Interrupts(held, p)
         /\ p.pbf => Splits(list, Merged(held, p), Tail(packets))
         /\ ~p.pbf => /\ Merged(held, p) = Head(list)
                      /\ Splits(Tail(list), NoMessage, Tail(packets))
<1>1. list # << >>
  BY DEF Splits
<1> DEFINE first == Cut(Head(list))
<1>2. PICK k \in 0 .. Len(first) - 1 :
        /\ held = Gathered(Head(list), k)
        /\ packets = SubSeq(first, k + 1, Len(first)) \o CutAll(Tail(list))
  BY <1>1 DEF Splits
<1>3. Head(list) \in Messages /\ Tail(list) \in Seq(Messages)
  BY <1>1, CutAllHead
<1>4. first \in Seq(Fragment) /\ Len(first) \in Nat \ {0}
  BY <1>3, CutParts
<1>5. CutAll(Tail(list)) \in Seq(Fragment)
  BY <1>3, CutAllType
<1>6. PICK all : all = CutAll(Tail(list))
  OBVIOUS
<1> HIDE DEF first
<1>7. /\ p = first[k + 1]
      /\ Tail(packets) = SubSeq(first, (k + 1) + 1, Len(first)) \o all
  <2>1. /\ packets = SubSeq(first, k + 1, Len(first)) \o all /\ all \in Seq(Fragment)
        /\ first \in Seq(Fragment) /\ k \in 0 .. Len(first) - 1
    BY <1>2, <1>4, <1>5, <1>6
  <2>2. /\ Head(packets) = first[k + 1]
        /\ Tail(packets) = SubSeq(first, (k + 1) + 1, Len(first)) \o all
    BY ONLY <2>1, SliceHead
  <2> QED
    BY <2>2
<1>8. /\ p \in Fragment
      /\ p.pbf = (k + 1 # Len(first))
      /\ ~Interrupts(Gathered(Head(list), k), p)
      /\ Merged(Gathered(Head(list), k), p)
           = IF k + 1 = Len(first) THEN Head(list) ELSE Gathered(Head(list), k + 1)
  BY <1>3, <1>7, GatherStep DEF first
<1>9. ASSUME p.pbf PROVE Splits(list, Merged(held, p), Tail(packets))
  <2>1. k + 1 # Len(first)
    BY <1>8, <1>9
  <2>2. k + 1 \in 0 .. Len(first) - 1
    BY <1>4, <2>1
  <2>3. Merged(held, p) = Gathered(Head(list), k + 1)
    BY <1>2, <1>8, <2>1
  <2> QED
    BY <1>1, <1>6, <1>7, <2>2, <2>3 DEF Splits, first
<1>10. ASSUME ~p.pbf
       PROVE  Merged(held, p) = Head(list) /\ Splits(Tail(list), NoMessage, Tail(packets))
  <2>1. k + 1 = Len(first)
    BY <1>8, <1>10
  <2>2. SubSeq(first, (k + 1) + 1, Len(first)) = << >>
    BY <1>4, <2>1
  <2>3. << >> \o all = all
    BY <1>5, <1>6
  <2>4. Tail(packets) = CutAll(Tail(list))
    BY <1>6, <1>7, <2>2, <2>3
  <2>5. Merged(held, p) = Head(list)
    BY <1>2, <1>8, <2>1
  <2> QED
    BY <1>3, <2>4, <2>5, SplitsWhole
<1> QED
  BY <1>1, <1>2, <1>8, <1>9, <1>10
-----------------------------------------------------------------------------
(* Nothing is lost.                                                         *)

\* NothingLostInv of values: the messages taken, and others that the packets,
\* with what is held, are cut of.
Whole(begun, taken, held, packets) ==
  \E list \in Seq(Messages) : begun = taken \o list /\ Splits(list, held, packets)

LEMMA WholeParts ==
  ASSUME NEW begun, NEW taken \in Seq(Message), NEW held, NEW packets,
         Whole(begun, taken, held, packets)
  PROVE  /\ Len(taken) <= Len(begun)
         /\ taken = SubSeq(begun, 1, Len(taken))
         /\ Splits(SubSeq(begun, Len(taken) + 1, Len(begun)), held, packets)
<1>1. PICK list \in Seq(Messages) : begun = taken \o list /\ Splits(list, held, packets)
  BY DEF Whole
<1>2. list \in Seq(Message)
  BY MessagesAssumption
<1>3. /\ Len(taken) <= Len(begun)
      /\ SubSeq(begun, 1, Len(taken)) = taken
      /\ SubSeq(begun, Len(taken) + 1, Len(begun)) = list
  BY ONLY <1>1, <1>2, taken \in Seq(Message), LaidOut
<1> QED
  BY <1>1, <1>3

LEMMA SequencesNow ==
  ASSUME TypeInv
  PROVE  /\ Begun \in Seq(Messages) /\ Taken \in Seq(Message)
         /\ sent \in Seq(Messages) /\ Begun \in Seq(Message)
         /\ returned \in Seq(Message) /\ messages \in Seq(Message)
         /\ wire \in Seq(OnWire) /\ toWrite \in Seq(OnWire)
<1>1. /\ sent \in Seq(Messages) /\ returned \in Seq(Message) /\ messages \in Seq(Message)
      /\ wire \in Seq(OnWire) /\ toWrite \in Seq(Fragment)
      /\ toWrite # << >> => writing \in Messages
  BY DEF TypeInv, TypeOK, OnWire
<1>2. Begun \in Seq(Messages)
  BY <1>1, AppendAt DEF Begun
<1>3. Taken \in Seq(Message)
  BY <1>1, JoinAt DEF Taken
<1>4. toWrite \in Seq(OnWire)
  BY <1>1 DEF OnWire
<1>5. Begun \in Seq(Message)
  <2>1. PICK b : b = Begun
    OBVIOUS
  <2>2. b \in Seq(Message)
    BY <1>2, <2>1, MessagesAssumption
  <2> QED
    BY <2>1, <2>2
<1> QED
  BY <1>1, <1>2, <1>3, <1>4, <1>5

LEMMA WholeNow ==
  ASSUME TypeInv, NothingLostInv, faults = 0
  PROVE  Whole(Begun, Taken, pending, wire \o toWrite)
<1>1. PICK b, t : b = Begun /\ t = Taken
  OBVIOUS
<1>2. b \in Seq(Messages) /\ t \in Seq(Message)
  BY <1>1, SequencesNow
<1>3. /\ Len(t) <= Len(b) /\ t = SubSeq(b, 1, Len(t))
      /\ Splits(SubSeq(b, Len(t) + 1, Len(b)), pending, wire \o toWrite)
  BY <1>1 DEF NothingLostInv, Coming
<1>4. PICK list : list = SubSeq(b, Len(t) + 1, Len(b))
  OBVIOUS
<1>5. Len(t) \in 0 .. Len(b)
  BY <1>2, <1>3
<1>6. list \in Seq(Messages) /\ SubSeq(b, 1, Len(t)) \o list = b
  BY ONLY <1>2, <1>4, <1>5, DropAt, TakeDrop
<1> QED
  BY <1>1, <1>3, <1>4, <1>6 DEF Whole

\* The same after a step.
LEMMA LostNothingNext ==
  ASSUME TypeInv', faults' = 0 => Whole(Begun', Taken', pending', wire' \o toWrite')
  PROVE  NothingLostInv'
<1> SUFFICES ASSUME faults' = 0 PROVE NothingLostInv'
  BY DEF NothingLostInv
<1>1. Taken' \in Seq(Message)
  BY JoinAt DEF TypeInv, TypeOK, Taken
<1>2. /\ Len(Taken') <= Len(Begun')
      /\ Taken' = SubSeq(Begun', 1, Len(Taken'))
      /\ Splits(SubSeq(Begun', Len(Taken') + 1, Len(Begun')), pending', wire' \o toWrite')
  BY <1>1, WholeParts
<1> QED
  BY <1>2 DEF NothingLostInv, Coming

LEMMA InitLostNothing == Init => SafeInv
<1> SUFFICES ASSUME Init PROVE SafeInv
  OBVIOUS
<1>1. AlignedInv
  BY InitAligned
<1>2. << >> \o << >> = << >> /\ Len(<< >>) = 0 /\ SubSeq(<< >>, 1, 0) = << >>
  OBVIOUS
<1>3. Taken = << >> /\ Begun = << >> /\ wire \o toWrite = << >>
  BY <1>2 DEF Init, Taken, Begun
<1>4. Coming = << >>
  BY <1>2, <1>3 DEF Coming
<1>5. NothingLostInv
  BY <1>2, <1>3, <1>4 DEF NothingLostInv, Splits, Init
<1> QED
  BY <1>1, <1>5 DEF SafeInv, AlignedInv, GatheredInCall, Init

LEMMA StartLosesNothing ==
  ASSUME SafeInv, NEW message \in Messages, StartMessage(message), faults = 0
  PROVE  Whole(Begun', Taken', pending', wire' \o toWrite')
<1>1. /\ toWrite = << >> /\ toWrite' = Cut(message) /\ writing' = message
      /\ UNCHANGED << sent, returned, messages, pending, wire >>
  BY DEF StartMessage, decoder, Cut
<1>2. Cut(message) # << >> /\ Cut(message) \in Seq(Fragment)
  BY CutParts
<1>3. TypeInv
  BY DEF SafeInv
<1>4. /\ Begun = sent /\ Begun' = Append(sent, message) /\ Taken' = Taken
      /\ wire \o toWrite = wire
  <2>1. wire \o << >> = wire
    BY <1>3, SequencesNow, JoinEmpty
  <2> QED
    BY <1>1, <1>2, <2>1 DEF Begun, Taken
<1>5. PICK list \in Seq(Messages) :
        /\ sent = Taken \o list
        /\ Splits(list, pending, wire)
  BY <1>3, <1>4, WholeNow DEF SafeInv, Whole
<1>6. Append(list, message) \in Seq(Messages)
  BY AppendAt
<1>7. Append(sent, message) = Taken \o Append(list, message)
  <2>1. PICK t : t = Taken
    OBVIOUS
  <2>2. t \in Seq(Message) /\ list \in Seq(Message) /\ message \in Message
    BY <1>3, <2>1, SequencesNow, MessagesAssumption
  <2>3. t \o Append(list, message) = Append(t \o list, message)
    BY ONLY <2>2, JoinAppend
  <2> QED
    BY <1>5, <2>1, <2>3
<1>8. Splits(Append(list, message), pending, wire \o Cut(message))
  BY <1>5, SplitsMore
<1> QED
  BY <1>1, <1>4, <1>6, <1>7, <1>8 DEF Whole

LEMMA WriteLosesNothing ==
  ASSUME SafeInv, WritePacket, faults = 0
  PROVE  Whole(Begun', Taken', pending', wire' \o toWrite')
<1>1. /\ toWrite # << >> /\ wire' = Append(wire, Head(toWrite)) /\ toWrite' = Tail(toWrite)
      /\ sent' = IF Len(toWrite) = 1 THEN Append(sent, writing) ELSE sent
      /\ UNCHANGED << writing, returned, messages, pending >>
  BY DEF WritePacket, PutOnLine, decoder
<1>2. TypeInv
  BY DEF SafeInv
<1>3. PICK w, t : w = wire /\ t = toWrite
  OBVIOUS
<1>4. w \in Seq(OnWire) /\ t \in Seq(OnWire) /\ t # << >>
  BY <1>1, <1>2, <1>3, SequencesNow
<1>5. Append(w, Head(t)) \o Tail(t) = w \o t
  BY ONLY <1>4, MoveHead
<1>6. wire' \o toWrite' = wire \o toWrite
  BY <1>1, <1>3, <1>5
<1>7. Begun' = Begun
  <2>1. /\ Tail(t) \in Seq(OnWire) /\ Len(t) \in Nat \ {0} /\ Len(Tail(t)) = Len(t) - 1
    BY <1>4, TailAt
  <2>2. Tail(t) = << >> <=> Len(t) = 1
    <3>1. Tail(t) = << >> => Len(Tail(t)) = 0
      <4>1. Len(<< >>) = 0
        OBVIOUS
      <4> QED
        BY ONLY <4>1
    <3>2. Len(Tail(t)) = 0 => Tail(t) = << >>
      BY ONLY <2>1, NoItems
    <3> QED
      BY <2>1, <3>1, <3>2
  <2> QED
    BY <1>1, <1>3, <2>2 DEF Begun
<1>8. Taken' = Taken
  BY <1>1 DEF Taken
<1> QED
  BY <1>1, <1>2, <1>6, <1>7, <1>8, WholeNow DEF SafeInv

\* As long as the device had no fault, what is next on the line continues what
\* is held or ends it.
LEMMA NextFits ==
  ASSUME SafeInv, faults = 0, wire # << >>
  PROVE  /\ Head(wire) \in Fragment
         /\ ~Interrupts(pending, Head(wire))
         /\ Head(wire).pbf =>
              Whole(Begun, Taken, Merged(pending, Head(wire)), Tail(wire) \o toWrite)
         /\ ~Head(wire).pbf =>
              /\ Merged(pending, Head(wire)) \in Messages
              /\ Whole(Begun, Append(Taken, Merged(pending, Head(wire))), NoMessage,
                       Tail(wire) \o toWrite)
<1>1. TypeInv
  BY DEF SafeInv
<1>2. PICK list \in Seq(Messages) :
        /\ Begun = Taken \o list
        /\ Splits(list, pending, wire \o toWrite)
  BY <1>1, WholeNow DEF SafeInv, Whole
<1>3. PICK w, t, p, packets : w = wire /\ t = toWrite /\ p = Head(wire) /\ packets = w \o t
  OBVIOUS
<1>4. /\ packets # << >> /\ p = Head(packets) /\ Tail(packets) = Tail(w) \o t
  <2>1. w \in Seq(OnWire) /\ t \in Seq(OnWire) /\ w # << >>
    BY <1>1, <1>3, SequencesNow
  <2>2. packets # << >> /\ Head(packets) = Head(w) /\ Tail(packets) = Tail(w) \o t
    BY ONLY <1>3, <2>1, JoinHead
  <2> QED
    BY <1>3, <2>2
<1>5. Splits(list, pending, packets)
  BY <1>2, <1>3
<1>6. /\ list # << >>
      /\ p \in Fragment
      /\ ~Interrupts(pending, p)
      /\ p.pbf => Splits(list, Merged(pending, p), Tail(packets))
      /\ ~p.pbf => /\ Merged(pending, p) = Head(list)
                   /\ Splits(Tail(list), NoMessage, Tail(packets))
  BY <1>4, <1>5, SplitsTake
<1>7. ASSUME p.pbf PROVE Whole(Begun, Taken, Merged(pending, p), Tail(packets))
  BY <1>2, <1>6, <1>7 DEF Whole
<1>8. ASSUME ~p.pbf
      PROVE  /\ Merged(pending, p) \in Messages
             /\ Whole(Begun, Append(Taken, Merged(pending, p)), NoMessage, Tail(packets))
  <2>1. /\ Merged(pending, p) = Head(list) /\ Head(list) \in Messages
        /\ Splits(Tail(list), NoMessage, Tail(packets))
        /\ Tail(list) \in Seq(Messages)
    BY <1>6, <1>8, TailAt
  <2>2. PICK k : k = Taken
    OBVIOUS
  <2>3. k \in Seq(Message) /\ list \in Seq(Message)
    BY <1>1, <2>2, SequencesNow, MessagesAssumption
  <2>4. Append(k, Head(list)) \o Tail(list) = k \o list
    BY ONLY <1>6, <2>3, MoveHead
  <2>5. Begun = Append(Taken, Merged(pending, p)) \o Tail(list)
    BY <1>2, <2>1, <2>2, <2>4
  <2> QED
    BY <2>1, <2>5 DEF Whole
<1> QED
  BY <1>3, <1>4, <1>6, <1>7, <1>8

LEMMA DecodeLosesNothing ==
  ASSUME SafeInv, DecodeNext, faults = 0
  PROVE  Whole(Begun', Taken', pending', wire' \o toWrite')
<1>1. PICK result : result = TryDecodePacket(buffer)
  OBVIOUS
<1>2. /\ result.kind = "decoded"
      /\ Accumulate(result.packet)
      /\ wire' = Tail(wire)
      /\ UNCHANGED << toWrite, writing, sent, returned >>
  BY <1>1 DEF DecodeNext, device
<1>3. wire # << >> /\ result.packet = Head(wire)
  BY <1>1, <1>2, DecodedHead DEF SafeInv, AlignedInv
<1>4. Begun' = Begun
  BY <1>2 DEF Begun
<1>5. PICK p : p = Head(wire)
  OBVIOUS
<1>6. CASE p.pbf
  <2>1. pending' = Merged(pending, p) /\ messages' = messages
    BY <1>2, <1>3, <1>5, <1>6 DEF Accumulate
  <2>2. Taken' = Taken
    BY <1>2, <2>1 DEF Taken
  <2> QED
    BY <1>2, <1>3, <1>4, <1>5, <1>6, <2>1, <2>2, NextFits
<1>7. CASE ~p.pbf
  <2>1. pending' = NoMessage /\ messages' = Append(messages, Merged(pending, p))
    BY <1>2, <1>3, <1>5, <1>7 DEF Accumulate
  <2>2. Merged(pending, p) \in Message
    BY <1>3, <1>5, <1>7, NextFits, MessagesAssumption
  <2>3. returned \in Seq(Message) /\ messages \in Seq(Message)
    BY SequencesNow DEF SafeInv
  <2>4. Taken' = Append(Taken, Merged(pending, p))
    <3>1. PICK r, s, m : r = returned /\ s = messages /\ m = Merged(pending, p)
      OBVIOUS
    <3>2. r \o Append(s, m) = Append(r \o s, m)
      BY <2>2, <2>3, <3>1, JoinAppend
    <3> QED
      BY <1>2, <2>1, <3>1, <3>2 DEF Taken
  <2> QED
    BY <1>2, <1>3, <1>4, <1>5, <1>7, <2>1, <2>4, NextFits
<1> QED
  BY <1>6, <1>7
\* Without a fault there is no call of feed that raises.
LEMMA NeverRaises ==
  ASSUME SafeInv, faults = 0
  PROVE  /\ TryDecodePacket(buffer) # Malformed
         /\ TryDecodePacket(buffer).kind = "decoded" =>
              ~Interrupts(pending, TryDecodePacket(buffer).packet)
<1>1. PICK result : result = TryDecodePacket(buffer)
  OBVIOUS
<1>2. AlignedInv
  BY DEF SafeInv, AlignedInv
<1>3. ASSUME result = Malformed PROVE FALSE
  <2>1. /\ wire \in Seq(OnWire) /\ buffer \in Seq(Byte) /\ line \in Seq(Byte)
        /\ buffer \o line = Bytes(wire)
    BY <1>2, WireType DEF AlignedInv, FrameAligned
  <2>2. Malformed # Incomplete /\ \A p, size : Malformed # Decoded(p, size)
    BY DEF Malformed, Incomplete, Decoded
  <2>3. wire # << >> /\ Head(wire) \in Unknown
    BY <1>1, <1>3, <2>1, <2>2, HeadDecides
  <2>4. Head(wire).mt \in MessageType
    BY <2>3, NextFits, FragmentFits, PacketParts
  <2>5. PICK mt \in UnknownTypes : Head(wire) = UnknownPacket(mt)
    BY <2>3 DEF Unknown
  <2>6. Head(wire).mt = mt
    BY ONLY <2>5 DEF UnknownPacket
  <2> QED
    BY <2>4, <2>5, <2>6, UnknownTypesAssumption
<1>4. ASSUME result.kind = "decoded" PROVE ~Interrupts(pending, result.packet)
  BY <1>1, <1>2, <1>4, DecodedHead, NextFits
<1> QED
  BY <1>1, <1>3, <1>4

\* A step of the decoder that leaves the packets and what is taken alone.
LEMMA SameWhole ==
  ASSUME SafeInv, faults = 0, UNCHANGED device, UNCHANGED << wire, pending >>,
         Taken' = Taken
  PROVE  Whole(Begun', Taken', pending', wire' \o toWrite')
<1>1. Begun' = Begun /\ toWrite' = toWrite
  BY DEF Begun, device
<1> QED
  BY <1>1, WholeNow DEF SafeInv

LEMMA ReturnKeepsTaken ==
  ASSUME SafeInv, Return
  PROVE  Taken' = Taken
<1>1. returned \in Seq(Message) /\ messages \in Seq(Message)
  BY SequencesNow DEF SafeInv
<1>2. PICK t : t = returned \o messages
  OBVIOUS
<1>3. t \o << >> = t
  <2>1. t \in Seq(Message)
    BY <1>1, <1>2, JoinAt
  <2> QED
    BY ONLY <2>1, JoinEmpty
<1> QED
  BY <1>2, <1>3 DEF Return, Taken

\* Whatever the step is, nothing is lost unless there has been a fault.
LEMMA StepLosesNothing ==
  ASSUME SafeInv, [Next]_vars, faults' = 0
  PROVE  Whole(Begun', Taken', pending', wire' \o toWrite')
<1> DEFINE Goal == Whole(Begun', Taken', pending', wire' \o toWrite')
<1>1. faults \in Nat
  BY BoundsAssumption DEF SafeInv, TypeInv, TypeOK
<1>2. ASSUME NEW message \in Messages, StartMessage(message) PROVE Goal
  <2>1. faults = 0
    BY <1>2 DEF StartMessage
  <2> QED
    BY <1>2, <2>1, StartLosesNothing
<1>3. CASE WritePacket
  <2>1. faults = 0
    BY <1>3 DEF WritePacket
  <2> QED
    BY <1>3, <2>1, WriteLosesNothing
<1>4. CASE AbandonMessage
  BY <1>1, <1>4 DEF AbandonMessage
<1>5. ASSUME NEW mt \in UnknownTypes, WriteUnknown(mt) PROVE Goal
  BY <1>1, <1>5 DEF WriteUnknown
<1>6. ASSUME NEW size \in 1 .. ChunkSize, Feed(size) PROVE Goal
  <2>1. Taken' = Taken
    BY <1>6 DEF Feed, Taken, SafeInv, GatheredInCall
  <2> QED
    BY <1>6, <2>1, SameWhole DEF Feed, device
<1>7. CASE DecodeNext
  <2>1. faults = 0
    BY <1>7 DEF DecodeNext, device
  <2> QED
    BY <1>7, <2>1, DecodeLosesNothing
<1>8. CASE RaiseInterrupted
  <2>1. faults = 0
    BY <1>8 DEF RaiseInterrupted, device
  <2> QED
    BY <1>8, <2>1, NeverRaises DEF RaiseInterrupted
<1>9. CASE RaiseUnknown
  <2>1. faults = 0
    BY <1>9 DEF RaiseUnknown, device
  <2> QED
    BY <1>9, <2>1, NeverRaises DEF RaiseUnknown
<1>10. CASE Return
  BY <1>10, ReturnKeepsTaken, SameWhole DEF Return, device
<1>11. CASE UNCHANGED vars
  BY <1>11, SameWhole DEF vars, device, decoder, Taken
<1> QED
  BY <1>2, <1>3, <1>4, <1>5, <1>6, <1>7, <1>8, <1>9, <1>10, <1>11
     DEF Next, Device, Read, InFeed

LEMMA StepGathered == SafeInv /\ [Next]_vars => GatheredInCall'
<1> SUFFICES ASSUME SafeInv, [Next]_vars PROVE GatheredInCall'
  OBVIOUS
<1> USE DEF SafeInv, GatheredInCall
<1>1. CASE Device
  BY <1>1 DEF Device, StartMessage, WritePacket, AbandonMessage, WriteUnknown, decoder
<1>2. CASE Read
  BY <1>2 DEF Read, Feed
<1>3. CASE InFeed
  BY <1>3 DEF InFeed, DecodeNext, RaiseInterrupted, RaiseUnknown, Return
<1>4. CASE UNCHANGED vars
  BY <1>4 DEF vars, decoder
<1> QED
  BY <1>1, <1>2, <1>3, <1>4 DEF Next

LEMMA StepSafe == SafeInv /\ [Next]_vars => SafeInv'
<1> SUFFICES ASSUME SafeInv, [Next]_vars PROVE SafeInv'
  OBVIOUS
<1>1. AlignedInv'
  BY StepAligned DEF SafeInv, AlignedInv
<1>2. NothingLostInv'
  BY <1>1, StepLosesNothing, LostNothingNext DEF AlignedInv
<1> QED
  BY <1>1, <1>2, StepGathered DEF SafeInv, AlignedInv

\* The inductive invariant holds, however the stream is cut and whatever raises.
THEOREM SafeInvariant == Safety => []SafeInv
  BY InitLostNothing, StepSafe, PTL DEF Safety

\* What the device has begun is, in order and without a packet too many, what
\* feed has put together and what the packets not yet taken off continue.
THEOREM NothingLost == Safety => []NothingLostInv
<1>1. SafeInv => NothingLostInv
  BY DEF SafeInv
<1> QED
  BY <1>1, SafeInvariant, PTL

\* feed raises only if the device left a message unfinished or sent a packet of
\* a type that has no name, however the reads cut the stream.
THEOREM RaisesOnlyOnFault == Safety => []RaiseNeedsFault
<1>1. SafeInv => RaiseNeedsFault
  BY NeverRaises DEF RaiseNeedsFault
<1> QED
  BY <1>1, SafeInvariant, PTL

-----------------------------------------------------------------------------
(* The abstract channel.                                                    *)

LEMMA SendImplements ==
  ASSUME SafeInv, SafeInv', WritePacket
  PROVE  [Channel!Next]_(Channel!vars)
<1>1. /\ sent' = IF Len(toWrite) = 1 THEN Append(sent, writing) ELSE sent
      /\ returned' = returned /\ toWrite # << >>
  BY DEF WritePacket, decoder
<1>2. CASE Len(toWrite) = 1
  <2>1. PICK s, e : s = sent /\ e = writing
    OBVIOUS
  <2>2. s \in Seq(Messages) /\ e \in Messages
    BY <1>1, <2>1 DEF SafeInv, TypeInv, TypeOK
  <2>3. << e >> \in Seq(Messages) /\ Append(s, e) = s \o << e >>
    BY <2>2
  <2>4. /\ Append(s, e) \in Seq(Messages) /\ Len(Append(s, e)) = Len(s) + 1
        /\ SubSeq(Append(s, e), 1, Len(s)) = s
    BY ONLY <2>2, <2>3, AppendAt, LaidOut
  <2>5. Channel!Send
    BY <1>1, <1>2, <2>1, <2>4 DEF Channel!Send
  <2> QED
    BY <2>5 DEF Channel!Next
<1>3. CASE Len(toWrite) # 1
  BY <1>1, <1>3 DEF Channel!vars
<1> QED
  BY <1>2, <1>3

\* What a call of feed returns was all written to its last packet: of a message
\* that is still being written something is to come.
LEMMA ReturnImplements ==
  ASSUME SafeInv, faults = 0, Return
  PROVE  [Channel!Next]_(Channel!vars)
<1>1. returned' = returned \o messages /\ sent' = sent
  BY DEF Return, device
<1>2. /\ returned \in Seq(Message) /\ messages \in Seq(Message)
      /\ sent \in Seq(Messages) /\ sent \in Seq(Message)
  BY SequencesNow, MessagesAssumption DEF SafeInv
<1>3. PICK list \in Seq(Messages) :
        /\ Begun = Taken \o list
        /\ Splits(list, pending, wire \o toWrite)
  BY WholeNow DEF SafeInv, Whole
<1>4. PICK taken, r, g, n : /\ taken = Taken /\ r = returned /\ g = messages
                            /\ n = Len(taken)
  OBVIOUS
<1>5. taken \in Seq(Message) /\ list \in Seq(Message) /\ taken = r \o g
  BY <1>3, <1>4, SequencesNow, MessagesAssumption DEF SafeInv, Taken
<1>6. n \in Nat /\ n <= Len(sent) /\ SubSeq(sent, 1, n) = taken
  <2>1. CASE toWrite = << >>
    <3>1. sent = taken \o list
      BY <1>3, <1>4, <2>1 DEF Begun
    <3> QED
      BY ONLY <1>4, <1>5, <3>1, LaidOut
  <2>2. CASE toWrite # << >>
    <3>1. PICK s, e : s = sent /\ e = writing
      OBVIOUS
    <3>2. s \in Seq(Message) /\ e \in Message /\ << e >> \in Seq(Message)
      BY <1>2, <2>2, <3>1, MessagesAssumption DEF SafeInv, TypeInv
    <3>3. Append(s, e) = taken \o list
      <4>1. Begun = Append(s, e)
        BY ONLY <2>2, <3>1 DEF Begun
      <4> QED
        BY ONLY <1>3, <1>4, <4>1
    <3>4. list # << >>
      <4>1. wire \in Seq(OnWire) /\ toWrite \in Seq(OnWire)
        BY SequencesNow DEF SafeInv
      <4>2. Len(wire \o toWrite) # 0
        <5>1. /\ Len(wire \o toWrite) = Len(wire) + Len(toWrite)
              /\ Len(wire) \in Nat /\ Len(toWrite) \in Nat
          BY <4>1, JoinAt
        <5>2. Len(toWrite) # 0
          BY <2>2, <4>1, NoItems
        <5> QED
          BY <5>1, <5>2
      <4>3. wire \o toWrite # << >>
        BY <4>2
      <4> QED
        BY <1>3, <4>3 DEF Splits
    <3>5. Len(list) \in Nat /\ Len(list) # 0
      BY <1>5, <3>4, NoItems
    <3>6. PICK all : all = Append(s, e)
      OBVIOUS
    <3>7. n \in Nat /\ n <= Len(all) /\ SubSeq(all, 1, n) = taken
      <4>1. all = taken \o list
        BY ONLY <3>3, <3>6
      <4>2. Len(taken) \in Nat /\ Len(taken) <= Len(all) /\ SubSeq(all, 1, Len(taken)) = taken
        BY ONLY <1>5, <4>1, LaidOut
      <4> QED
        BY ONLY <1>4, <4>2
    <3>8. Len(all) = n + Len(list) /\ Len(all) = Len(s) + 1 /\ Len(s) \in Nat
      <4>1. Len(all) = Len(s) + 1 /\ Len(s) \in Nat
        BY ONLY <3>2, <3>6, AppendAt
      <4>2. Len(taken \o list) = Len(taken) + Len(list)
        BY ONLY <1>5, JoinAt
      <4> QED
        BY <1>4, <3>3, <3>6, <4>1, <4>2
    <3>9. n <= Len(s)
      BY ONLY <3>5, <3>7, <3>8
    <3>10. /\ \A i \in 1 .. Len(s) : all[i] = s[i]
           /\ all \in Seq(Message)
      BY ONLY <3>2, <3>6, AppendAt
    <3>11. SubSeq(all, 1, n) = SubSeq(s, 1, n)
      <4>1. PICK a, b : a = SubSeq(all, 1, n) /\ b = SubSeq(s, 1, n)
        OBVIOUS
      <4>2. /\ a \in Seq(Message) /\ Len(a) = n /\ \A i \in 1 .. n : a[i] = all[i]
        BY ONLY <3>7, <3>10, <4>1
      <4>3. /\ b \in Seq(Message) /\ Len(b) = n /\ \A i \in 1 .. n : b[i] = s[i]
        BY ONLY <3>2, <3>7, <3>8, <3>9, <4>1
      <4>4. Len(a) = Len(b) /\ \A i \in 1 .. Len(a) : a[i] = b[i]
        BY ONLY <3>7, <3>8, <3>9, <3>10, <4>2, <4>3
      <4> QED
        BY ONLY <4>1, <4>2, <4>3, <4>4, SameItems
    <3> QED
      BY <3>1, <3>7, <3>9, <3>11
  <2> QED
    BY <2>1, <2>2
<1>7. CASE g = << >>
  <2>1. returned' = returned
    BY <1>1, <1>2, <1>4, <1>7, JoinEmpty
  <2> QED
    BY <1>1, <2>1 DEF Channel!vars
<1>8. CASE g # << >>
  <2>1. Len(g) \in Nat /\ Len(g) # 0
    BY <1>2, <1>4, <1>8, NoItems
  <2>2. n = Len(r) + Len(g) /\ Len(r) \in Nat
    BY <1>2, <1>4, <1>5, JoinAt
  <2>3. Len(sent) \in Nat
    BY <1>2
  <2>4. n \in Len(returned) + 1 .. Len(sent)
    BY <1>4, <1>6, <2>1, <2>2, <2>3
  <2>5. returned' = SubSeq(sent, 1, n)
    BY <1>1, <1>4, <1>5, <1>6
  <2>6. Channel!Deliver
    BY <1>1, <2>4, <2>5 DEF Channel!Deliver
  <2> QED
    BY <2>6 DEF Channel!Next
<1> QED
  BY <1>7, <1>8

LEMMA ChannelStepImplements ==
  ASSUME SafeInv, SafeInv', MaxFaults = 0, [Next]_vars
  PROVE  [Channel!Next]_(Channel!vars)
<1>1. faults = 0
  BY DEF SafeInv, TypeInv, TypeOK
<1>2. CASE WritePacket
  BY <1>2, SendImplements
<1>3. CASE Return
  BY <1>1, <1>3, ReturnImplements
<1>4. CASE Device /\ ~WritePacket
  BY <1>4 DEF Device, StartMessage, AbandonMessage, WriteUnknown, decoder, Channel!vars
<1>5. CASE Read
  BY <1>5 DEF Read, Feed, device, Channel!vars
<1>6. CASE InFeed /\ ~Return
  BY <1>6 DEF InFeed, DecodeNext, RaiseInterrupted, RaiseUnknown, device, Channel!vars
<1>7. CASE UNCHANGED vars
  BY <1>7 DEF vars, decoder, device, Channel!vars
<1> QED
  BY <1>2, <1>3, <1>4, <1>5, <1>6, <1>7 DEF Next

\* Of a device without faults, the messages that feed returns are the messages
\* the device wrote, in order, none twice, none left out before one that came:
\* the decoder implements the safety part of FifoChannel.
THEOREM ImplementsChannelSafety == MaxFaults = 0 /\ Safety => Channel!Safety
<1> SUFFICES ASSUME MaxFaults = 0 PROVE Safety => Channel!Safety
  OBVIOUS
<1>1. Init => Channel!Init
  BY DEF Init, Channel!Init
<1>2. SafeInv /\ SafeInv' /\ [Next]_vars => [Channel!Next]_(Channel!vars)
  BY ChannelStepImplements
<1> QED
  BY <1>1, <1>2, InitLostNothing, StepSafe, PTL DEF Safety, Channel!Safety

-----------------------------------------------------------------------------
(* FrameArrival: one frame of any size, and bytes that need not be packets. *)

FrameInRange ==
  /\ frame \in Frames
  /\ trailer \in Trailers
  /\ arrived \in 0 .. FrameSize + Len(trailer)

LEMMA FrameOnItsWay ==
  ASSUME NEW f \in Frames, NEW t \in Trailers
  PROVE  /\ f \in Packet /\ Len(f.payload) < 256 * 256 /\ t \in Seq(Byte)
         /\ HeaderSize + Len(f.payload) \in Nat /\ Len(t) \in Nat
  BY FramesAssumption, LengthsAssumption, TrailersAssumption, PacketParts DEF HeaderSize

LEMMA FrameStaysInRange == ArrivalSpec => []FrameInRange
<1>1. ArrivalInit => FrameInRange
  BY FrameOnItsWay DEF ArrivalInit, FrameInRange, FrameSize
<1>2. FrameInRange /\ [Arrive]_arrivalVars => FrameInRange'
  BY FrameOnItsWay DEF FrameInRange, Arrive, arrivalVars, FrameSize
<1> QED
  BY <1>1, <1>2, PTL DEF ArrivalSpec

LEMMA ArrivedDecodes ==
  ASSUME FrameInRange
  PROVE  DecodedOnceComplete /\ DelimitedFrameOnly
<1>1. PICK f, t, n, bytes, all, prefix, size, after :
        /\ f = frame /\ t = trailer /\ n = arrived
        /\ bytes = EncodePacket(f) /\ all = bytes \o t /\ prefix = SubSeq(all, 1, n)
        /\ size = HeaderSize + Len(f.payload) /\ after = Len(t)
  OBVIOUS
<1>2. /\ f \in Packet /\ Len(f.payload) < 256 * 256 /\ t \in Seq(Byte)
      /\ n \in 0 .. size + after
  BY <1>1, FrameOnItsWay DEF FrameInRange, FrameSize
<1>3. bytes \in Seq(Byte) /\ Len(bytes) = size
  BY <1>1, <1>2, EncodedAt DEF HeaderSize
<1>4. /\ all \in Seq(Byte) /\ Len(all) = size + after
      /\ size \in Nat /\ after \in Nat
      /\ \A i \in 1 .. size : all[i] = bytes[i]
  BY ONLY <1>1, <1>2, <1>3, JoinAt
<1>5. ReadsFirst(prefix, n, f, size)
  <2>1. /\ f \in Packet /\ Len(f.payload) < 256 * 256
        /\ size = HeaderSize + Len(f.payload)
        /\ bytes = EncodePacket(f)
        /\ all \in Seq(Byte) /\ \A i \in 1 .. size : all[i] = bytes[i]
        /\ n \in Nat /\ n <= Len(all)
        /\ prefix = SubSeq(all, 1, n)
    BY ONLY <1>1, <1>2, <1>4
  <2> QED
    BY ONLY <2>1, PrefixDecodes, Zenon
<1>6. prefix = Arrived /\ size = FrameSize
  BY <1>1 DEF Arrived, FrameSize
<1> QED
  BY <1>1, <1>5, <1>6 DEF ReadsFirst, DecodedOnceComplete, DelimitedFrameOnly

\* try_decode_packet waits for every proper prefix of a frame and then yields
\* exactly the packet that was encoded, whatever follows it.
THEOREM DecodesWhatWasEncoded == ArrivalSpec => []DecodedOnceComplete
  BY FrameStaysInRange, ArrivedDecodes, PTL

\* decode_packet accepts a frame exactly when nothing of it is missing and
\* nothing follows it.
THEOREM AcceptsDelimitedFrames == ArrivalSpec => []DelimitedFrameOnly
  BY FrameStaysInRange, ArrivedDecodes, PTL
=============================================================================
