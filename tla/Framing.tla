------------------------------ MODULE Framing ------------------------------
(***************************************************************************)
(* The UCI wire format of uci/framing.py: one physical packet is a header  *)
(* of four bytes and a payload, a logical message is a payload cut into    *)
(* packets of which all but the last carry the Packet Boundary Flag.       *)
(*                                                                         *)
(* Bytes are the integers 0..255 and the shifts and masks of the code are  *)
(* divisions and remainders by powers of two.  A call that raises          *)
(* UciFramingError yields the value Malformed; try_decode_packet's None is *)
(* the value Incomplete.                                                   *)
(***************************************************************************)
EXTENDS Integers, Sequences

Byte == 0 .. 255

HeaderSize == 4
MaxPayloadSize == 255

\* The message types this code knows; the field has three bits, so 4..7 can
\* be on the wire and are not message types.
DataPacket == 0
Command == 1
Response == 2
Notification == 3
MessageType == DataPacket .. Notification

Message == [mt : MessageType, gid : 0 .. 15, oid : Byte, payload : Seq(Byte)]

\* What the constructor of UciPacket accepts.
PacketFits(mt, payload) ==
  mt # DataPacket => Len(payload) <= MaxPayloadSize

Packet ==
  { p \in [mt : MessageType, pbf : BOOLEAN, gid : 0 .. 15, oid : Byte,
           payload : Seq(Byte)] : PacketFits(p.mt, p.payload) }

-----------------------------------------------------------------------------
FirstByte(p) == p.mt * 32 + (IF p.pbf THEN 16 ELSE 0) + p.gid

\* Variant: the length of a data packet is written big-endian.
HeaderBigEndian(p) ==
  LET length == Len(p.payload)
  IN IF p.mt = DataPacket
     THEN << FirstByte(p), p.oid, (length \div 256) % 256, length % 256 >>
     ELSE << FirstByte(p), p.oid, 0, length % 256 >>

\* A data packet has a little-endian length of two bytes, any other packet a
\* length of one byte after a reserved one; both are masked, never checked.
Header(p) ==
  LET length == Len(p.payload)
  IN IF p.mt = DataPacket
     THEN << FirstByte(p), p.oid, length % 256, (length \div 256) % 256 >>
     ELSE << FirstByte(p), p.oid, 0, length % 256 >>

EncodePacket(p) == Header(p) \o p.payload

Incomplete == [kind |-> "incomplete"]
Malformed == [kind |-> "malformed"]
Decoded(p, size) == [kind |-> "decoded", packet |-> p, size |-> size]

HeaderType(buffer) == (buffer[1] \div 32) % 8

DeclaredLength(buffer) ==
  IF HeaderType(buffer) = DataPacket
  THEN buffer[3] + 256 * buffer[4]
  ELSE buffer[4]

\* The packet at the head of a buffer that holds all of it.
HeadPacket(buffer) ==
  [ mt |-> HeaderType(buffer),
    pbf |-> (buffer[1] \div 16) % 2 = 1,
    gid |-> buffer[1] % 16,
    oid |-> buffer[2],
    payload |-> SubSeq(buffer, HeaderSize + 1,
                       HeaderSize + DeclaredLength(buffer)) ]

\* The type is looked at before the length: an unknown type is an error as
\* soon as four bytes are there, whatever else has arrived.
TryDecodePacket(buffer) ==
  IF Len(buffer) < HeaderSize THEN Incomplete
  ELSE IF HeaderType(buffer) \notin MessageType THEN Malformed
  ELSE IF Len(buffer) < HeaderSize + DeclaredLength(buffer) THEN Incomplete
  ELSE Decoded(HeadPacket(buffer), HeaderSize + DeclaredLength(buffer))

\* Variant: what follows the packet is not looked at.
DecodePacketIgnoringRest(buffer) ==
  IF TryDecodePacket(buffer).kind = "decoded"
  THEN TryDecodePacket(buffer) ELSE Malformed

\* For a frame already delimited: neither too short nor followed by anything.
DecodePacket(buffer) ==
  LET result == TryDecodePacket(buffer)
  IN IF result.kind = "decoded" /\ result.size = Len(buffer)
     THEN result
     ELSE Malformed

-----------------------------------------------------------------------------
\* Variant: a payload of exactly k * max_payload bytes gets an empty tail.
PacketCountWithTail(length, maxPayload) == length \div maxPayload + 1

\* range(0, len(payload), max_payload) has this many elements; an empty
\* payload still makes one packet.
PacketCount(length, maxPayload) ==
  IF length = 0 THEN 1 ELSE (length + maxPayload - 1) \div maxPayload

Slice(payload, i, maxPayload) ==
  LET stop == i * maxPayload
  IN SubSeq(payload, (i - 1) * maxPayload + 1,
            IF stop <= Len(payload) THEN stop ELSE Len(payload))

SplitIntoPackets(message, maxPayload) ==
  LET count == PacketCount(Len(message.payload), maxPayload)
  IN [ i \in 1 .. count |->
         [ mt |-> message.mt, pbf |-> i # count,
           gid |-> message.gid, oid |-> message.oid,
           payload |-> Slice(message.payload, i, maxPayload) ] ]

-----------------------------------------------------------------------------
NoMessage == [kind |-> "none"]

SameMessage(pending, packet) ==
  /\ pending.gid = packet.gid
  /\ pending.oid = packet.oid
  /\ pending.mt = packet.mt

\* Variant: the type of the message is not looked at.
InterruptsKeyOnly(pending, packet) ==
  pending # NoMessage /\ << pending.gid, pending.oid >> # << packet.gid, packet.oid >>

\* A packet that may not follow the fragments gathered so far.
Interrupts(pending, packet) ==
  pending # NoMessage /\ ~SameMessage(pending, packet)

\* The message the fragments make once this packet is added to them.
Merged(pending, packet) ==
  [ mt |-> packet.mt, gid |-> packet.gid, oid |-> packet.oid,
    payload |-> IF pending = NoMessage THEN packet.payload
                ELSE pending.payload \o packet.payload ]
=============================================================================
