--------------------------- MODULE StreamDecoder ----------------------------
(***************************************************************************)
(* StreamDecoder of uci/framing.py, fed by a reader with the bytes of a    *)
(* serial line onto which a device writes packets.                         *)
(*                                                                         *)
(* A call of feed is a sequence of steps: the buffer grows by the chunk,   *)
(* then packets are taken off its head until one is incomplete, when the   *)
(* messages gathered are returned, or until one raises, when they are      *)
(* forgotten with the stack frame that held them.  The device writes on    *)
(* while a call is under way.                                              *)
(*                                                                         *)
(* The device is external: it cuts each message with the same rule as      *)
(* split_into_packets.  With MaxFaults > 0 it may also leave a message     *)
(* unfinished, as one that restarts does, or send a packet type that this  *)
(* code does not know.                                                     *)
(***************************************************************************)
EXTENDS Framing, SequencesExt

CONSTANTS
  Messages,       \* what the device may send
  FragmentSize,   \* the longest payload it puts in one packet
  ChunkSize,      \* the most bytes one read returns
  UnknownTypes,   \* values of the type field outside MessageType
  MaxSent,        \* bound on the messages the device starts
  MaxFaults       \* bound on the faults of the device

ASSUME MessagesAssumption == Messages \subseteq Message
ASSUME SizesAssumption ==
  /\ FragmentSize \in 1 .. MaxPayloadSize
  /\ ChunkSize \in Nat \ {0}
ASSUME UnknownTypesAssumption == UnknownTypes \subseteq (0 .. 7) \ MessageType
ASSUME BoundsAssumption == MaxSent \in Nat /\ MaxFaults \in Nat

VARIABLES
  buffer,    \* _buffer
  pending,   \* _pending
  feeding,   \* whether a call of feed is under way
  messages,  \* the local list of that call
  line,      \* the bytes written and not yet read
  toWrite,   \* the packets of the message the device is writing
  writing,   \* that message
  started,   \* how many messages the device has started
  faults,    \* how many faults it has had
  sent,      \* history: the messages written to their last packet
  givenUp,   \* history: the messages left unfinished
  returned,  \* history: the messages all the calls of feed returned
  wire       \* history: the packets written and not yet taken off the buffer

decoder == << buffer, pending, feeding, messages, returned >>
device == << toWrite, writing, started, faults, sent, givenUp >>
vars == << decoder, device, line, wire >>

Init ==
  /\ buffer = << >>
  /\ pending = NoMessage
  /\ feeding = FALSE
  /\ messages = << >>
  /\ line = << >>
  /\ toWrite = << >>
  /\ writing = NoMessage
  /\ started = 0
  /\ faults = 0
  /\ sent = << >>
  /\ givenUp = << >>
  /\ returned = << >>
  /\ wire = << >>

-----------------------------------------------------------------------------
(* The device. *)

StartMessage(message) ==
  /\ toWrite = << >>
  /\ started < MaxSent
  /\ started' = started + 1
  /\ writing' = message
  /\ toWrite' = SplitIntoPackets(message, FragmentSize)
  /\ UNCHANGED << decoder, line, wire, faults, sent, givenUp >>

PutOnLine(packet) ==
  /\ line' = line \o EncodePacket(packet)
  /\ wire' = Append(wire, packet)

WritePacket ==
  /\ toWrite # << >>
  /\ PutOnLine(Head(toWrite))
  /\ toWrite' = Tail(toWrite)
  /\ sent' = IF Len(toWrite) = 1 THEN Append(sent, writing) ELSE sent
  /\ UNCHANGED << decoder, writing, started, faults, givenUp >>

\* What was written of the message stays on the line.
AbandonMessage ==
  /\ toWrite # << >>
  /\ faults < MaxFaults
  /\ faults' = faults + 1
  /\ toWrite' = << >>
  /\ givenUp' = Append(givenUp, writing)
  /\ UNCHANGED << decoder, line, wire, writing, started, sent >>

UnknownPacket(mt) ==
  [mt |-> mt, pbf |-> FALSE, gid |-> 0, oid |-> 0, payload |-> << >>]

WriteUnknown(mt) ==
  /\ toWrite = << >>
  /\ faults < MaxFaults
  /\ faults' = faults + 1
  /\ PutOnLine(UnknownPacket(mt))
  /\ UNCHANGED << decoder, toWrite, writing, started, sent, givenUp >>

-----------------------------------------------------------------------------
(* A call of feed. *)

\* Both callers read first and feed what they read only if it is not empty.
Feed(size) ==
  /\ ~feeding
  /\ size <= Len(line)
  /\ buffer' = buffer \o SubSeq(line, 1, size)
  /\ line' = SubSeq(line, size + 1, Len(line))
  /\ feeding' = TRUE
  /\ messages' = << >>
  /\ UNCHANGED << device, pending, returned, wire >>

\* Variant: the size of the header is not counted.
DropPacketPayloadOnly(size) ==
  buffer' = SubSeq(buffer, size - HeaderSize + 1, Len(buffer))

DropPacket(size) == buffer' = SubSeq(buffer, size + 1, Len(buffer))

\* Variant: what was gathered is not cleared when the message is complete.
AccumulateKeeping(packet) ==
  LET message == Merged(pending, packet)
  IN IF packet.pbf
     THEN pending' = message /\ messages' = messages
     ELSE pending' = message /\ messages' = Append(messages, message)

\* Variant: the flag is read the other way round.
AccumulateInverted(packet) ==
  LET message == Merged(pending, packet)
  IN IF ~packet.pbf
     THEN pending' = message /\ messages' = messages
     ELSE pending' = NoMessage /\ messages' = Append(messages, message)

\* Variant: the opcode of the message is prefixed with its group.
AccumulateKeyed(packet) ==
  LET message == Merged(pending, packet)
      keyed == [ message EXCEPT !.oid = message.gid * 256 + message.oid ]
  IN IF packet.pbf
     THEN pending' = message /\ messages' = messages
     ELSE pending' = NoMessage /\ messages' = Append(messages, keyed)

Accumulate(packet) ==
  LET message == Merged(pending, packet)
  IN IF packet.pbf
     THEN pending' = message /\ messages' = messages
     ELSE pending' = NoMessage /\ messages' = Append(messages, message)

DecodeNext ==
  /\ feeding
  /\ LET result == TryDecodePacket(buffer)
     IN /\ result.kind = "decoded"
        /\ ~Interrupts(pending, result.packet)
        /\ DropPacket(result.size)
        /\ Accumulate(result.packet)
  /\ wire' = Tail(wire)
  /\ UNCHANGED << device, line, feeding, returned >>

\* The packet is off the buffer before _accumulate raises; the fragments it
\* interrupted stay where they are.
RaiseInterrupted ==
  /\ feeding
  /\ LET result == TryDecodePacket(buffer)
     IN /\ result.kind = "decoded"
        /\ Interrupts(pending, result.packet)
        /\ DropPacket(result.size)
  /\ wire' = Tail(wire)
  /\ feeding' = FALSE
  /\ messages' = << >>
  /\ UNCHANGED << device, line, pending, returned >>

\* try_decode_packet raises before anything is taken off the buffer.
RaiseUnknown ==
  /\ feeding
  /\ TryDecodePacket(buffer) = Malformed
  /\ feeding' = FALSE
  /\ messages' = << >>
  /\ UNCHANGED << device, line, buffer, pending, returned, wire >>

Return ==
  /\ feeding
  /\ TryDecodePacket(buffer) = Incomplete
  /\ feeding' = FALSE
  /\ messages' = << >>
  /\ returned' = returned \o messages
  /\ UNCHANGED << device, line, buffer, pending, wire >>

-----------------------------------------------------------------------------
Device ==
  \/ \E message \in Messages : StartMessage(message)
  \/ WritePacket
  \/ AbandonMessage
  \/ \E mt \in UnknownTypes : WriteUnknown(mt)

Read == \E size \in 1 .. ChunkSize : Feed(size)

InFeed == DecodeNext \/ RaiseInterrupted \/ RaiseUnknown \/ Return

Next == Device \/ Read \/ InFeed

Safety == Init /\ [][Next]_vars

\* A call of feed has no wait in it and its callers read again and again.  The
\* device owes nothing.
Fairness == WF_vars(Read) /\ WF_vars(InFeed)

Spec == Safety /\ Fairness

-----------------------------------------------------------------------------
TypeOK ==
  /\ buffer \in Seq(Byte)
  /\ line \in Seq(Byte)
  /\ pending \in Message \cup {NoMessage}
  /\ feeding \in BOOLEAN
  /\ messages \in Seq(Message)
  /\ returned \in Seq(Message)
  /\ sent \in Seq(Messages)
  /\ givenUp \in Seq(Messages)
  /\ started \in 0 .. MaxSent
  /\ faults \in 0 .. MaxFaults

Bytes(packets) ==
  FlattenSeq([ i \in DOMAIN packets |-> EncodePacket(packets[i]) ])

\* However the reads cut the stream, and whatever feed has raised, the buffer
\* starts at the first byte of a packet: buffer and line together are the
\* packets not yet taken off, byte for byte.
FrameAligned == buffer \o line = Bytes(wire)

\* A device without faults never makes feed raise, whatever the chunks are.
RaiseNeedsFault ==
  faults = 0 /\ feeding =>
    LET result == TryDecodePacket(buffer)
    IN /\ result # Malformed
       /\ result.kind = "decoded" => ~Interrupts(pending, result.packet)

\* A message the device left unfinished spoils at most one of the messages that
\* feed returns, and that has its type, group and opcode: its fragments stay
\* pending while packets of other messages raise, and the next message that
\* may follow them gets them.
Spoiled == { i \in DOMAIN returned : returned[i] \notin ToSet(sent) }
SpoiledOnlyByGivenUp ==
  /\ \A i \in Spoiled : \E message \in ToSet(givenUp) : SameMessage(message, returned[i])
  /\ Cardinality(Spoiled) <= Len(givenUp)

\* The messages feed returns are the messages the device wrote, reassembled,
\* in order, each once, under every cutting of the stream into chunks; each is
\* returned in the end.  For a device without faults.
Channel == INSTANCE FifoChannel
             WITH Item <- Messages, sent <- sent, received <- returned
ImplementsChannel == Channel!Spec
=============================================================================
