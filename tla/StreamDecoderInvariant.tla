----------------------- MODULE StreamDecoderInvariant -----------------------
(***************************************************************************)
(* Why feed neither loses nor mixes messages: at every moment what it has  *)
(* returned, what it has gathered and what is still to be read are the     *)
(* messages the device has begun, cut in one place.                        *)
(***************************************************************************)
EXTENDS StreamDecoder

\* A packet the device makes of a message.
Fragment == { p \in Packet : Len(p.payload) <= MaxPayloadSize }

Unknown == { UnknownPacket(mt) : mt \in UnknownTypes }

\* What is on the line are packets, and a packet is written only of a message.
TypeInv ==
  /\ TypeOK
  /\ wire \in Seq(Fragment \cup Unknown)
  /\ toWrite \in Seq(Fragment)
  /\ writing \in Messages \cup {NoMessage}
  /\ toWrite # << >> => writing \in Messages

-----------------------------------------------------------------------------
\* The messages the device has begun.
Begun == IF toWrite = << >> THEN sent ELSE Append(sent, writing)

\* Those that the decoder has put together.
Taken == returned \o messages

Coming == SubSeq(Begun, Len(Taken) + 1, Len(Begun))

Cut(message) == SplitIntoPackets(message, FragmentSize)

CutAll(list) == FlattenSeq([ i \in DOMAIN list |-> Cut(list[i]) ])

\* What the first k packets of a message are together.
Gathered(message, k) ==
  IF k = 0 THEN NoMessage
  ELSE [ message EXCEPT !.payload = SubSeq(message.payload, 1, k * FragmentSize) ]

\* The packets are those of the list without the first ones, and these are
\* held: some of the first message and not all of it.
Splits(list, held, packets) ==
  IF list = << >> THEN held = NoMessage /\ packets = << >>
  ELSE \E k \in 0 .. Len(Cut(Head(list))) - 1 :
         /\ held = Gathered(Head(list), k)
         /\ packets = SubSeq(Cut(Head(list)), k + 1, Len(Cut(Head(list))))
                        \o CutAll(Tail(list))

\* As long as the device has had no fault, what feed has gathered, what is on
\* the line and what the device has still to write are exactly the messages
\* that are not yet put together, in order and without a packet too many.
NothingLostInv ==
  faults = 0 =>
    /\ Len(Taken) <= Len(Begun)
    /\ Taken = SubSeq(Begun, 1, Len(Taken))
    /\ Splits(Coming, pending, wire \o toWrite)

\* Messages are gathered during a call of feed only.
GatheredInCall == ~feeding => messages = << >>

SafeInv == TypeInv /\ FrameAligned /\ NothingLostInv /\ GatheredInCall
=============================================================================
