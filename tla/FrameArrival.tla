---------------------------- MODULE FrameArrival ----------------------------
(***************************************************************************)
(* One frame followed by other bytes, arriving a byte at a time: what the  *)
(* decoders of Framing say of every prefix.                                *)
(***************************************************************************)
EXTENDS Framing

CONSTANTS
  Frames,    \* the packets that are sent
  Trailers   \* the byte sequences that may follow one

ASSUME FramesAssumption == Frames \subseteq Packet
\* Only a data packet can be longer, and encode_packet cuts its length field to
\* two bytes without a word.
ASSUME LengthsAssumption == \A p \in Frames : Len(p.payload) < 256 * 256
ASSUME TrailersAssumption == Trailers \subseteq Seq(Byte)

VARIABLES
  frame,     \* the packet on its way
  trailer,   \* what follows it
  arrived    \* how many bytes have arrived

arrivalVars == << frame, trailer, arrived >>

FrameSize == HeaderSize + Len(frame.payload)

Arrived == SubSeq(EncodePacket(frame) \o trailer, 1, arrived)

ArrivalInit ==
  /\ frame \in Frames
  /\ trailer \in Trailers
  /\ arrived = 0

Arrive ==
  /\ arrived < FrameSize + Len(trailer)
  /\ arrived' = arrived + 1
  /\ UNCHANGED << frame, trailer >>

ArrivalSpec == ArrivalInit /\ [][Arrive]_arrivalVars

-----------------------------------------------------------------------------
\* try_decode_packet waits for every proper prefix of a frame and, from the
\* last byte on, yields exactly the frame that was encoded, whatever follows.
DecodedOnceComplete ==
  TryDecodePacket(Arrived) =
    IF arrived < FrameSize THEN Incomplete ELSE Decoded(frame, FrameSize)

\* decode_packet accepts a delimited frame only: not one byte less, not one
\* byte more.
DelimitedFrameOnly ==
  (DecodePacket(Arrived) # Malformed) <=> (arrived = FrameSize)
=============================================================================
