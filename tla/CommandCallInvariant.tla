------------------------ MODULE CommandCallInvariant ------------------------
(***************************************************************************)
(* What makes the properties of CommandCall inductive: how far the device  *)
(* has got with the packets of the command, and which answer the payload   *)
(* is the beginning of.                                                    *)
(***************************************************************************)
EXTENDS CommandCall

Whole == CommandMessage(request.method, RequestPayload(request).bytes)

Cut(message) == SplitIntoPackets(message, MaxPayloadSize)

\* What the first k packets of a message are together.
Gathered(message, k) ==
  IF k = 0 THEN NoMessage
  ELSE [ message EXCEPT !.payload =
           SubSeq(@, 1, IF k = Len(Cut(message)) THEN Len(@) ELSE k * MaxPayloadSize) ]

\* A command that could be encoded is on the line but for the packets that the
\* device has put together.
WireInv ==
  /\ phase = "calling" => ~Notified
  /\ (phase = "calling" \/ Notified) => (packets = << >> /\ received = NoMessage)
  /\ (phase = "sent" /\ ~Notified) =>
       /\ RequestPayload(request) # Raised
       /\ \E k \in 0 .. Len(Cut(Whole)) :
            /\ packets = SubSeq(Cut(Whole), k + 1, Len(Cut(Whole)))
            /\ received = Gathered(Whole, k)

Answered ==
  /\ answer \in Answers(request.method)
  /\ \E n \in 0 .. Len(Encoded(answer)) : payload = SubSeq(Encoded(answer), 1, n)

Parsed ==
  IF Notified THEN ParseNotification(request.method, payload)
  ELSE ParseResponse(request.method, payload)

AnswerInv ==
  /\ phase \in { "calling", "sent" } => result = NoResult
  /\ phase = "answered" => (Answered /\ result = NoResult)
  /\ phase = "returned" => (result = Raised \/ (Answered /\ result = Parsed))

SafeInv == TypeOK /\ WireInv /\ AnswerInv
=============================================================================
