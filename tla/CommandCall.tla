---------------------------- MODULE CommandCall -----------------------------
(***************************************************************************)
(* One call of a method of UciClient: the request encoded and cut into     *)
(* packets, the device putting the packets together and reading them, its  *)
(* response, whole or cut short, parsed by the client.  Or one             *)
(* notification, which needs no request.  The device is external; it reads *)
(* and writes payloads as docs/protocolo-uci.md lays them out.             *)
(***************************************************************************)
EXTENDS Payloads

CONSTANTS
  Requests,   \* calls: a method and its arguments; or the name of a notification
  Answers(_)  \* what the device may mean to say, by method: what is to be returned

Names == DOMAIN Methods \cup Notifications

\* An integer that has room in so many bytes.
Number(width) ==
  { n \in Seq(Byte) : Len(n) <= width /\ (n # << >> => n[Len(n)] # 0) }

\* What docs/protocolo-uci.md has room for in each answer. Codes need not be
\* known to the client. A list of rejections comes with a refusal only, a count
\* with a success only, and a measurement has an address of the announced size.
Kind == { "result" }
Version == Byte \X (0 .. 15) \X (0 .. 15)
Rejection == [ param : Byte, status : Byte ]

DataHeader(lengths) ==
  [ kind : Kind, sequence_number : Number(4), session_handle : Number(4),
    ranging_interval_ms : Number(4), measurement_type : Byte,
    mac_address_size_bytes : { 2, 8 }, primary_session_id : Number(4),
    n_measurements : lengths ]

DataMeasured ==
  { data \in [ kind : Kind, sequence_number : Number(4), session_handle : Number(4),
               ranging_interval_ms : Number(4), measurement_type : Byte,
               mac_address_size_bytes : { 2, 8 }, primary_session_id : Number(4),
               n_measurements : Byte \ { 0 }, mac_address : Seq(Byte), status : Byte,
               is_nlos : BOOLEAN, distance_cm : Number(2) ] :
      Len(data.mac_address) = data.mac_address_size_bytes }

Answer(method) ==
  CASE method = "get_device_info" ->
         [ kind : Kind, status : Byte, uci_version : Version, mac_version : Version,
           phy_version : Version, uci_test_version : Version, vendor_data : Seq(Byte) ]
    [] method = "get_caps_raw" -> [ kind : Kind, status : Byte, caps : Seq(Byte) ]
    [] method = "session_init" -> [ kind : Kind, status : Byte, session_handle : Number(4) ]
    [] method \in { "get_session_state", "get_session_count" } ->
         [ kind : Kind, status : Byte, value : Byte ]
    [] method = "get_ranging_count" ->
         [ kind : Kind, status : { OK }, count : Number(4) ]
           \cup [ kind : Kind, status : Byte \ { OK }, count : { << "none" >> } ]
    [] method = "session_set_app_config" ->
         [ kind : Kind, status : { OK }, rejected : { << >> } ]
           \cup [ kind : Kind, status : Byte \ { OK },
                  rejected : { r \in Seq(Rejection) : Len(r) <= 255 } ]
    [] method = "SESSION_STATUS_NTF" ->
         [ kind : Kind, session_id : Number(4), state : Byte, reason_code : Byte ]
    [] method = "RANGING_DATA_NTF" -> DataHeader({ 0 }) \cup DataMeasured
    [] OTHER -> [ kind : Kind, status : Byte ]

\* The lists passed may be of any length and the integers of any size.
ASSUME RequestsAssumption ==
  \A r \in Requests :
    /\ r.method \in Names
    /\ r.handle \in Seq(Byte)
    /\ r.session_type \in Byte
    /\ r.method = "session_set_app_config" => r.params \in [AppConfigParam -> Seq(Seq(Byte))]

ASSUME AnswersAssumption == \A method \in Names : Answers(method) \subseteq Answer(method)

VARIABLES
  phase,     \* "calling", "sent", "answered", "returned"
  request,   \* the method called and its arguments
  packets,   \* packets on the line
  received,  \* the device's fragments put together
  answer,    \* the device's answer, before encoding
  payload,   \* the payload that reaches the client
  result     \* what the call returned or raised

vars == << phase, request, packets, received, answer, payload, result >>

NoResult == [ kind |-> "none" ]

Notified == request.method \in Notifications

\* For a notification there is nothing to wait for.
Init ==
  /\ request \in Requests
  /\ phase = IF Notified THEN "sent" ELSE "calling"
  /\ packets = << >>
  /\ received = NoMessage
  /\ answer = NoResult
  /\ payload = << >>
  /\ result = NoResult

\* Nothing is written unless the whole payload can be encoded.
Call ==
  /\ phase = "calling"
  /\ LET encoded == RequestPayload(request)
     IN IF encoded = Raised
        THEN /\ phase' = "returned"
             /\ result' = Raised
             /\ UNCHANGED packets
        ELSE /\ phase' = "sent"
             /\ packets' = SplitIntoPackets(CommandMessage(request.method, encoded.bytes),
                                            MaxPayloadSize)
             /\ UNCHANGED result
  /\ UNCHANGED << request, received, answer, payload >>

Receive ==
  /\ phase = "sent"
  /\ packets # << >>
  /\ received' = Merged(received, Head(packets))
  /\ packets' = Tail(packets)
  /\ UNCHANGED << phase, request, answer, payload, result >>

-----------------------------------------------------------------------------
(* How the device writes what it means.                                     *)

VersionBytes(v) == << v[1], v[2] * 16 + v[3] >>

ReplyBytes(reply) ==
  << reply.status >> \o
     CASE request.method = "get_device_info" ->
            VersionBytes(reply.uci_version) \o VersionBytes(reply.mac_version)
              \o VersionBytes(reply.phy_version) \o VersionBytes(reply.uci_test_version)
              \o reply.vendor_data
       [] request.method = "get_caps_raw" -> reply.caps
       [] request.method = "session_init" -> ToBytes(reply.session_handle, 4)
       [] request.method \in { "get_session_state", "get_session_count" } -> << reply.value >>
       [] request.method = "get_ranging_count" ->
            IF reply.status = OK THEN ToBytes(reply.count, 4) ELSE << >>
       [] request.method = "session_set_app_config" ->
            << Len(reply.rejected) >>
              \o FlattenSeq([ i \in DOMAIN reply.rejected |->
                                << reply.rejected[i].param, reply.rejected[i].status >> ])
       [] OTHER -> << >>

\* A record of another type than TWR is laid out otherwise, and the angles that
\* follow the distance are not decoded.
MeasurementBytes(data) ==
  LET twr == Reverse(data.mac_address)
               \o << data.status, IF data.is_nlos THEN 1 ELSE 0 >>
               \o ToBytes(data.distance_cm, 2) \o << 170, 170 >>
  IN IF data.measurement_type = 1 THEN twr ELSE << 0 >> \o twr

NotificationBytes(data) ==
  IF request.method = "SESSION_STATUS_NTF"
  THEN ToBytes(data.session_id, 4) \o << data.state, data.reason_code >>
  ELSE ToBytes(data.sequence_number, 4) \o ToBytes(data.session_handle, 4) \o << 0 >>
         \o ToBytes(data.ranging_interval_ms, 4)
         \o << data.measurement_type, 0, IF data.mac_address_size_bytes = 2 THEN 0 ELSE 1 >>
         \o ToBytes(data.primary_session_id, 4) \o << 0, 0, 0, 0, data.n_measurements >>
         \o FlattenSeq([ i \in 1 .. data.n_measurements |-> MeasurementBytes(data) ])

Encoded(meant) == IF Notified THEN NotificationBytes(meant) ELSE ReplyBytes(meant)

\* The response may lack any of its last bytes.
Respond ==
  /\ phase = "sent"
  /\ packets = << >>
  /\ phase' = "answered"
  /\ \E meant \in Answers(request.method) :
       LET bytes == Encoded(meant)
       IN /\ answer' = meant
          /\ \E n \in 0 .. Len(bytes) : payload' = SubSeq(bytes, 1, n)
  /\ UNCHANGED << request, packets, received, result >>

Return ==
  /\ phase = "answered"
  /\ phase' = "returned"
  /\ result' = IF Notified THEN ParseNotification(request.method, payload)
               ELSE ParseResponse(request.method, payload)
  /\ UNCHANGED << request, packets, received, answer, payload >>

Next == Call \/ Receive \/ Respond \/ Return

Spec == Init /\ [][Next]_vars

-----------------------------------------------------------------------------
(* How the device reads the TVS block: a count, then a tag, a length in     *)
(* bytes and that many bytes for each parameter.                            *)

ReadParam(reading) ==
  IF Len(reading.rest) < 2 \/ Len(reading.rest) < 2 + reading.rest[2] THEN reading
  ELSE LET length == reading.rest[2]
       IN [ rest |-> SubSeq(reading.rest, 3 + length, Len(reading.rest)),
            read |-> [ reading.read EXCEPT ![reading.rest[1]] =
                         SubSeq(reading.rest, 3, 2 + length) ] ]

NothingRead(block) == [ rest |-> Tail(block), read |-> [ tag \in Byte |-> << >> ] ]

DeviceReads(block) ==
  LET reading[n \in 0 .. Head(block)] ==
        IF n = 0 THEN NothingRead(block) ELSE ReadParam(reading[n - 1])
  IN reading[Head(block)]

-----------------------------------------------------------------------------
TypeOK ==
  /\ phase \in { "calling", "sent", "answered", "returned" }
  /\ request \in Requests
  /\ packets \in Seq(Packet)
  /\ received \in Message \cup { NoMessage }
  /\ answer \in Answers(request.method) \cup { NoResult }
  /\ payload \in Seq(Byte)
  /\ result.kind \in { "none", "raised", "result" }

\* Exactly the last packet of a command is without the boundary flag, and none
\* but the only packet of a command without payload is empty: the device has the
\* command whole at its last byte, not before and not one packet later, also
\* when the payload is exactly as long as a packet can be.
BoundaryFlagEndsMessage ==
  phase = "sent" /\ packets # << >> =>
    /\ \A i \in 1 .. Len(packets) :
         /\ packets[i] \in Packet
         /\ packets[i].pbf <=> i < Len(packets)
    /\ packets[Len(packets)].payload = << >> =>
         received = NoMessage /\ request.method \in WithoutHandle

\* Once its last packet is there the device, which knows nothing of the table
\* of widths, reads exactly what the caller passed: the handle, every value
\* whole and in its place, as many destinations as NUMBER_OF_CONTROLEES says,
\* and nothing after them - whatever number of packets the block took.
DeviceReadsConfig ==
  request.method = "session_set_app_config" /\ phase = "sent" /\ packets = << >> =>
    LET bytes == received.payload
        params == request.params
        reading == DeviceReads(SubSeq(bytes, 5, Len(bytes)))
        Width(tag) == ParamWidthBytes(tag)
        Read(tag, i) ==
          SubSeq(reading.read[tag], (i - 1) * Width(tag) + 1, i * Width(tag))
    IN /\ SubSeq(bytes, 1, 4) = ToBytes(request.handle, 4)
       /\ reading.rest = << >>
       /\ \A tag \in AppConfigParam \ { NUMBER_OF_CONTROLEES } :
            /\ Len(reading.read[tag]) = Len(params[tag]) * Width(tag)
            /\ \A i \in DOMAIN params[tag] :
                 Read(tag, i) = ToBytes(params[tag][i], Width(tag))
       /\ reading.read[NUMBER_OF_CONTROLEES] = << Len(params[DST_MAC_ADDRESS]) >>

\* The fields that take whatever bytes are left, or as many as are left.
Truncated(field) == payload # Encoded(answer) /\ field \in { "caps", "vendor_data", "count" }

\* The fields of a measurement, when it is of a type whose layout is another.
OtherLayout(field) ==
  /\ request.method = "RANGING_DATA_NTF"
  /\ answer.measurement_type # 1
  /\ field \in { "mac_address", "status", "is_nlos", "distance_cm" }

\* A call returns what the device meant, in every field, or it raises: a
\* response cut short is never read as a shorter list, a smaller number or
\* another status, and what the client has no code for is never taken for
\* something else.  The exceptions are get_ranging_count, which takes its number
\* from the bytes there are, and the measurements of a type other than TWR,
\* which are read as if they were of that type.
NeverMisread ==
  result.kind = "result" =>
    \A field \in DOMAIN answer :
      result[field] = answer[field] \/ Truncated(field) \/ OtherLayout(field)
=============================================================================
