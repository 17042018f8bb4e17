------------------------------ MODULE Payloads ------------------------------
(***************************************************************************)
(* The payloads of the commands of core/client.py, and the parsers of      *)
(* their responses and of the two notifications of core/models.py.         *)
(*                                                                         *)
(* Integers are sequences of bytes as in AppConfig.  A parser that raises, *)
(* UciPayloadError, ValueError for a code outside its enum or IndexError   *)
(* for a byte that is not there, yields the value Raised.                  *)
(***************************************************************************)
EXTENDS AppConfig

CORE == 0
SESSION == 1
RANGING == 2

\* The group and the opcode of each method.
Methods ==
  [ reset |-> << CORE, 0 >>, get_device_info |-> << CORE, 2 >>,
    get_caps_raw |-> << CORE, 3 >>,
    session_init |-> << SESSION, 0 >>, session_deinit |-> << SESSION, 1 >>,
    session_set_app_config |-> << SESSION, 3 >>,
    get_session_count |-> << SESSION, 5 >>, get_session_state |-> << SESSION, 6 >>,
    ranging_start |-> << RANGING, 0 >>, ranging_stop |-> << RANGING, 1 >>,
    get_ranging_count |-> << RANGING, 3 >> ]

WithoutHandle == { "reset", "get_device_info", "get_caps_raw", "get_session_count" }

\* The notifications that have a parser.
Notifications == { "SESSION_STATUS_NTF", "RANGING_DATA_NTF" }

SessionState == 0 .. 3
RangingMeasType == 0 .. 3

\* The payload of a command, or Raised: to_bytes(4, "little") overflows before
\* anything is written.
RequestPayload(request) ==
  LET block == EncodeAppConfig(WithControlees(request.params))
      Bytes(rest) == [ kind |-> "bytes", bytes |-> ToBytes(request.handle, 4) \o rest ]
  IN IF request.method \in WithoutHandle
     THEN [ kind |-> "bytes",
            bytes |-> IF request.method = "reset" THEN << 0 >> ELSE << >> ]
     ELSE IF Len(request.handle) > 4 THEN Raised
     ELSE CASE request.method = "session_init" -> Bytes(<< request.session_type >>)
            [] request.method = "session_set_app_config" ->
                 IF block = Raised THEN Raised ELSE Bytes(block.bytes)
            [] OTHER -> Bytes(<< >>)

CommandMessage(method, payload) ==
  [ mt |-> Command, gid |-> Methods[method][1], oid |-> Methods[method][2],
    payload |-> payload ]

-----------------------------------------------------------------------------
(* The parsers.  Indices are those of the code, from 0.                     *)

\* payload[first:last]: shorter, without a word, if the payload is.
Between(payload, first, last) ==
  SubSeq(payload, first + 1, IF last < Len(payload) THEN last ELSE Len(payload))

\* payload[first:]
From(payload, first) == SubSeq(payload, first + 1, Len(payload))

\* int.from_bytes(bytes, "little")
FromBytes(bytes) ==
  SubSeq(bytes, 1, Max({ 0 } \cup { i \in DOMAIN bytes : bytes[i] # 0 }))

\* Variant: the length of a SESSION_INIT response is not looked at.
MinimumSizeUnchecked(method) ==
  CASE method = "get_device_info" -> 9
    [] method \in { "get_session_state", "get_session_count" } -> 2
    [] OTHER -> 1

\* The bytes a method takes from its response, and without which it raises.
MinimumSize(method) ==
  CASE method = "get_device_info" -> 9
    [] method = "session_init" -> 5
    [] method \in { "get_session_state", "get_session_count" } -> 2
    [] OTHER -> 1

VersionAt(payload, i) == << payload[i + 1], payload[i + 2] \div 16, payload[i + 2] % 16 >>

DeviceInfo(payload) ==
  [ kind |-> "result", status |-> payload[1],
    uci_version |-> VersionAt(payload, 1), mac_version |-> VersionAt(payload, 3),
    phy_version |-> VersionAt(payload, 5), uci_test_version |-> VersionAt(payload, 7),
    vendor_data |-> From(payload, 9) ]

SessionInitResult(payload) ==
  [ kind |-> "result", status |-> payload[1],
    session_handle |-> FromBytes(Between(payload, 1, 5)) ]

\* A count is taken from a success only, and from whatever bytes there are.
RangingCount(payload) ==
  [ kind |-> "result", status |-> payload[1],
    count |-> IF payload[1] = OK THEN FromBytes(Between(payload, 1, 5)) ELSE << "none" >> ]

ParseResponse(method, payload) ==
  IF method = "session_set_app_config" THEN ParseAppConfigResponse(payload)
  ELSE IF Len(payload) < MinimumSize(method) \/ payload[1] \notin Status THEN Raised
  ELSE CASE method = "get_device_info" -> DeviceInfo(payload)
         [] method = "get_caps_raw" ->
              [ kind |-> "result", status |-> payload[1], caps |-> From(payload, 1) ]
         [] method = "session_init" -> SessionInitResult(payload)
         [] method \in { "get_session_state", "get_session_count" } ->
              [ kind |-> "result", status |-> payload[1], value |-> payload[2] ]
         [] method = "get_ranging_count" -> RangingCount(payload)
         [] OTHER -> [ kind |-> "result", status |-> payload[1] ]

-----------------------------------------------------------------------------
ParseSessionStatus(payload) ==
  IF Len(payload) < 6 \/ payload[5] \notin SessionState THEN Raised
  ELSE [ kind |-> "result", session_id |-> FromBytes(Between(payload, 0, 4)),
         state |-> payload[5], reason_code |-> payload[6] ]

ParseRangingData(payload) ==
  IF Len(payload) < 25 \/ payload[14] \notin RangingMeasType THEN Raised
  ELSE [ kind |-> "result",
         sequence_number |-> FromBytes(Between(payload, 0, 4)),
         session_handle |-> FromBytes(Between(payload, 4, 8)),
         ranging_interval_ms |-> FromBytes(Between(payload, 9, 13)),
         measurement_type |-> payload[14],
         mac_address_size_bytes |-> IF payload[16] = 0 THEN 2 ELSE 8,
         primary_session_id |-> FromBytes(Between(payload, 16, 20)),
         n_measurements |-> payload[25],
         measurements_raw |-> From(payload, 25) ]

\* The first record, whatever the type of the measurements is.
ParseTwr(raw, size) ==
  IF Len(raw) < size + 4 \/ raw[size + 1] \notin Status THEN Raised
  ELSE [ kind |-> "result",
         mac_address |-> Reverse(Between(raw, 0, size)),
         status |-> raw[size + 1],
         is_nlos |-> raw[size + 2] # 0,
         distance_cm |-> FromBytes(Between(raw, size + 2, size + 4)) ]

\* What run_mixed_ranging takes from a RANGING_DATA_NTF: the header, and the
\* first measurement if there is one.
ParseRound(payload) ==
  LET data == ParseRangingData(payload)
      twr == ParseTwr(data.measurements_raw, data.mac_address_size_bytes)
  IN IF data = Raised THEN Raised
     ELSE IF data.n_measurements < 1 THEN data
     ELSE IF twr = Raised THEN Raised
     ELSE [ field \in DOMAIN twr \cup DOMAIN data |->
              IF field \in DOMAIN twr THEN twr[field] ELSE data[field] ]

ParseNotification(name, payload) ==
  IF name = "SESSION_STATUS_NTF" THEN ParseSessionStatus(payload) ELSE ParseRound(payload)
=============================================================================
