----------------------------- MODULE AppConfig ------------------------------
(***************************************************************************)
(* The parameters of SESSION_SET_APP_CONFIG: the TVS block of              *)
(* uci/app_config.py and parse_app_config_response of core/models.py.      *)
(*                                                                         *)
(* An integer is the sequence of its bytes, least significant first and    *)
(* without zeros at the end, so to_bytes(width, "little") pads it or, when *)
(* it has more bytes than that, raises OverflowError.  A parameter has a   *)
(* list of integers; a plain integer is encoded as a list of one.  A call  *)
(* that raises yields the value Raised.                                    *)
(***************************************************************************)
EXTENDS Framing, SequencesExt

DEVICE_TYPE == \h00
RANGING_ROUND_USAGE == \h01
STS_CONFIG == \h02
MULTI_NODE_MODE == \h03
CHANNEL_NUMBER == \h04
NUMBER_OF_CONTROLEES == \h05
DEVICE_MAC_ADDRESS == \h06
DST_MAC_ADDRESS == \h07
SLOT_DURATION == \h08
RANGING_INTERVAL == \h09
AOA_RESULT_REQ == \h0D
DEVICE_ROLE == \h11
RFRAME_CONFIG == \h12
RSSI_REPORTING == \h13
PREAMBLE_CODE_INDEX == \h14
SFD_ID == \h15
SLOTS_PER_RR == \h1B
SCHEDULE_MODE == \h22
VENDOR_ID == \h27
STATIC_STS_IV == \h28
UWB_INITIATION_TIME == \h2B
HOPPING_MODE == \h2C
BLOCK_STRIDE_LENGTH == \h2D
RESULT_REPORT_CONFIG == \h2E
MAX_NUMBER_OF_MEASUREMENTS == \h32
STS_LENGTH == \h35

\* The order in which session_set_app_config lists them.
ParamOrder ==
  << DEVICE_TYPE, DEVICE_ROLE, MULTI_NODE_MODE, NUMBER_OF_CONTROLEES,
     RANGING_ROUND_USAGE, DEVICE_MAC_ADDRESS, DST_MAC_ADDRESS, CHANNEL_NUMBER,
     STS_CONFIG, RFRAME_CONFIG, SCHEDULE_MODE, PREAMBLE_CODE_INDEX, SFD_ID,
     SLOT_DURATION, RANGING_INTERVAL, SLOTS_PER_RR, VENDOR_ID, STATIC_STS_IV,
     STS_LENGTH, AOA_RESULT_REQ, RESULT_REPORT_CONFIG, UWB_INITIATION_TIME,
     HOPPING_MODE, BLOCK_STRIDE_LENGTH, RSSI_REPORTING,
     MAX_NUMBER_OF_MEASUREMENTS >>

AppConfigParam == ToSet(ParamOrder)

ParamWidthBytes(tag) ==
  CASE tag \in { DEVICE_MAC_ADDRESS, DST_MAC_ADDRESS, SLOT_DURATION, VENDOR_ID,
                 MAX_NUMBER_OF_MEASUREMENTS } -> 2
    [] tag = RANGING_INTERVAL -> 4
    [] tag = STATIC_STS_IV -> 6
    [] tag = UWB_INITIATION_TIME -> 8
    [] OTHER -> 1

-----------------------------------------------------------------------------
Raised == [ kind |-> "raised" ]

\* Variant: the length byte of a list is not looked at.
CannotEncodeValueOnly(tag, items) ==
  \E i \in DOMAIN items : Len(items[i]) > ParamWidthBytes(tag)

\* OverflowError of to_bytes, or ValueError of bytes([ ... ]) for the length.
CannotEncode(tag, items) ==
  \/ Len(items) * ParamWidthBytes(tag) > 255
  \/ \E i \in DOMAIN items : Len(items[i]) > ParamWidthBytes(tag)

ToBytes(value, width) == [ i \in 1 .. width |-> IF i <= Len(value) THEN value[i] ELSE 0 ]

\* Variant: the declared length counts elements, not bytes.
EncodeParamCounting(tag, items) ==
  LET width == ParamWidthBytes(tag)
  IN << tag, Len(items) >>
       \o FlattenSeq([ i \in DOMAIN items |-> ToBytes(items[i], width) ])

EncodeParam(tag, items) ==
  LET width == ParamWidthBytes(tag)
  IN << tag, Len(items) * width >>
       \o FlattenSeq([ i \in DOMAIN items |-> ToBytes(items[i], width) ])

\* A config is a function from tags to lists of values.
EncodeAppConfig(config) ==
  IF \E i \in DOMAIN ParamOrder : CannotEncode(ParamOrder[i], config[ParamOrder[i]])
  THEN Raised
  ELSE [ kind |-> "bytes",
         bytes |-> << Len(ParamOrder) >>
                     \o FlattenSeq([ i \in DOMAIN ParamOrder |->
                                       EncodeParam(ParamOrder[i], config[ParamOrder[i]]) ]) ]

\* len(dst_mac_addresses), as an integer.
Digits(n) ==
  IF n = 0 THEN << >> ELSE IF n < 256 THEN << n >> ELSE << n % 256, n \div 256 >>

\* What the caller passes, and the parameter session_set_app_config adds.
WithControlees(params) ==
  [ tag \in AppConfigParam |->
      IF tag = NUMBER_OF_CONTROLEES THEN << Digits(Len(params[DST_MAC_ADDRESS])) >>
      ELSE params[tag] ]

-----------------------------------------------------------------------------
(* The response.                                                            *)

OK == 0

\* The codes of Status; any other makes Status(...) raise ValueError.
Status ==
  (\h00 .. \h0A) \cup (\h11 .. \h17) \cup { \h1A, \h1B } \cup (\h20 .. \h2A)
    \cup { \h50, \h51, \hFF }

AppConfigResult(status, rejected) ==
  [ kind |-> "result", status |-> status, rejected |-> rejected ]

\* As many pairs of a tag and its status as the second byte says.
Rejected(payload, count) ==
  [ i \in 1 .. count |-> [ param |-> payload[1 + 2 * i], status |-> payload[2 + 2 * i] ] ]

ParseAppConfigResponse(payload) ==
  IF payload = << >> \/ payload[1] \notin Status THEN Raised
  ELSE IF payload[1] = OK THEN AppConfigResult(OK, << >>)
  ELSE IF Len(payload) < 2 \/ Len(payload) < 2 + payload[2] * 2 THEN Raised
  ELSE LET rejected == Rejected(payload, payload[2])
       IN IF \E i \in DOMAIN rejected : rejected[i].status \notin Status THEN Raised
          ELSE AppConfigResult(payload[1], rejected)
=============================================================================
