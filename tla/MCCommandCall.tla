--------------------------- MODULE MCCommandCall ----------------------------
(***************************************************************************)
(* For SESSION_SET_APP_CONFIG the default parameters with destination      *)
(* lists around the lengths where a byte or a packet overflows, and with   *)
(* any one value zero or a byte too long; 77 destinations make a payload   *)
(* of 255 bytes.  For the others each code once known and once unknown,    *)
(* and numbers with zeros at either end.                                   *)
(***************************************************************************)
EXTENDS CommandCallInvariant

Value(n) == [ i \in 1 .. n |-> 10 + i ]

Passing(destinations) ==
  [ tag \in AppConfigParam |->
      IF tag = DST_MAC_ADDRESS
      THEN [ i \in 1 .. destinations |-> << (i % 251) + 1, 1 >> ]
      ELSE << Value(ParamWidthBytes(tag)) >> ]

Params ==
  { Passing(n) : n \in { 0, 1, 2, 60, 76, 77, 78, 127, 128, 256 } }
    \cup { [ Passing(1) EXCEPT ![tag] = << << >> >> ] :
             tag \in AppConfigParam \ { NUMBER_OF_CONTROLEES } }
    \cup { [ Passing(1) EXCEPT ![tag] = << Value(ParamWidthBytes(tag) + 1) >> ] :
             tag \in AppConfigParam \ { NUMBER_OF_CONTROLEES } }

Numbers == { << >>, << 1 >>, << 0, 0, 0, 7 >>, Value(4) }

MCRequests ==
  [ method : { "session_set_app_config" }, handle : { << 1 >>, Value(4), Value(5) },
    session_type : { 0 }, params : Params ]
  \cup [ method : DOMAIN Methods \ { "session_set_app_config" },
         handle : Numbers \cup { Value(5) }, session_type : { 0, \hD0 }, params : { << >> } ]
  \cup [ method : Notifications, handle : { << >> }, session_type : { 0 }, params : { << >> } ]

Statuses == { OK, 3, \hEE }

\* No rejection, one, two; with a status that the client does not know.
Rejections ==
  { << >> } \cup
  { << [ param |-> p, status |-> s ] >> : p \in { DEVICE_TYPE, STS_LENGTH }, s \in { 4, 5 } } \cup
  { << [ param |-> DEVICE_TYPE, status |-> 4 ], [ param |-> p, status |-> s ] >> :
      p \in { RANGING_ROUND_USAGE, VENDOR_ID }, s \in { 5, \h0B } }

HeaderOf(n) ==
  [ kind : Kind, sequence_number : { << 1 >>, Value(4) }, session_handle : Numbers,
    ranging_interval_ms : { << 200 >> }, measurement_type : { 1, 3, 4 },
    mac_address_size_bytes : { 2, 8 }, primary_session_id : { << >>, Value(4) },
    n_measurements : { n } ]

Twr ==
  [ status : { OK, \h21, \hEE }, is_nlos : BOOLEAN, distance_cm : { << >>, << 0, 1 >> } ]

Measured ==
  { header @@ twr @@ [ mac_address |-> Value(header.mac_address_size_bytes) ] :
      header \in HeaderOf(1) \cup HeaderOf(2), twr \in Twr }

MCAnswers(method) ==
  CASE method = "session_set_app_config" ->
         [ kind : Kind, status : { OK }, rejected : { << >> } ]
           \cup [ kind : Kind, status : { 3, \hEE }, rejected : Rejections ]
    [] method = "get_device_info" ->
         [ kind : Kind, status : Statuses, uci_version : { << 2, 15, 1 >> },
           mac_version : { << 1, 0, 15 >> }, phy_version : { << 0, 1, 0 >> },
           uci_test_version : { << 255, 0, 0 >> }, vendor_data : { << >>, Value(3) } ]
    [] method = "get_caps_raw" -> [ kind : Kind, status : Statuses, caps : { << >>, Value(3) } ]
    [] method = "session_init" -> [ kind : Kind, status : Statuses, session_handle : Numbers ]
    [] method \in { "get_session_state", "get_session_count" } ->
         [ kind : Kind, status : Statuses, value : { 0, 3, 9 } ]
    [] method = "get_ranging_count" ->
         [ kind : Kind, status : { OK }, count : Numbers ]
           \cup [ kind : Kind, status : { 3, \hEE }, count : { << "none" >> } ]
    [] method = "SESSION_STATUS_NTF" ->
         [ kind : Kind, session_id : Numbers, state : { 0, 3, 4 }, reason_code : { 0, \h80 } ]
    [] method = "RANGING_DATA_NTF" -> HeaderOf(0) \cup Measured
    [] OTHER -> [ kind : Kind, status : Statuses ]
=============================================================================
