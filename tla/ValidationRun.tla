--------------------------- MODULE ValidationRun ----------------------------
(***************************************************************************)
(* run_checks of validation/runner.py over the DEFAULT_SPECS of            *)
(* validation/spec.py: the commands of UciClient one after the other, a    *)
(* failed one recorded and the rest run all the same.                      *)
(*                                                                         *)
(* A turn of the loop over specs is a command, which the device deals with *)
(* or loses, and the end of its call.  The calls are those of              *)
(* CommandService, which UciClient is shown to implement: a call that gave *)
(* up may leave a response to be returned by a later one.  The device is   *)
(* external; it has at most one session, which an earlier run may have     *)
(* left.                                                                   *)
(***************************************************************************)
EXTENDS Naturals, Sequences, FiniteSets

\* Bound on the commands that give up or are refused for no reason.
CONSTANT MaxFaults

ASSUME MaxFaultsAssumption == MaxFaults \in Nat

\* A response: its status, its value where the command has one, and whether it
\* has the length of a successful one.
Reply(status, value) == [ status |-> status, value |-> value, full |-> TRUE ]
Short(status) == [ status |-> status, value |-> "none", full |-> FALSE ]

\* One entry of DEFAULT_SPECS: the command it sends, whether that needs the
\* handle that SESSION_INIT put in the context, and what it passes with.
Check(command, needsHandle, status, value) ==
  [ command |-> command, needsHandle |-> needsHandle, status |-> status, value |-> value ]

\* Variant: RANGING_STOP is expected to succeed.
SpecsStopSucceeds ==
  << Check("CORE_RESET", FALSE, "OK", "none"),
     Check("CORE_GET_DEVICE_INFO", FALSE, "OK", "none"),
     Check("CORE_GET_CAPS", FALSE, "OK", "none"),
     Check("SESSION_INIT", FALSE, "OK", "none"),
     Check("SESSION_GET_STATE", TRUE, "OK", "INIT"),
     Check("SESSION_GET_COUNT", FALSE, "OK", "1"),
     Check("RANGING_GET_COUNT", TRUE, "OK", "0"),
     Check("RANGING_START", TRUE, "NOT_CONFIGURED", "none"),
     Check("RANGING_STOP", TRUE, "OK", "none"),
     Check("SESSION_DEINIT", TRUE, "OK", "none"),
     Check("SESSION_GET_COUNT", FALSE, "OK", "0") >>

Specs ==
  << Check("CORE_RESET", FALSE, "OK", "none"),
     Check("CORE_GET_DEVICE_INFO", FALSE, "OK", "none"),
     Check("CORE_GET_CAPS", FALSE, "OK", "none"),
     Check("SESSION_INIT", FALSE, "OK", "none"),
     Check("SESSION_GET_STATE", TRUE, "OK", "INIT"),
     Check("SESSION_GET_COUNT", FALSE, "OK", "1"),
     Check("RANGING_GET_COUNT", TRUE, "OK", "0"),
     Check("RANGING_START", TRUE, "NOT_CONFIGURED", "none"),
     Check("RANGING_STOP", TRUE, "NOT_CONFIGURED", "none"),
     Check("SESSION_DEINIT", TRUE, "OK", "none"),
     Check("SESSION_GET_COUNT", FALSE, "OK", "0") >>

\* Of the device: nothing was answered, and nothing ever will be.
NoReply == [ status |-> "none" ]

TimedOut == [ mt |-> "timeout" ]

VARIABLES
  session,   \* whether the device has a session
  handle,    \* context["session_handle"]: "none", that of the session, or "wrong"
  outcomes,  \* whether each check so far passed
  commands,  \* the commands sent
  returned,  \* how the calls that are over ended
  replies,   \* history: the reply of the device to each command
  leftover,  \* history: whether an earlier run left a session
  faulty     \* history: the checks whose call gave up or was refused for no reason

vars == << session, handle, outcomes, commands, returned, replies, leftover, faulty >>

Calls == INSTANCE CommandService
           WITH Key <- { Specs[i].command : i \in 1 .. Len(Specs) },
                Failure <- { TimedOut }, outcomes <- returned

Init ==
  /\ Calls!Init
  /\ session \in BOOLEAN
  /\ leftover = session
  /\ handle = "none"
  /\ outcomes = << >>
  /\ replies = << >>
  /\ faulty = {}

Running == Len(outcomes) < Len(Specs)

Current == Len(outcomes) + 1

Command == Specs[Current].command

\* The check in progress is the fault of the device or of the link.
Fault ==
  /\ faulty' = faulty \cup { Current }
  /\ Cardinality(faulty') <= MaxFaults

-----------------------------------------------------------------------------
(* The device.  Without SESSION_SET_APP_CONFIG a session cannot range.      *)

Addressed == session /\ handle = "valid"

\* A second session is refused, in a response of either length.
DeviceReplies ==
  IF Specs[Current].needsHandle /\ ~Addressed THEN { Short("NOT_EXIST") }
  ELSE CASE Command \in { "CORE_RESET", "CORE_GET_DEVICE_INFO", "CORE_GET_CAPS",
                          "SESSION_DEINIT" } -> { Reply("OK", "none") }
         [] Command = "SESSION_INIT" ->
              IF session THEN { Reply("DUPLICATE", "none"), Short("DUPLICATE") }
              ELSE { Reply("OK", "none") }
         [] Command = "SESSION_GET_STATE" -> { Reply("OK", "INIT") }
         [] Command = "SESSION_GET_COUNT" -> { Reply("OK", IF session THEN "1" ELSE "0") }
         [] Command = "RANGING_GET_COUNT" -> { Reply("OK", "0") }
         [] OTHER -> { Short("NOT_CONFIGURED") }

DeviceObeys ==
  session' = CASE Command = "SESSION_INIT" -> TRUE
               [] Command = "CORE_RESET" -> FALSE
               [] Command = "SESSION_DEINIT" -> session /\ ~Addressed
               [] OTHER -> session

-----------------------------------------------------------------------------
(* The methods of UciClient, and the turn of run_checks around them.        *)

\* These take more than the status from the response, whatever the status is.
\* get_caps_raw and get_ranging_count do not.
TakesValue ==
  Command \in { "CORE_GET_DEVICE_INFO", "SESSION_INIT", "SESSION_GET_STATE",
                "SESSION_GET_COUNT" }

\* ValueError for a status outside Status; UciPayloadError or IndexError for a
\* response too short for what the method takes from it.
MethodRaises(reply) ==
  \/ reply.status = "UNKNOWN"
  \/ TakesValue /\ ~reply.full

\* Variant: no continue after the outcome of a failure; another is recorded.
RecordFailureTwice(passed) ==
  outcomes' = IF passed THEN Append(outcomes, TRUE) ELSE outcomes \o << FALSE, FALSE >>

Record(passed) == outcomes' = Append(outcomes, passed)

\* Variant: the value that came with the status is not compared.
ValidatesStatusOnly(reply) == reply.status = Specs[Current].status

Validates(reply) ==
  /\ reply.status = Specs[Current].status
  /\ Specs[Current].value \in { "none", reply.value }

\* The handle is stored before the status is looked at.
HandleReply(reply) ==
  /\ Record(~MethodRaises(reply) /\ Validates(reply))
  /\ handle' = IF Command = "SESSION_INIT" /\ ~MethodRaises(reply)
               THEN IF reply.status = "OK" THEN "valid" ELSE "wrong"
               ELSE handle

\* Variant: the KeyError is not caught.
MissingHandleAborts ==
  /\ Running
  /\ ~Calls!Busy
  /\ Specs[Current].needsHandle
  /\ handle = "none"
  /\ UNCHANGED vars

\* The KeyError of context["session_handle"]: no command is sent.
MissingHandle ==
  /\ Running
  /\ ~Calls!Busy
  /\ Specs[Current].needsHandle
  /\ handle = "none"
  /\ Record(FALSE)
  /\ UNCHANGED << session, handle, commands, returned, replies, leftover, faulty >>

Sends ==
  /\ Running
  /\ Specs[Current].needsHandle => handle # "none"
  /\ Calls!Call(Command)
  /\ UNCHANGED << handle, outcomes, leftover >>

\* The device deals with a command before its call ends.  If it is slower, the
\* commands behind wait for it, and it is the same to them.
DeviceAnswers ==
  /\ Sends
  /\ DeviceObeys
  /\ \E reply \in DeviceReplies : replies' = Append(replies, reply)
  /\ UNCHANGED faulty

\* It refuses with another status, in a response of either length.
DeviceRefuses ==
  /\ Sends
  /\ Fault
  /\ \E reply \in { Reply("FAILED", "none"), Short("FAILED"), Short("UNKNOWN") } :
       replies' = Append(replies, reply)
  /\ UNCHANGED session

CommandLost ==
  /\ Sends
  /\ Fault
  /\ replies' = Append(replies, NoReply)
  /\ UNCHANGED session

Returns(j) ==
  /\ Calls!ReturnResponse(j)
  /\ replies[j] # NoReply
  /\ HandleReply(replies[j])
  /\ UNCHANGED << session, replies, leftover, faulty >>

\* UciTimeoutError, UciFramingError or an exception of the port, caught.
CallGivesUp ==
  /\ Calls!GiveUp
  /\ Fault
  /\ Record(FALSE)
  /\ UNCHANGED << session, handle, replies, leftover >>

Next ==
  \/ MissingHandle
  \/ DeviceAnswers
  \/ DeviceRefuses
  \/ CommandLost
  \/ \E j \in 1 .. Len(commands) : Returns(j)
  \/ CallGivesUp

Safety == Init /\ [][Next]_vars

\* Every command ends in time and the loop goes on.
Spec == Safety /\ WF_vars(Next)

-----------------------------------------------------------------------------
TypeOK ==
  /\ session \in BOOLEAN
  /\ leftover \in BOOLEAN
  /\ handle \in { "none", "valid", "wrong" }
  /\ outcomes \in Seq(BOOLEAN)
  /\ Len(outcomes) <= Len(Specs)
  /\ faulty \subseteq 1 .. Len(Specs)
  /\ Len(returned) <= Len(commands) /\ Len(commands) <= Len(returned) + 1
  /\ Len(replies) = Len(commands)

\* The checks a fault at one of them can make fail.
Affected(i) ==
  { i } \cup
  CASE Specs[i].command = "CORE_RESET" -> IF leftover THEN 1 .. Len(Specs) ELSE {}
    [] Specs[i].command = "SESSION_INIT" -> i .. Len(Specs)
    [] Specs[i].command \in { "SESSION_DEINIT", "SESSION_GET_COUNT" } -> { Len(Specs) }
    [] OTHER -> {}

\* A check fails only because of a fault at it or at one it depends on: a late
\* response spoils no check but the one that asks the same again, whatever
\* went wrong between.
FailuresExplained ==
  \A j \in 1 .. Len(outcomes) :
    ~outcomes[j] => \E i \in faulty : i <= j /\ j \in Affected(i)

\* The last check does not pass while the device still has a session, a late
\* count taken for the last one included.
NoSessionIfLastPasses ==
  Len(outcomes) = Len(Specs) /\ outcomes[Len(Specs)] => ~session

\* Every check is run and reported, whatever fails.
AllReported == <>(Len(outcomes) = Len(Specs))
=============================================================================
