---------------------------- MODULE MixedRanging ----------------------------
(***************************************************************************)
(* run_mixed_ranging of mixed_ranging.py, with the SerialLink it opens and *)
(* the CliBridgeClient it drives: one call after another, each of which    *)
(* may raise, and the cleanup that follows whatever was raised.            *)
(*                                                                         *)
(* pc names the call the program is about to make.  A call that raises may *)
(* have had its effect all the same, the answer being what was lost; a     *)
(* call the device refused may return as if nothing were wrong, where the  *)
(* code does not look at the answer.                                       *)
(*                                                                         *)
(* The boards are external: the session of the local one, the power and    *)
(* the responder of the remote one, the BLE link of the bridge.  What UCI  *)
(* and BLE calls promise is the subject of UciClient and BleShell: a line  *)
(* whose call gave up may still be sent as long as the event loop runs.    *)
(***************************************************************************)
EXTENDS FiniteSets

\* What the cleanup catches, BleShellError and CliBridgeError, and the rest:
\* UciError, UciFramingError, ValueError, RuntimeError, BleakError and so on.
Exception == { "bridge", "other" }

VARIABLES
  pc,         \* the call to come
  raised,     \* the Exception under way, or "none"
  handle,     \* whether handle is not None
  serial,     \* whether the serial port is open
  loop,       \* whether the event loop of the transport runs
  client,     \* whether the transport has a client, and a target to reconnect to
  link,       \* whether the BLE link is up
  session,    \* the session of the local board: "none", "init", "idle" or "active"
  power,      \* whether the remote module is on
  responder,  \* whether it runs as a responder
  late,       \* lines whose calls gave up and whose coroutines may still send them
  attempted,  \* history: the calls made
  failed,     \* history: the calls that raised, with what
  refused     \* history: the calls that returned though the device did not obey

program == << pc, raised, handle, serial, loop, client >>
boards == << link, session, power, responder >>
history == << attempted, failed, refused >>
vars == << program, boards, late, history >>

\* The boards are as an earlier run left them.
Init ==
  /\ pc = "open"
  /\ raised = "none"
  /\ handle = FALSE
  /\ serial = FALSE
  /\ loop = FALSE
  /\ client = FALSE
  /\ link = FALSE
  /\ session \in { "none", "active" }
  /\ power \in BOOLEAN
  /\ responder \in { FALSE, power }
  /\ late = {}
  /\ attempted = {}
  /\ failed = {}
  /\ refused = {}

-----------------------------------------------------------------------------
(* How a call ends. *)

Attempt(step) ==
  /\ pc = step
  /\ attempted' = attempted \cup { step }

Returns(step, next) ==
  /\ Attempt(step)
  /\ pc' = next
  /\ UNCHANGED << raised, failed, refused >>

ReturnsRefused(step, next) ==
  /\ Attempt(step)
  /\ pc' = next
  /\ refused' = refused \cup { step }
  /\ UNCHANGED << raised, failed >>

\* It replaces what was raised before.
Raises(step, exception, next) ==
  /\ Attempt(step)
  /\ pc' = next
  /\ raised' = exception
  /\ failed' = failed \cup { << step, exception >> }
  /\ UNCHANGED refused

\* The exception is caught and logged.
RaisesCaught(step, exception, next) ==
  /\ Attempt(step)
  /\ pc' = next
  /\ failed' = failed \cup { << step, exception >> }
  /\ UNCHANGED << raised, refused >>

Failed(step) == \E exception \in Exception : << step, exception >> \in failed

\* Variant: the session is left to the next reset.
FinallySkippingDeinit == "finalStop"

\* The cleanup of the try block, the innermost handler of all calls in it.
Finally == IF handle THEN "deinit" ELSE "finalStop"

-----------------------------------------------------------------------------
(* SerialLink: __enter__ opens, __exit__ closes, whatever was raised. *)

OpenSerial ==
  /\ pc = "open"
  /\ \/ pc' = "reset" /\ serial' = TRUE /\ UNCHANGED raised
     \/ pc' = "done" /\ raised' = "other" /\ UNCHANGED serial
  /\ UNCHANGED << handle, loop, client, boards, late, history >>

CloseSerial ==
  /\ pc = "exit"
  /\ pc' = "done"
  /\ serial' = FALSE
  /\ UNCHANGED << raised, handle, loop, client, boards, late, history >>

\* Variant: the error of the reset leaves the port open.
ResetUnguarded ==
  /\ \/ Returns("reset", "connect") /\ session' = "none" /\ loop' = TRUE
     \/ Raises("reset", "other", "done") /\ session' \in { session, "none" } /\ UNCHANGED loop
  /\ UNCHANGED << handle, serial, client, link, power, responder, late >>

\* The status is not looked at.  The transport that is made next starts its
\* event loop; before that there is nothing to clean up but the port.
Reset ==
  /\ \/ Returns("reset", "connect") /\ session' = "none" /\ loop' = TRUE
     \/ ReturnsRefused("reset", "connect") /\ loop' = TRUE /\ UNCHANGED session
     \/ Raises("reset", "other", "exit") /\ session' \in { session, "none" } /\ UNCHANGED loop
  /\ UNCHANGED << handle, serial, client, link, power, responder, late >>

-----------------------------------------------------------------------------
(* The remote board, through CliBridgeClient. *)

\* One that raised may leave a link without a client, or come about yet.
ConnectBridge ==
  /\ \/ Returns("connect", "powerOn") /\ link' = TRUE /\ client' = TRUE /\ UNCHANGED late
     \/ \E exception \in Exception :
          /\ Raises("connect", exception, Finally)
          /\ \/ link' \in BOOLEAN /\ UNCHANGED late
             \/ late' = { "connect" } /\ UNCHANGED link
          /\ UNCHANGED client
  /\ UNCHANGED << handle, serial, loop, session, power, responder >>

\* What a line makes of the remote board.  Nothing runs on a module that is off.
Effect(line) ==
  /\ power' = CASE line = "powerOn" -> TRUE
                [] line = "powerOff" -> FALSE
                [] OTHER -> power
  /\ responder' = CASE line = "respf" -> power
                    [] line \in { "stop", "finalStop", "powerOff" } -> FALSE
                    [] OTHER -> responder

NoEffect == UNCHANGED << power, responder >>

\* A line that gave up was sent, is still to be sent, or is lost, and the link
\* may have been made anew before that.
GaveUp(line) ==
  \/ /\ client
     /\ link' \in { link, TRUE }
     /\ \/ Effect(line) /\ UNCHANGED late
        \/ NoEffect /\ late' \in { late, late \cup { line } }
  \/ ~client /\ NoEffect /\ UNCHANGED << link, late >>

\* send_line reconnects if need be.
Sent == client /\ link' = TRUE

\* power_on returns whatever the bridge answered, an error too.
PowerOn ==
  /\ \/ Sent /\ Returns("powerOn", "stat") /\ Effect("powerOn") /\ UNCHANGED late
     \/ Sent /\ ReturnsRefused("powerOn", "stat") /\ NoEffect /\ UNCHANGED late
     \/ \E exception \in Exception :
          Raises("powerOn", exception, Finally) /\ GaveUp("powerOn")
  /\ UNCHANGED << handle, serial, loop, client, session >>

\* send_qorvo_command: an answer that begins with "Error" raises, any other is
\* returned, a KO of the module too.
QorvoCommand(step, next) ==
  \/ Sent /\ Returns(step, next) /\ Effect(step) /\ UNCHANGED late
  \/ Sent /\ ReturnsRefused(step, next) /\ NoEffect /\ UNCHANGED late
  \/ Sent /\ Raises(step, "bridge", Finally) /\ NoEffect /\ UNCHANGED late
  \/ \E exception \in Exception :
       Raises(step, exception, Finally) /\ GaveUp(step)

\* Variant: the responder is started before the old application is stopped.
PrepareRemoteStopLast ==
  /\ \/ QorvoCommand("stat", "respf")
     \/ QorvoCommand("respf", "stop")
     \/ QorvoCommand("stop", "sessionInit")
  /\ UNCHANGED << handle, serial, loop, client, session >>

PrepareRemote ==
  /\ \/ QorvoCommand("stat", "stop")
     \/ QorvoCommand("stop", "respf")
     \/ QorvoCommand("respf", "sessionInit")
  /\ UNCHANGED << handle, serial, loop, client, session >>

-----------------------------------------------------------------------------
(* The local board, through UciClient. *)

\* The status is not looked at: a refusal in full length gives a handle too.
SessionInit ==
  /\ \/ /\ session = "none"
        /\ Returns("sessionInit", "setAppConfig")
        /\ session' = "init"
        /\ handle' = TRUE
     \/ ReturnsRefused("sessionInit", "setAppConfig") /\ handle' = TRUE /\ UNCHANGED session
     \/ /\ Raises("sessionInit", "other", Finally)
        /\ session' \in { session, IF session = "none" THEN "init" ELSE session }
        /\ UNCHANGED handle
  /\ UNCHANGED << serial, loop, client, link, power, responder, late >>

\* A status other than OK raises RuntimeError.
SetAppConfig ==
  /\ \/ session = "init" /\ Returns("setAppConfig", "rangingStart") /\ session' = "idle"
     \/ /\ Raises("setAppConfig", "other", Finally)
        /\ session' \in { session, IF session = "init" THEN "idle" ELSE session }
  /\ UNCHANGED << handle, serial, loop, client, link, power, responder, late >>

RangingStart ==
  /\ \/ session = "idle" /\ Returns("rangingStart", "poll") /\ session' = "active"
     \/ /\ Raises("rangingStart", "other", Finally)
        /\ session' \in { session, IF session = "idle" THEN "active" ELSE session }
  /\ UNCHANGED << handle, serial, loop, client, link, power, responder, late >>

\* Variant: every turn starts the deadline anew.
PollRoundsForever ==
  /\ Returns("poll", "poll")
  /\ UNCHANGED << handle, serial, loop, client, boards, late >>

\* The loop until the deadline; feed or a parser may raise in any turn.
PollRounds ==
  /\ \/ Returns("poll", "rangingStop")
     \/ Raises("poll", "other", Finally)
  /\ UNCHANGED << handle, serial, loop, client, boards, late >>

\* The status is not looked at.
RangingStop ==
  /\ \/ Returns("rangingStop", "deinit") /\ session' = "idle"
     \/ ReturnsRefused("rangingStop", "deinit") /\ UNCHANGED session
     \/ Raises("rangingStop", "other", Finally) /\ session' \in { session, "idle" }
  /\ UNCHANGED << handle, serial, loop, client, link, power, responder, late >>

-----------------------------------------------------------------------------
(* The cleanup. *)

\* Variant: an error of session_deinit ends the cleanup.
SessionDeinitUnguarded ==
  /\ \/ Returns("deinit", "finalStop") /\ session' = "none"
     \/ Raises("deinit", "other", "exit") /\ session' \in { session, "none" }
  /\ UNCHANGED << handle, serial, loop, client, link, power, responder, late >>

SessionDeinit ==
  /\ \/ Returns("deinit", "finalStop") /\ session' = "none"
     \/ ReturnsRefused("deinit", "finalStop") /\ UNCHANGED session
     \/ Raises("deinit", "other", "finalStop") /\ session' \in { session, "none" }
  /\ UNCHANGED << handle, serial, loop, client, link, power, responder, late >>

\* Variant: bridge.stop and bridge.power_off are in one try.
FinalStopOneTry ==
  /\ \/ Sent /\ Returns("finalStop", "powerOff") /\ Effect("finalStop") /\ UNCHANGED late
     \/ Sent /\ ReturnsRefused("finalStop", "powerOff") /\ NoEffect /\ UNCHANGED late
     \/ RaisesCaught("finalStop", "bridge", "close") /\ GaveUp("finalStop")
     \/ Raises("finalStop", "other", "exit") /\ GaveUp("finalStop")
  /\ UNCHANGED << handle, serial, loop, client, session >>

\* Anything but the two exceptions of the bridge skips what is left to do.
FinalStop ==
  /\ \/ Sent /\ Returns("finalStop", "powerOff") /\ Effect("finalStop") /\ UNCHANGED late
     \/ Sent /\ ReturnsRefused("finalStop", "powerOff") /\ NoEffect /\ UNCHANGED late
     \/ RaisesCaught("finalStop", "bridge", "powerOff") /\ GaveUp("finalStop")
     \/ Raises("finalStop", "other", "exit") /\ GaveUp("finalStop")
  /\ UNCHANGED << handle, serial, loop, client, session >>

PowerOff ==
  /\ \/ Sent /\ Returns("powerOff", "close") /\ Effect("powerOff") /\ UNCHANGED late
     \/ Sent /\ ReturnsRefused("powerOff", "close") /\ NoEffect /\ UNCHANGED late
     \/ RaisesCaught("powerOff", "bridge", "close") /\ GaveUp("powerOff")
     \/ Raises("powerOff", "other", "exit") /\ GaveUp("powerOff")
  /\ UNCHANGED << handle, serial, loop, client, session >>

\* The loop stops even if the disconnection raises.
CloseTransport ==
  /\ loop' = FALSE
  /\ late' = {}
  /\ \/ Returns("close", "exit") /\ link' = (link /\ ~client) /\ client' = FALSE
     \/ /\ client
        /\ \E exception \in Exception : Raises("close", exception, "exit")
        /\ link' \in { FALSE, link }
        /\ UNCHANGED client
  /\ UNCHANGED << handle, serial, session, power, responder >>

-----------------------------------------------------------------------------
(* The other threads and boards. *)

\* A coroutine nobody waits for sends its line.
SendLate ==
  /\ loop
  /\ \E line \in late \ { "connect" } : Effect(line) /\ late' = late \ { line }
  /\ UNCHANGED << program, link, session, history >>

ConnectLate ==
  /\ loop
  /\ "connect" \in late
  /\ late' = late \ { "connect" }
  /\ link' = TRUE
  /\ client' \in BOOLEAN
  /\ UNCHANGED << pc, raised, handle, serial, loop, session, power, responder, history >>

\* The bridge closes the link when nothing has happened for a while.
DropLink ==
  /\ link
  /\ link' = FALSE
  /\ UNCHANGED << program, session, power, responder, late, history >>

Program ==
  \/ OpenSerial
  \/ Reset
  \/ ConnectBridge
  \/ PowerOn
  \/ PrepareRemote
  \/ SessionInit
  \/ SetAppConfig
  \/ RangingStart
  \/ PollRounds
  \/ RangingStop
  \/ SessionDeinit
  \/ FinalStop
  \/ PowerOff
  \/ CloseTransport
  \/ CloseSerial

Next == Program \/ SendLate \/ ConnectLate \/ DropLink

Safety == Init /\ [][Next]_vars

\* Every call has a timeout and the loop a deadline.
Spec == Safety /\ WF_vars(Program)

-----------------------------------------------------------------------------
\* The port is closed in the end, whatever raised and wherever.
SerialClosedAtEnd == pc = "done" => ~serial

\* No failure of the local side leaves the remote module on: a run that has got
\* as far as to talk to it leaves it on only if power_off itself did not work,
\* if bridge.stop raised something that is not caught, or if power_on gave up
\* and its line came after all.
LeftOnOnlyByBridge ==
  pc = "done" /\ power /\ "powerOn" \in attempted =>
    \/ Failed("powerOff")
    \/ "powerOff" \in refused
    \/ << "finalStop", "other" >> \in failed
    \/ Failed("powerOn")

\* The responder does not run on in the end, one of an earlier run neither,
\* unless both that end it came to nothing, stop as well as power_off: a late
\* line that starts it does so only on a module that is on.
ResponderLeftOnlyByBoth ==
  pc = "done" /\ responder /\ "connect" \in attempted =>
    /\ Failed("finalStop") \/ "finalStop" \in refused \/ Failed("respf")
    /\ Failed("powerOff") \/ "powerOff" \in refused \/ << "finalStop", "other" >> \in failed

\* The session is gone in the end, ranging or not, unless session_deinit did
\* not work or there is no handle to call it with.
SessionLeftOnlyByDevice ==
  pc = "done" /\ session # "none" /\ "reset" \in attempted =>
    \/ Failed("deinit")
    \/ "deinit" \in refused
    \/ Failed("sessionInit")
    \/ Failed("reset")
    \/ "reset" \in refused

\* While the rounds are counted, the responder runs, unless the bridge or the
\* module refused with an answer the code takes for a success.
RangesWithResponder ==
  pc \in { "poll", "rangingStop" } =>
    responder \/ refused \cap { "powerOn", "respf" } # {}

\* The remote module is not switched off under a session of this run that is
\* still ranging, unless session_deinit did not work.
RemoteOutlivesRanging ==
  [][ power /\ ~power' /\ handle /\ session = "active" =>
        Failed("deinit") \/ "deinit" \in refused \/ "reset" \in refused ]_vars

\* The run ends.
Terminates == <>(pc = "done")
=============================================================================
