------------------------------ MODULE BleShell ------------------------------
(***************************************************************************)
(* BleShellTransport of cli_bridge/ble_transport.py: synchronous calls of  *)
(* one thread, each a coroutine on the event loop of another.              *)
(*                                                                         *)
(* A coroutine runs without interruption from one await to the next, so    *)
(* its program counter names the await it is at.  _call gives up waiting   *)
(* for a coroutine but does not cancel it: the coroutines of calls that    *)
(* are over run on beside the one of the call in progress and share        *)
(* _client, _prompt_event and _buffer with it.                             *)
(*                                                                         *)
(* The bridge is external.  It advertises only while nobody is connected,  *)
(* runs the lines in the order in which they reach it, answers each with a *)
(* text and a prompt, cut into notifications anywhere, and may close the   *)
(* link, with what is still in the air.  Call i sends line i, and its      *)
(* BleakClient, if it makes one, is client i.                              *)
(***************************************************************************)
EXTENDS Naturals, Sequences, Selection

CONSTANTS
  MaxCalls,   \* bound on the calls of connect, send_line and disconnect
  MaxDrops,   \* bound on the times the bridge closes the link
  MaxChunk    \* the most tokens one notification carries

ASSUME BoundsAssumption == MaxCalls \in Nat /\ MaxDrops \in Nat /\ MaxChunk \in Nat \ {0}

Kind == { "connect", "send", "disconnect", "close" }

\* A notification may end in the middle of the prompt.
Tokens(parts) == [ line : 1 .. MaxCalls, part : parts ]

Token == Tokens({ "text", "promptHead", "promptTail" })

\* How a coroutine ends: "bleError" is BleShellError, "timeout" its subclass
\* BleShellTimeoutError, "foreign" whatever bleak raises (its TimeoutError too,
\* which _call turns into BleShellTimeoutError from Python 3.11 on: no property
\* tells them apart).
Result ==
  [ kind : { "ok", "bleError", "timeout", "foreign" } ]
    \cup [ kind : { "answer" }, text : Seq(1 .. MaxCalls) ]

\* "overrun" is the BleShellTimeoutError of _call itself.
Running == [ kind |-> "running" ]
Overrun == [ kind |-> "overrun" ]
Ok == [ kind |-> "ok" ]
BleError == [ kind |-> "bleError" ]
TimedOut == [ kind |-> "timeout" ]
Foreign == [ kind |-> "foreign" ]

VARIABLES
  caller,     \* the thread that calls: "idle", "busy" in a call, or "closed"
  calls,      \* history: the kinds of the calls, numbered from 1
  outcomes,   \* history: how each of them ended
  task,       \* the coroutine of each call: the await it is at and its locals
  client,     \* the number of _client, 0 for None
  lastTarget, \* whether _last_target is set
  event,      \* the number of the asyncio.Event in _prompt_event, 0 for None
  isSet,      \* whether that event is set
  buffer,     \* _buffer
  link,       \* the client that holds the BLE link, 0 for none
  notifying,  \* whether that client has subscribed
  inbox,      \* lines the bridge has received and not yet run
  air,        \* tokens the bridge has sent and not yet delivered
  drops,      \* how often the bridge has closed the link
  written     \* history: the lines in the order in which they reached the bridge

transport == << client, lastTarget, event, isSet >>
bridge == << inbox, air, drops, written >>
vars == << caller, calls, outcomes, task, transport, buffer, link, notifying, bridge >>

Init ==
  /\ caller = "idle"
  /\ calls = << >>
  /\ outcomes = << >>
  /\ task = << >>
  /\ client = 0
  /\ lastTarget = FALSE
  /\ event = 0
  /\ isSet = FALSE
  /\ buffer = << >>
  /\ link = 0
  /\ notifying = FALSE
  /\ inbox = << >>
  /\ air = << >>
  /\ drops = 0
  /\ written = << >>

-----------------------------------------------------------------------------
(* The thread that calls. *)

\* The locals of the coroutine: client and event it uses, length of the buffer.
Coroutine0(await) ==
  [ at |-> await, by |-> client, event |-> 0, start |-> Len(buffer), result |-> Running ]

\* _call hands the coroutine to the loop and waits for it.  The caller does
\* nothing before the coroutine has come to its first await, so that is the
\* same step.
Submit(kind, coroutine) ==
  /\ caller = "idle"
  /\ Len(calls) < MaxCalls
  /\ caller' = "busy"
  /\ calls' = Append(calls, kind)
  /\ outcomes' = Append(outcomes, Running)
  /\ task' = Append(task, coroutine)
  /\ UNCHANGED << client, lastTarget, buffer, link, notifying, bridge >>

\* The head of _async_connect, up to the scan.
NewEvent ==
  /\ event' = event + 1
  /\ isSet' = FALSE

Connect ==
  /\ Submit("connect", Coroutine0("scan"))
  /\ NewEvent

IsConnected == client # 0 /\ client = link

\* The link is up: the event is cleared and the line is being written.
SendLine ==
  /\ IsConnected
  /\ Submit("send", Coroutine0("write"))
  /\ isSet' = FALSE
  /\ UNCHANGED event

\* The bridge has closed the link since the last call.
SendLineReconnecting ==
  /\ ~IsConnected
  /\ lastTarget
  /\ Submit("send", Coroutine0("scan"))
  /\ NewEvent

SendLineUnconnected ==
  /\ ~IsConnected
  /\ ~lastTarget
  /\ Submit("send", [ Coroutine0("ended") EXCEPT !.result = BleError ])
  /\ UNCHANGED << event, isSet >>

\* Nothing to do, and no coroutine, without a client.
Disconnect ==
  /\ client # 0
  /\ Submit("disconnect", Coroutine0("disconnect"))
  /\ UNCHANGED << event, isSet >>

\* Variant: the loop is stopped and nothing else.
CloseStoppingOnly ==
  /\ caller = "idle"
  /\ caller' = "closed"
  /\ UNCHANGED << calls, outcomes, task, transport, buffer, link, notifying, bridge >>

\* The loop is stopped whether the disconnection works or not.
Close ==
  \/ /\ client # 0
     /\ Submit("close", Coroutine0("disconnect"))
     /\ UNCHANGED << event, isSet >>
  \/ /\ client = 0
     /\ caller = "idle"
     /\ caller' = "closed"
     /\ UNCHANGED << calls, outcomes, task, transport, buffer, link, notifying, bridge >>

Current == Len(calls)

EndCall(outcome) ==
  /\ outcomes' = [ outcomes EXCEPT ![Current] = outcome ]
  /\ caller' = IF calls[Current] = "close" THEN "closed" ELSE "idle"

\* Variant: the caller does not wait for the coroutine.
ReturnWithoutWaiting ==
  /\ caller = "busy"
  /\ EndCall(Ok)
  /\ UNCHANGED << calls, task, transport, buffer, link, notifying, bridge >>

\* disconnect clears _client in the thread that called it, and only if its
\* coroutine did not raise.
Return ==
  /\ caller = "busy"
  /\ task[Current].at = "ended"
  /\ EndCall(task[Current].result)
  /\ client' = IF /\ calls[Current] \in { "disconnect", "close" }
                  /\ task[Current].result = Ok
               THEN 0 ELSE client
  /\ UNCHANGED << calls, task, lastTarget, event, isSet, buffer, link, notifying, bridge >>

\* The timeout of _call: the coroutine is left to itself.
CallOverruns ==
  /\ caller = "busy"
  /\ task[Current].at # "ended"
  /\ EndCall(Overrun)
  /\ UNCHANGED << calls, task, transport, buffer, link, notifying, bridge >>

-----------------------------------------------------------------------------
(* The coroutines.  None runs once the loop is stopped. *)

At(i, await) == caller # "closed" /\ task[i].at = await

GoTo(i, await) == task' = [ task EXCEPT ![i].at = await ]

End(i, result) == task' = [ task EXCEPT ![i].at = "ended", ![i].result = result ]

\* A call of the client that fails on its own account or for want of a link.
BleakRaises(i) ==
  /\ End(i, Foreign)
  /\ UNCHANGED << caller, calls, outcomes, transport, buffer, link, notifying, bridge >>

\* The client is the one _client was when disconnect was called.
RunDisconnect(i) ==
  /\ At(i, "disconnect")
  /\ \/ BleakRaises(i)
     \/ /\ End(i, Ok)
        /\ IF link = task[i].by
           THEN link' = 0 /\ notifying' = FALSE /\ air' = << >>
           ELSE UNCHANGED << link, notifying, air >>
        /\ UNCHANGED << caller, calls, outcomes, transport, buffer, inbox, drops, written >>

\* A bridge that is connected, to whomever, does not advertise.  The target is
\* a name or an address; an address is not scanned for, and then this step
\* cannot fail.
Scan(i) ==
  /\ At(i, "scan")
  /\ \/ link = 0 /\ GoTo(i, "link")
     \/ End(i, BleError)
  /\ UNCHANGED << caller, calls, outcomes, transport, buffer, link, notifying, bridge >>

LinkUp(i) ==
  /\ At(i, "link")
  /\ \/ BleakRaises(i)
     \/ /\ link = 0
        /\ link' = i
        /\ notifying' = FALSE
        /\ GoTo(i, "subscribe")
        /\ UNCHANGED << caller, calls, outcomes, transport, buffer, bridge >>

\* What _async_send_line does between its connection and the write.
PrepareLine(i) ==
  /\ isSet' = FALSE
  /\ task' = [ task EXCEPT ![i].at = "write", ![i].by = i, ![i].start = Len(buffer) ]

\* Variant: the event is made when the link is up and not before the scan.
SubscribeNewEvent(i) ==
  /\ At(i, "subscribe")
  /\ link = i
  /\ NewEvent
  /\ notifying' = TRUE
  /\ client' = i
  /\ lastTarget' = TRUE
  /\ task' = IF calls[i] = "send"
             THEN [ task EXCEPT ![i].at = "write", ![i].by = i, ![i].start = Len(buffer) ]
             ELSE [ task EXCEPT ![i].at = "ended", ![i].result = Ok ]
  /\ UNCHANGED << caller, calls, outcomes, buffer, link, bridge >>

\* Only now does _client become the new client.
Subscribe(i) ==
  /\ At(i, "subscribe")
  /\ \/ BleakRaises(i)
     \/ /\ link = i
        /\ notifying' = TRUE
        /\ client' = i
        /\ lastTarget' = TRUE
        /\ IF calls[i] = "send"
           THEN PrepareLine(i)
           ELSE End(i, Ok) /\ UNCHANGED isSet
        /\ UNCHANGED << caller, calls, outcomes, event, buffer, link, bridge >>

\* Variant: the prompts, here 0, are left in the text.
AnswersWithPrompts(from) ==
  [ k \in 1 .. Len(buffer) - from |->
      IF buffer[from + k].part = "text" THEN buffer[from + k].line ELSE 0 ]

PromptAt(raw, k) ==
  /\ k \in 1 .. Len(raw) - 1
  /\ raw[k].part = "promptHead" /\ raw[k + 1].part = "promptTail"

\* Each token of the text with whether it is left when the prompts are taken
\* out.  Half a prompt is no prompt.
Marked(raw) ==
  [ k \in DOMAIN raw |->
      [ line |-> raw[k].line, left |-> ~PromptAt(raw, k) /\ ~PromptAt(raw, k - 1) ] ]

\* The lines that have answered in the buffer from a position on.
Answers(from) ==
  LET texts == Selected(Marked(SubSeq(buffer, from + 1, Len(buffer))),
                        [ line : 1 .. MaxCalls, left : { TRUE } ])
  IN [ k \in 1 .. Len(texts) |-> texts[k].line ]

Answer(i) == [ kind |-> "answer", text |-> Answers(task[i].start) ]

\* The event waited for is the one there is now; a set one is not waited for.
Write(i) ==
  /\ At(i, "write")
  /\ \/ BleakRaises(i)
     \/ /\ link = task[i].by
        /\ inbox' = Append(inbox, i)
        /\ written' = Append(written, i)
        /\ IF isSet
           THEN End(i, Answer(i))
           ELSE task' = [ task EXCEPT ![i].at = "wait", ![i].event = event ]
        /\ UNCHANGED << caller, calls, outcomes, transport, buffer, link, notifying, air, drops >>

\* Variant: the answer is whatever has arrived since the connection.
WakeFromStart(i) ==
  /\ At(i, "awake")
  /\ End(i, [ kind |-> "answer", text |-> Answers(0) ])
  /\ UNCHANGED << caller, calls, outcomes, transport, buffer, link, notifying, bridge >>

Wake(i) ==
  /\ At(i, "awake")
  /\ End(i, Answer(i))
  /\ UNCHANGED << caller, calls, outcomes, transport, buffer, link, notifying, bridge >>

\* A prompt that comes in the same turn of the loop as the timeout is taken to
\* come before or after it.
WaitTimesOut(i) ==
  /\ At(i, "wait")
  /\ End(i, TimedOut)
  /\ UNCHANGED << caller, calls, outcomes, transport, buffer, link, notifying, bridge >>

Coroutine(i) ==
  \/ RunDisconnect(i)
  \/ Scan(i)
  \/ LinkUp(i)
  \/ Subscribe(i)
  \/ Write(i)
  \/ Wake(i)
  \/ WaitTimesOut(i)

-----------------------------------------------------------------------------
(* Notifications. *)

\* The expression is looked for in this notification alone.
HasPrompt(chunk) == \E k \in DOMAIN chunk : PromptAt(chunk, k)

\* Setting the event wakes all that wait for it, whoever sent the line.
HandleNotify(chunk) ==
  /\ buffer' = buffer \o chunk
  /\ IF HasPrompt(chunk)
     THEN /\ isSet' = TRUE
          /\ task' = [ i \in DOMAIN task |->
                         IF task[i].at = "wait" /\ task[i].event = event
                         THEN [ task[i] EXCEPT !.at = "awake" ] ELSE task[i] ]
     ELSE UNCHANGED << isSet, task >>

Deliver(n) ==
  /\ caller # "closed"
  /\ notifying
  /\ n <= Len(air)
  /\ HandleNotify(SubSeq(air, 1, n))
  /\ air' = SubSeq(air, n + 1, Len(air))
  /\ UNCHANGED << caller, calls, outcomes, client, lastTarget, event, link, notifying,
                  inbox, drops, written >>

AnswerTo(line) ==
  << [ line |-> line, part |-> "text" ],
     [ line |-> line, part |-> "promptHead" ],
     [ line |-> line, part |-> "promptTail" ] >>

\* A line is run whether its answer can be sent or not.
RunLine ==
  /\ inbox # << >>
  /\ inbox' = Tail(inbox)
  /\ LET line == Head(inbox)
     IN air' = IF notifying THEN air \o AnswerTo(line) ELSE air
  /\ UNCHANGED << caller, calls, outcomes, task, transport, buffer, link, notifying,
                  drops, written >>

\* About eight seconds without a line, or the radio.
Drop ==
  /\ link # 0
  /\ drops < MaxDrops
  /\ drops' = drops + 1
  /\ link' = 0
  /\ notifying' = FALSE
  /\ air' = << >>
  /\ UNCHANGED << caller, calls, outcomes, task, transport, buffer, inbox, written >>

-----------------------------------------------------------------------------
Caller ==
  \/ Connect
  \/ SendLine
  \/ SendLineReconnecting
  \/ SendLineUnconnected
  \/ Disconnect
  \/ Close

CallEnds == Return \/ CallOverruns

Bridge == RunLine \/ Drop \/ \E n \in 1 .. MaxChunk : Deliver(n)

Next ==
  \/ Caller
  \/ CallEnds
  \/ \E i \in DOMAIN task : Coroutine(i)
  \/ Bridge

Safety == Init /\ [][Next]_vars

\* future.result waits no longer than its timeout.
Spec == Safety /\ WF_vars(CallEnds)

-----------------------------------------------------------------------------
TypeOK ==
  /\ caller \in { "idle", "busy", "closed" }
  /\ calls \in Seq(Kind)
  /\ outcomes \in Seq(Result \cup { Running, Overrun })
  /\ task \in Seq([ at : { "disconnect", "scan", "link", "subscribe", "write", "wait",
                           "awake", "ended" },
                    by : 0 .. MaxCalls, event : 0 .. MaxCalls, start : Nat,
                    result : Result \cup { Running } ])
  /\ client \in 0 .. MaxCalls
  /\ lastTarget \in BOOLEAN
  /\ event \in 0 .. MaxCalls
  /\ isSet \in BOOLEAN
  /\ buffer \in Seq(Token)
  /\ link \in 0 .. MaxCalls
  /\ notifying \in BOOLEAN
  /\ inbox \in Seq(1 .. MaxCalls)
  /\ air \in Seq(Token)
  /\ drops \in 0 .. MaxDrops
  /\ written \in Seq(1 .. MaxCalls)

\* A line whose call ended without an answer.
GaveUp(i) == calls[i] = "send" /\ outcomes[i].kind \notin { "running", "answer" }

\* send_line returns the answer to its own line, the whole of it and nothing
\* else, unless an earlier send_line ended without an answer; what it returns
\* of another line is of one not older than such a call.
OwnAnswerUnlessGaveUp ==
  \A i \in 1 .. Len(calls) :
    outcomes[i].kind = "answer" =>
      LET text == outcomes[i].text
      IN /\ text = << i >> \/ \E j \in 1 .. i - 1 : GaveUp(j)
         /\ \A k \in 1 .. Len(text) :
              text[k] # i => text[k] < i /\ \E j \in 1 .. text[k] : GaveUp(j)

\* The lines reach the bridge in the order of the calls, except one whose call
\* was ended by the timeout of _call: no other timeout leaves a coroutine that
\* may still write.
LateLineOnlyFromOverrun ==
  \A m, n \in 1 .. Len(written) :
    m < n /\ written[m] > written[n] => outcomes[written[n]] = Overrun

Failed(i) == i \in DOMAIN outcomes /\ outcomes[i].kind \in { "overrun", "foreign" }

\* After close, with all coroutines stopped, nobody holds the link, unless the
\* call that made it failed or close itself did: no other call's failure, and
\* no link the bridge has closed, leaves one behind.
ClosedCleanly ==
  caller = "closed" /\ link # 0 =>
    Failed(link) \/ (calls[Current] = "close" /\ Failed(Current))

\* A notification with a whole prompt in it ends the wait of the call in
\* progress, whatever the coroutines of earlier calls have put into _client and
\* _prompt_event since that call began.
WholePromptEndsWait ==
  [][ \A n \in 1 .. MaxChunk :
        Deliver(n) /\ HasPrompt(SubSeq(air, 1, n)) /\ caller = "busy"
          /\ task[Current].at = "wait"
        => task'[Current].at = "awake" ]_vars

\* "No llego el prompt del shell dentro del timeout configurado": a call that
\* waited in vain for the prompt of its line has not got it in the buffer.
PromptArrived(i) ==
  \E k \in 1 .. Len(buffer) : buffer[k] = [ line |-> i, part |-> "promptTail" ]
TimeoutMeansNoPrompt ==
  [][ \A i \in DOMAIN task : WaitTimesOut(i) => ~PromptArrived(i) ]_vars
=============================================================================
