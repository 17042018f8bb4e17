------------------------------ MODULE UciClient ------------------------------
(***************************************************************************)
(* UciClient of core/client.py: one command at a time, its response picked *)
(* out of the stream by group and opcode, the notifications kept.          *)
(*                                                                         *)
(* Everything below the client is one sequence, wire: what the device has  *)
(* sent and the client has not yet dealt with, in the link, in the buffer  *)
(* of the decoder or, the first `decoded' items, in the list that feed     *)
(* returned.  StreamDecoder justifies it: whatever the chunks, feed returns *)
(* the next messages in order.  An item that is not a message is of one of *)
(* the types in Broken.                                                    *)
(*                                                                         *)
(* The device is external.  It takes the commands in order and answers     *)
(* when it likes; a response carries the number of the command it answers, *)
(* which the client cannot see.  With MaxFaults > 0 it may leave a command *)
(* unanswered and send what the decoder rejects, and a read or a write of   *)
(* the port may raise.  A read that raises loses whole items or nothing:   *)
(* bytes lost in the middle of a packet would leave the decoder out of     *)
(* step with the packets, which is not modelled.                           *)
(***************************************************************************)
EXTENDS Naturals, Sequences

CONSTANTS
  Key,               \* pairs of GID and OID
  MaxCommands,       \* bound on the commands sent
  MaxNotifications,  \* bound on the notifications sent
  MaxFaults          \* bound on the faults of the device and the port

ASSUME BoundsAssumption ==
  /\ MaxCommands \in Nat
  /\ MaxNotifications \in Nat
  /\ MaxFaults \in Nat

\* The first packets of a message that the device never finished.
Starts == { "responseStart", "notificationStart" }

\* "unknown" is a packet of a type outside MessageType.
Broken == Starts \cup { "unknown" }

Item == [ mt : {"response", "notification"} \cup Broken, key : Key, id : Nat ]

\* The message type in the header of an item.
HeaderType(item) ==
  CASE item.mt = "responseStart" -> "response"
    [] item.mt = "notificationStart" -> "notification"
    [] OTHER -> item.mt

NoResponse == [ mt |-> "none" ]
NoFragment == [ mt |-> "none" ]
TimedOut == [ mt |-> "timeout" ]
FramingError == [ mt |-> "error" ]
LinkError == [ mt |-> "linkError" ]

\* How a call can end without a response.
GaveUp == { TimedOut, FramingError, LinkError }

VARIABLES
  pc,             \* where the client is; "ready" between calls
  expired,        \* whether the deadline of the call has passed
  response,       \* local of the call: the response found in this batch
  notifications,  \* UciClient.notifications
  fresh,          \* new_notifications of the last call of poll_notifications
  mark,           \* history: Len(notifications) when that call began
  pending,        \* StreamDecoder._pending, when it is what a Broken item left
  decoded,        \* how many items of wire feed has decoded and no loop has taken
  commands,       \* history: the keys of the commands sent, numbered from 1
  outcomes,       \* history: how each command that is over ended
  wire,           \* sent by the device and not yet dealt with
  unanswered,     \* the numbers of the commands the device has yet to take
  emitted,        \* history: the notifications the device sent
  faults          \* how many faults the device and the port have had

client ==
  << pc, expired, response, notifications, fresh, mark, pending, commands, outcomes >>
device == << unanswered, emitted, faults >>
vars == << client, device, decoded, wire >>

Init ==
  /\ pc = "ready"
  /\ expired = FALSE
  /\ response = NoResponse
  /\ notifications = << >>
  /\ fresh = << >>
  /\ mark = 0
  /\ pending = NoFragment
  /\ decoded = 0
  /\ commands = << >>
  /\ outcomes = << >>
  /\ wire = << >>
  /\ unanswered = << >>
  /\ emitted = << >>
  /\ faults = 0

\* The number of the command in progress, or of the last one.
Current == Len(commands)

Waiting == pc \in { "awaitDeadline", "awaitRead", "awaitBatch" }
Polling == pc \in { "pollRead", "pollBatch", "pollDeadline" }

-----------------------------------------------------------------------------
(* The device. *)

Respond ==
  /\ unanswered # << >>
  /\ unanswered' = Tail(unanswered)
  /\ LET id == Head(unanswered)
     IN wire' = Append(wire, [ mt |-> "response", key |-> commands[id], id |-> id ])
  /\ UNCHANGED << client, decoded, emitted, faults >>

\* Of any key: RANGING_DATA_NTF has the key of RANGING_START.
Notify(key) ==
  /\ Len(emitted) < MaxNotifications
  /\ LET item == [ mt |-> "notification", key |-> key, id |-> Len(emitted) + 1 ]
     IN /\ emitted' = Append(emitted, item)
        /\ wire' = Append(wire, item)
  /\ UNCHANGED << client, decoded, unanswered, faults >>

Ignore ==
  /\ unanswered # << >>
  /\ faults < MaxFaults
  /\ faults' = faults + 1
  /\ unanswered' = Tail(unanswered)
  /\ UNCHANGED << client, decoded, wire, emitted >>

Garble(mt, key) ==
  /\ faults < MaxFaults
  /\ faults' = faults + 1
  /\ wire' = Append(wire, [ mt |-> mt, key |-> key, id |-> 0 ])
  /\ UNCHANGED << client, decoded, unanswered, emitted >>

-----------------------------------------------------------------------------
(* Reading: what both calls do with the transport and the decoder. *)

\* It continues the fragments that are pending, if any are.
Readable(item) ==
  /\ item.mt # "unknown"
  /\ pending # NoFragment =>
       pending.key = item.key /\ HeaderType(pending) = HeaderType(item)

\* One turn of the loop of feed: a message completed, or fragments gathered.
DecodeItem ==
  /\ decoded < Len(wire)
  /\ LET item == wire[decoded + 1]
     IN /\ Readable(item)
        /\ pending' = IF item.mt \in Starts THEN item ELSE NoFragment
  /\ decoded' = decoded + 1
  /\ UNCHANGED wire

\* feed raises: what it has decoded in this call is gone.  The packet that
\* interrupts the pending fragments is off the buffer, they stay; the next packet
\* of the same message, if there is one, raises again.  A packet of unknown type
\* stays in the buffer.
FeedRaises ==
  /\ decoded < Len(wire)
  /\ LET item == wire[decoded + 1]
     IN /\ ~Readable(item)
        /\ \E gone \in { decoded, decoded + 1 } :
             /\ item.mt = "unknown" => gone = decoded
             /\ wire' = SubSeq(wire, gone + 1, Len(wire))
  /\ decoded' = 0
  /\ UNCHANGED pending

\* read raises, and what it had taken from the port by then is gone.
ReadRaises ==
  /\ decoded = 0
  /\ faults < MaxFaults
  /\ faults' = faults + 1
  /\ \E lost \in 0 .. Len(wire) : wire' = SubSeq(wire, lost + 1, Len(wire))
  /\ UNCHANGED << pending, decoded, unanswered, emitted >>

\* Variant: the packet stays in the buffer and is decoded once more.
TakeMessageLeaving ==
  /\ decoded > 0
  /\ decoded' = 0
  /\ UNCHANGED << wire, pending >>

\* The next message of the list; an unfinished one is not in it.
TakeMessage ==
  /\ decoded > 0
  /\ decoded' = decoded - 1
  /\ wire' = Tail(wire)
  /\ UNCHANGED pending

-----------------------------------------------------------------------------
(* _send_command_and_wait_response *)

\* Variant: what is still unread is thrown away before the command is sent.
SendCommandFlushing(key) ==
  /\ pc = "ready"
  /\ Current < MaxCommands
  /\ commands' = Append(commands, key)
  /\ unanswered' = Append(unanswered, Len(commands'))
  /\ expired' = FALSE
  /\ response' = NoResponse
  /\ wire' = << >>
  /\ pc' = "awaitDeadline"
  /\ UNCHANGED << notifications, fresh, mark, pending, decoded, outcomes, emitted, faults >>

\* Nothing that is still unread is thrown away first.
SendCommand(key) ==
  /\ pc = "ready"
  /\ Current < MaxCommands
  /\ commands' = Append(commands, key)
  /\ unanswered' = Append(unanswered, Len(commands'))
  /\ expired' = FALSE
  /\ response' = NoResponse
  /\ pc' = "awaitDeadline"
  /\ UNCHANGED << notifications, fresh, mark, pending, decoded, outcomes, wire,
                  emitted, faults >>

\* The end of the call: a response is returned or an exception raised.
Finish(outcome) ==
  /\ outcomes' = Append(outcomes, outcome)
  /\ pc' = "ready"

\* write raises: the call is over before it reads, yet the device may have got
\* the command.
SendCommandRaises(key) ==
  /\ pc = "ready"
  /\ Current < MaxCommands
  /\ faults < MaxFaults
  /\ faults' = faults + 1
  /\ commands' = Append(commands, key)
  /\ unanswered' \in { unanswered, Append(unanswered, Len(commands')) }
  /\ Finish(LinkError)
  /\ UNCHANGED << expired, response, notifications, fresh, mark, pending, decoded,
                  wire, emitted >>

\* Variant: the deadline is not looked at.
AwaitDeadlineIgnored ==
  /\ pc = "awaitDeadline"
  /\ pc' = "awaitRead"
  /\ UNCHANGED << expired, response, notifications, fresh, mark, pending, commands,
                  outcomes, device, decoded, wire >>

\* The condition of the loop: another round, or UciTimeoutError.
AwaitDeadline ==
  /\ pc = "awaitDeadline"
  /\ \/ ~expired /\ pc' = "awaitRead" /\ UNCHANGED outcomes
     \/ expired /\ Finish(TimedOut)
  /\ UNCHANGED << expired, response, notifications, fresh, mark, pending, commands,
                  device, decoded, wire >>

AwaitReadRaises ==
  /\ pc = "awaitRead"
  /\ ReadRaises
  /\ Finish(LinkError)
  /\ UNCHANGED << expired, response, notifications, fresh, mark, commands >>

\* A read and a feed; no turn at all if the read returned nothing or too little.
AwaitDecode ==
  /\ pc = "awaitRead"
  /\ DecodeItem
  /\ UNCHANGED << pc, expired, response, notifications, fresh, mark, commands,
                  outcomes, device >>

AwaitFeedRaises ==
  /\ pc = "awaitRead"
  /\ FeedRaises
  /\ Finish(FramingError)
  /\ UNCHANGED << expired, response, notifications, fresh, mark, commands, device >>

AwaitFeedReturns ==
  /\ pc = "awaitRead"
  /\ response' = NoResponse
  /\ pc' = "awaitBatch"
  /\ UNCHANGED << expired, notifications, fresh, mark, pending, commands, outcomes,
                  device, decoded, wire >>

\* Variant: the type is not looked at.
MatchesKeyOnly(message) == message.key = commands[Current]

\* Variant: the group and the opcode are not looked at.
MatchesAnyResponse(message) == message.mt = "response"

Matches(message) ==
  /\ message.mt = "response"
  /\ message.key = commands[Current]

\* Variant: the call returns at the response; the rest of the list is lost.
AwaitMessageReturning ==
  /\ pc = "awaitBatch"
  /\ decoded > 0
  /\ LET message == Head(wire)
     IN IF Matches(message)
        THEN /\ response' = message
             /\ wire' = SubSeq(wire, decoded + 1, Len(wire))
             /\ decoded' = 0
             /\ UNCHANGED << notifications, pending >>
        ELSE /\ TakeMessage
             /\ response' = response
             /\ notifications' = IF message.mt = "notification"
                                 THEN Append(notifications, message)
                                 ELSE notifications
  /\ UNCHANGED << pc, expired, fresh, mark, commands, outcomes, device >>

\* Variant: a message after the response makes the call forget it.
AwaitMessageForgetting ==
  /\ pc = "awaitBatch"
  /\ TakeMessage
  /\ LET message == Head(wire)
     IN /\ response' = IF Matches(message) THEN message ELSE NoResponse
        /\ notifications' = IF message.mt = "notification"
                            THEN Append(notifications, message)
                            ELSE notifications
  /\ UNCHANGED << pc, expired, fresh, mark, commands, outcomes, device >>

\* A later match replaces an earlier one; other responses are ignored.
AwaitMessage ==
  /\ pc = "awaitBatch"
  /\ TakeMessage
  /\ LET message == Head(wire)
     IN /\ response' = IF Matches(message) THEN message ELSE response
        /\ notifications' = IF ~Matches(message) /\ message.mt = "notification"
                            THEN Append(notifications, message)
                            ELSE notifications
  /\ UNCHANGED << pc, expired, fresh, mark, commands, outcomes, device >>

\* Variant: the call returns after the first batch, with a response or without.
AwaitBatchEndAlways ==
  /\ pc = "awaitBatch"
  /\ decoded = 0
  /\ Finish(response)
  /\ UNCHANGED << expired, response, notifications, fresh, mark, pending, commands,
                  device, decoded, wire >>

AwaitBatchEnd ==
  /\ pc = "awaitBatch"
  /\ decoded = 0
  /\ \/ response = NoResponse /\ pc' = "awaitDeadline" /\ UNCHANGED outcomes
     \/ response # NoResponse /\ Finish(response)
  /\ UNCHANGED << expired, response, notifications, fresh, mark, pending, commands,
                  device, decoded, wire >>

-----------------------------------------------------------------------------
(* poll_notifications *)

StartPoll ==
  /\ pc = "ready"
  /\ fresh' = << >>
  /\ mark' = Len(notifications)
  /\ expired' = FALSE
  /\ pc' = "pollRead"
  /\ UNCHANGED << response, notifications, pending, commands, outcomes, device,
                  decoded, wire >>

PollDecode ==
  /\ pc = "pollRead"
  /\ DecodeItem
  /\ UNCHANGED << pc, expired, response, notifications, fresh, mark, commands,
                  outcomes, device >>

PollReadRaises ==
  /\ pc = "pollRead"
  /\ ReadRaises
  /\ pc' = "ready"
  /\ UNCHANGED << expired, response, notifications, fresh, mark, commands, outcomes >>

\* What the call has gathered is lost to its caller, but not the part of it
\* that is in UciClient.notifications.
PollFeedRaises ==
  /\ pc = "pollRead"
  /\ FeedRaises
  /\ pc' = "ready"
  /\ UNCHANGED << expired, response, notifications, fresh, mark, commands,
                  outcomes, device >>

PollFeedReturns ==
  /\ pc = "pollRead"
  /\ pc' = "pollBatch"
  /\ UNCHANGED << expired, response, notifications, fresh, mark, pending, commands,
                  outcomes, device, decoded, wire >>

\* Variant: only the caller gets the notification.
PollMessageNotKept ==
  /\ pc = "pollBatch"
  /\ TakeMessage
  /\ fresh' = IF Head(wire).mt = "notification" THEN Append(fresh, Head(wire)) ELSE fresh
  /\ UNCHANGED << pc, expired, response, notifications, mark, commands, outcomes, device >>

\* Variant: the newest notification comes first in the list.
PollMessageNewestFirst ==
  /\ pc = "pollBatch"
  /\ TakeMessage
  /\ LET message == Head(wire)
     IN IF message.mt = "notification"
        THEN /\ notifications' = << message >> \o notifications
             /\ fresh' = << message >> \o fresh
        ELSE UNCHANGED << notifications, fresh >>
  /\ UNCHANGED << pc, expired, response, mark, commands, outcomes, device >>

\* A response is dropped: there is no call to return it to.
PollMessage ==
  /\ pc = "pollBatch"
  /\ TakeMessage
  /\ LET message == Head(wire)
     IN IF message.mt = "notification"
        THEN /\ notifications' = Append(notifications, message)
             /\ fresh' = Append(fresh, message)
        ELSE UNCHANGED << notifications, fresh >>
  /\ UNCHANGED << pc, expired, response, mark, commands, outcomes, device >>

PollBatchEnd ==
  /\ pc = "pollBatch"
  /\ decoded = 0
  /\ pc' = "pollDeadline"
  /\ UNCHANGED << expired, response, notifications, fresh, mark, pending, commands,
                  outcomes, device, decoded, wire >>

\* The deadline is looked at after a read, so there is always one read.
PollDeadline ==
  /\ pc = "pollDeadline"
  /\ pc' = IF expired THEN "ready" ELSE "pollRead"
  /\ UNCHANGED << expired, response, notifications, fresh, mark, pending, commands,
                  outcomes, device, decoded, wire >>

-----------------------------------------------------------------------------
\* time.monotonic() reaches the deadline of the call in progress.
DeadlinePasses ==
  /\ pc # "ready"
  /\ ~expired
  /\ expired' = TRUE
  /\ UNCHANGED << pc, response, notifications, fresh, mark, pending, commands,
                  outcomes, device, decoded, wire >>

Device ==
  \/ Respond
  \/ \E key \in Key : Notify(key)
  \/ Ignore
  \/ \E mt \in Broken, key \in Key : Garble(mt, key)

\* The steps of a call under way.
Await ==
  \/ AwaitDeadline
  \/ AwaitReadRaises
  \/ AwaitDecode
  \/ AwaitFeedRaises
  \/ AwaitFeedReturns
  \/ AwaitMessage
  \/ AwaitBatchEnd

Poll ==
  \/ PollReadRaises
  \/ PollDecode
  \/ PollFeedRaises
  \/ PollFeedReturns
  \/ PollMessage
  \/ PollBatchEnd
  \/ PollDeadline

Next ==
  \/ Device
  \/ \E key \in Key : SendCommand(key) \/ SendCommandRaises(key)
  \/ StartPoll
  \/ Await
  \/ Poll
  \/ DeadlinePasses

Safety == Init /\ [][Next]_vars

\* Neither call blocks for longer than the timeout of one read, and the clock
\* goes on.
CallFairness == WF_vars(Await) /\ WF_vars(Poll) /\ WF_vars(DeadlinePasses)

Spec == Safety /\ CallFairness

\* A caller that polls in a loop, as run_mixed_ranging does.  A read returns at
\* least one byte if there is one, so reads in a row complete a message that
\* has been sent.
PollingFairness ==
  /\ WF_vars(StartPoll)
  /\ SF_vars(PollDecode)

PollingSpec == Spec /\ PollingFairness

-----------------------------------------------------------------------------
TypeOK ==
  /\ pc \in { "ready", "awaitDeadline", "awaitRead", "awaitBatch",
              "pollRead", "pollBatch", "pollDeadline" }
  /\ expired \in BOOLEAN
  /\ response \in Item \cup {NoResponse}
  /\ notifications \in Seq(Item)
  /\ fresh \in Seq(Item)
  /\ mark \in Nat
  /\ pending \in Item \cup {NoFragment}
  /\ decoded \in Nat
  /\ commands \in Seq(Key)
  /\ outcomes \in Seq(Item \cup GaveUp)
  /\ wire \in Seq(Item)
  /\ unanswered \in Seq(Nat)
  /\ emitted \in Seq(Item)
  /\ faults \in Nat

\* A response that a call returns has the key of its command, and it is the
\* response to that very command unless an earlier command with the same key
\* ended without one: then, and only then, the late answer may be returned in
\* its place, and every later call with that key may be one answer behind.
OwnResponseUnlessGaveUp ==
  \A i \in 1 .. Len(outcomes) :
    outcomes[i].mt = "response" =>
      /\ outcomes[i].key = commands[i]
      /\ \/ outcomes[i].id = i
         \/ /\ outcomes[i].id < i
            /\ \E j \in 1 .. outcomes[i].id :
                 commands[j] = commands[i] /\ outcomes[j] \in GaveUp

\* No response is returned by two calls.
NoResponseReturnedTwice ==
  \A i, j \in 1 .. Len(outcomes) :
    /\ outcomes[i].mt = "response"
    /\ outcomes[j].mt = "response"
    /\ outcomes[i].id = outcomes[j].id
    => i = j

\* While a call waits, the response to its command has not been thrown away:
\* the device still owes it, or it is on its way, or in the hands of the call.
\* For a device without faults.
ResponseStillComing ==
  Waiting /\ faults = 0 =>
    \/ \E i \in 1 .. Len(unanswered) : unanswered[i] = Current
    \/ \E i \in 1 .. Len(wire) : wire[i].mt = "response" /\ wire[i].id = Current
    \/ response # NoResponse

\* The notifications kept are in the order in which the device sent them and
\* none is there twice, whatever call met them and whatever was lost.
NotificationsInOrder ==
  \A i, j \in 1 .. Len(notifications) :
    i < j => notifications[i].id < notifications[j].id

\* poll_notifications hands out exactly the notifications that were added to
\* the list since it was called.
PollReturnsTheNew ==
  /\ mark + Len(fresh) <= Len(notifications)
  /\ fresh = SubSeq(notifications, mark + 1, mark + Len(fresh))
  /\ Polling => mark + Len(fresh) = Len(notifications)

\* Every call ends, in a response, a timeout or an error.
CallsEnd == pc # "ready" ~> pc = "ready"

\* The list of notifications is a channel without loss from the device, to
\* whoever polls.  For a device without faults.
Feed == INSTANCE FifoChannel
          WITH Item <- Item, sent <- emitted, received <- notifications
ImplementsChannel == Feed!Spec

\* The commands are the service that a caller is promised: each call ends, with
\* its own response, a late one that CommandService allows, or a failure.
Commands == INSTANCE CommandService WITH Failure <- GaveUp
ImplementsService == Commands!Spec

\* "correlaciona la Response con el Command que la origino".
CorrelatedResponse ==
  \A i \in 1 .. Len(outcomes) :
    outcomes[i].mt = "response" => outcomes[i].id = i
=============================================================================
