------------------------- MODULE UciClientInvariant -------------------------
(***************************************************************************)
(* The inductive invariant behind the safety properties of UciClient.  The *)
(* properties speak of what calls returned; the invariant adds what is     *)
(* still on its way: responses and notifications are on the wire in the    *)
(* order of their numbers, behind all that was taken from it, and every    *)
(* response that is late is late because of a call that gave up.           *)
(***************************************************************************)
EXTENDS UciClient

IsResponse(item) == item.mt = "response"
IsNotification(item) == item.mt = "notification"

\* The items of one type are in s in the order of their numbers.
Ordered(s, mt) ==
  \A i, j \in 1 .. Len(s) :
    i < j /\ s[i].mt = mt /\ s[j].mt = mt => s[i].id < s[j].id

\* The items of one type in s all have a number greater than n.
AllAfter(s, mt, n) == \A i \in 1 .. Len(s) : s[i].mt = mt => n < s[i].id

\* They all have a smaller one.
AllBefore(s, mt, n) == \A i \in 1 .. Len(s) : s[i].mt = mt => s[i].id < n

\* A command with this key, not later than this one, ended without a response.
Excused(id) ==
  \E j \in 1 .. id :
    /\ j <= Len(outcomes)
    /\ commands[j] = commands[id]
    /\ outcomes[j] \in GaveUp

\* The response to a call that is over is still to come only for that reason.
ExcusedIfLate(id) == id <= Len(outcomes) => Excused(id)

-----------------------------------------------------------------------------
\* A call is over as soon as its outcome is known, and only a call of feed and
\* the loop over its list hold decoded messages.
CallsInv ==
  /\ Len(outcomes) = IF Waiting THEN Len(commands) - 1 ELSE Len(commands)
  /\ decoded <= Len(wire)
  /\ pc \notin { "awaitRead", "awaitBatch", "pollRead", "pollBatch" } => decoded = 0
  /\ pc \in { "awaitDeadline", "awaitRead" } => response = NoResponse
  /\ Waiting => Len(commands) > 0

-----------------------------------------------------------------------------
(* The commands the device has yet to take, and the responses on the wire.  *)

OwedSent ==
  \A i \in 1 .. Len(unanswered) :
    unanswered[i] \in 1 .. Len(commands) /\ ExcusedIfLate(unanswered[i])

OwedInOrder ==
  \A i, j \in 1 .. Len(unanswered) : i < j => unanswered[i] < unanswered[j]

\* It is older than every response still to be sent.
BeforeOwed(item) == \A j \in 1 .. Len(unanswered) : item.id < unanswered[j]

WireAnswers ==
  \A i \in 1 .. Len(wire) :
    IsResponse(wire[i]) =>
      /\ wire[i].id \in 1 .. Len(commands)
      /\ wire[i].key = commands[wire[i].id]
      /\ ExcusedIfLate(wire[i].id)

ResponsesInOrder == Ordered(wire, "response")

WireBeforeOwed ==
  \A i \in 1 .. Len(wire) : IsResponse(wire[i]) => BeforeOwed(wire[i])

OutstandingInv ==
  OwedSent /\ OwedInOrder /\ WireAnswers /\ ResponsesInOrder /\ WireBeforeOwed

-----------------------------------------------------------------------------
(* The responses that were returned, and the one that is about to be.       *)

\* It answers a command with the key of call i: its own if none gave up.
GoodFor(item, i) ==
  /\ IsResponse(item)
  /\ item.id \in 1 .. i
  /\ item.key = commands[i]
  /\ commands[item.id] = commands[i]
  /\ item.id < i => Excused(item.id)

\* It is older than every response on the wire.
BeforeWire(item) == AllAfter(wire, "response", item.id)

ReturnedGood ==
  \A i \in 1 .. Len(outcomes) : IsResponse(outcomes[i]) => GoodFor(outcomes[i], i)

ReturnedBeforeWire ==
  \A i \in 1 .. Len(outcomes) : IsResponse(outcomes[i]) => BeforeWire(outcomes[i])

ReturnedBeforeOwed ==
  \A i \in 1 .. Len(outcomes) : IsResponse(outcomes[i]) => BeforeOwed(outcomes[i])

ReturnedInOrder == Ordered(outcomes, "response")

ReturnedInv ==
  ReturnedGood /\ ReturnedBeforeWire /\ ReturnedBeforeOwed /\ ReturnedInOrder

Holding == Waiting /\ response # NoResponse

HeldGood == Holding => GoodFor(response, Len(commands))

HeldBeforeWire == Holding => BeforeWire(response)

HeldBeforeOwed == Holding => BeforeOwed(response)

HeldLast == Holding => AllBefore(outcomes, "response", response.id)

HeldInv == HeldGood /\ HeldBeforeWire /\ HeldBeforeOwed /\ HeldLast

-----------------------------------------------------------------------------
(* The notifications, those kept and those on the wire.                     *)

EmittedNumbered ==
  \A i \in 1 .. Len(emitted) : IsNotification(emitted[i]) /\ emitted[i].id = i

WireEmitted ==
  \A i \in 1 .. Len(wire) :
    IsNotification(wire[i]) =>
      wire[i].id \in 1 .. Len(emitted) /\ wire[i] = emitted[wire[i].id]

WireNotificationsInOrder == Ordered(wire, "notification")

KeptEmitted ==
  \A i \in 1 .. Len(notifications) :
    /\ notifications[i].id \in 1 .. Len(emitted)
    /\ notifications[i] = emitted[notifications[i].id]

KeptBeforeWire ==
  \A i \in 1 .. Len(notifications) : AllAfter(wire, "notification", notifications[i].id)

EmittedInv ==
  /\ EmittedNumbered
  /\ WireEmitted
  /\ WireNotificationsInOrder
  /\ KeptEmitted
  /\ KeptBeforeWire
  /\ NotificationsInOrder

-----------------------------------------------------------------------------
\* Inductive for every device, with faults or without.
SafeInv ==
  TypeOK /\ CallsInv /\ OutstandingInv /\ ReturnedInv /\ HeldInv /\ EmittedInv

\* As long as there was no fault nothing is broken.
UnbrokenInv ==
  faults = 0 =>
    /\ \A i \in 1 .. Len(wire) : wire[i].mt \notin Broken
    /\ pending = NoFragment

\* Without faults nothing is broken, the list is the beginning of what was
\* emitted and the rest is on the wire.
NoGapInv ==
  /\ \A i \in 1 .. Len(wire) : wire[i].mt \notin Broken
  /\ pending = NoFragment
  /\ Len(notifications) <= Len(emitted)
  /\ \A i \in 1 .. Len(notifications) : notifications[i] = emitted[i]
  /\ \A k \in Len(notifications) + 1 .. Len(emitted) :
       \E i \in 1 .. Len(wire) : wire[i] = emitted[k]
=============================================================================
