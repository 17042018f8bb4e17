---------------------------- MODULE RangingRounds ----------------------------
(***************************************************************************)
(* The local side of run_mixed_ranging: which of the rounds that the       *)
(* device reports are counted.  MixedRanging has the calls, what they      *)
(* leave behind and the remote side; here the calls share one stream of    *)
(* messages with the rounds.                                               *)
(*                                                                         *)
(* wire is what the device has sent and the client has not read.  As       *)
(* UciClient has it, a call reads it from the front, in batches of any     *)
(* length, up to the batch with its response and all of that; poll reads   *)
(* any part of it.  Each command is sent once, so the response with its    *)
(* key is its own.                                                         *)
(*                                                                         *)
(* The device is external.  It takes the commands in order and reports the *)
(* rounds of every session that is ranging, also of the one an earlier run *)
(* may have left, whose measurements may be of another type.               *)
(***************************************************************************)
EXTENDS Naturals, Sequences, Selection

\* Bound on the notifications of the device.
CONSTANT MaxRounds

ASSUME MaxRoundsAssumption == MaxRounds \in Nat

Calls ==
  { "reset", "sessionInit", "setAppConfig", "rangingStart", "rangingStop", "deinit" }

\* What the loop makes of a notification: a TWR measurement with or without
\* status OK, a round without measurements, one that a parser raises for (too
\* short, or with a code the enums lack), or a notification of another kind.
Reading == { "success", "failure", "empty", "raises", "otherKind" }

Session == { "own", "old" }

Rounds(sessionsOf, reads) ==
  [ mt : { "notification" }, session : sessionsOf, number : Nat, read : reads ]

Notification == Rounds(Session, Reading)

VARIABLES
  pc,        \* the call under way or to come, "poll", or "done"
  waiting,   \* whether its command has been sent
  raised,    \* whether an exception is under way
  handle,    \* whose the session_handle is: "none" before, "nobody" if unknown to the device
  kept,      \* UciClient.notifications
  counted,   \* the notifications that made successful_rounds
  queue,     \* commands the device has yet to take
  sessions,  \* the device's sessions
  wire,      \* sent by the device and not yet read
  emitted,   \* history: the notifications sent
  observed,  \* history: how many were kept when the loop began, and after its last turn
  refused    \* history: the calls that returned with another status than OK

program == << pc, waiting, raised, handle, kept, counted >>
device == << queue, sessions, emitted >>
vars == << program, device, wire, observed, refused >>

Init ==
  /\ pc = "reset"
  /\ waiting = FALSE
  /\ raised = FALSE
  /\ handle = "none"
  /\ kept = << >>
  /\ counted = << >>
  /\ queue = << >>
  /\ sessions \in [ Session -> { "none", "idle", "active" } ]
  /\ sessions["own"] = "none"
  /\ wire = << >>
  /\ emitted = << >>
  /\ observed = << 0, 0 >>
  /\ refused = {}

-----------------------------------------------------------------------------
(* The device.                                                              *)

\* A round of a session that is ranging.  What else the device reports is only
\* there to be skipped, so it may as well be about the same session.
Report(session, read) ==
  /\ sessions[session] = "active"
  /\ Len(emitted) < MaxRounds
  /\ LET round == [ mt |-> "notification", session |-> session,
                    number |-> Len(emitted) + 1, read |-> read ]
     IN /\ emitted' = Append(emitted, round)
        /\ wire' = Append(wire, round)
  /\ UNCHANGED << program, queue, sessions, observed, refused >>

Answer(ok, of) ==
  [ mt |-> "response", key |-> Head(queue), ok |-> ok, handle |-> of ]

\* Before and after a command that succeeds, the session it is about.
Effect ==
  CASE Head(queue) = "sessionInit" -> << { "none" }, "init" >>
    [] Head(queue) = "setAppConfig" -> << { "init", "idle" }, "idle" >>
    [] Head(queue) = "rangingStart" -> << { "idle" }, "active" >>
    [] Head(queue) = "rangingStop" -> << { "active" }, "idle" >>

About == IF Head(queue) = "sessionInit" THEN "own" ELSE handle

Obeyed ==
  CASE Head(queue) = "reset" -> sessions' = [ session \in Session |-> "none" ]
    [] Head(queue) = "deinit" ->
         /\ handle \in Session
         /\ sessions[handle] # "none"
         /\ sessions' = [ sessions EXCEPT ![handle] = "none" ]
    [] OTHER ->
         /\ About \in Session
         /\ sessions[About] \in Effect[1]
         /\ sessions' = [ sessions EXCEPT ![About] = Effect[2] ]

Obey ==
  /\ queue # << >>
  /\ Obeyed
  /\ queue' = Tail(queue)
  /\ wire' = Append(wire, Answer(TRUE, "own"))
  /\ UNCHANGED << program, emitted, observed, refused >>

\* The handle in a refusal may be anything.
Refuse ==
  /\ queue # << >>
  /\ queue' = Tail(queue)
  /\ \E of \in { "old", "nobody" } : wire' = Append(wire, Answer(FALSE, of))
  /\ UNCHANGED << program, sessions, emitted, observed, refused >>

\* The write failed, or the device does not answer.
Lose ==
  /\ queue # << >>
  /\ queue' = Tail(queue)
  /\ UNCHANGED << program, sessions, emitted, wire, observed, refused >>

-----------------------------------------------------------------------------
(* The calls of UciClient.                                                  *)

\* Variant: what is not the response is kept, a response of another call too.
NotificationsAll(items) == items

Notifications(items) == Selected(items, Notification)

\* The first n items of wire are read.
Read(n) ==
  /\ wire' = SubSeq(wire, n + 1, Len(wire))
  /\ kept' = kept \o Notifications(SubSeq(wire, 1, n))

\* What was read may have been lost with the call.
ReadSome ==
  \E n \in 0 .. Len(wire) :
    /\ wire' = SubSeq(wire, n + 1, Len(wire))
    /\ \E m \in 0 .. n : kept' = kept \o Notifications(SubSeq(wire, 1, m))

Send ==
  /\ pc \in Calls
  /\ ~waiting
  /\ waiting' = TRUE
  /\ queue' = Append(queue, pc)
  /\ UNCHANGED << pc, raised, handle, kept, counted, sessions, emitted, wire,
                  observed, refused >>

\* The innermost handler: session_deinit, if there is a handle to call it with.
Finally == IF handle # "none" /\ pc # "deinit" THEN "deinit" ELSE "done"

\* The program goes on after a response.  Only two calls have their status
\* looked at.
GoOn(ok) ==
  IF ~ok /\ pc \in { "setAppConfig", "rangingStart" }
  THEN pc' = Finally /\ raised' = TRUE
  ELSE /\ pc' \in CASE pc = "reset" -> { "sessionInit" }
                    [] pc = "sessionInit" -> { "setAppConfig" }
                    [] pc = "setAppConfig" -> { "rangingStart" }
                    [] pc = "rangingStart" -> { "poll", "rangingStop" }
                    [] pc = "rangingStop" -> { "deinit" }
                    [] pc = "deinit" -> { "done" }
       /\ UNCHANGED raised

Return ==
  /\ waiting
  /\ \E i \in 1 .. Len(wire) :
       /\ wire[i].mt = "response"
       /\ wire[i].key = pc
       /\ \E n \in i .. Len(wire) : Read(n)
       /\ refused' = IF wire[i].ok THEN refused ELSE refused \cup { pc }
       /\ handle' = IF pc = "sessionInit" THEN wire[i].handle ELSE handle
       /\ GoOn(wire[i].ok)
  /\ observed' = IF pc = "rangingStart" THEN << Len(kept'), Len(kept') >> ELSE observed
  /\ waiting' = FALSE
  /\ UNCHANGED << counted, device >>

\* A timeout, an error of the decoder or of the port.
Raise ==
  /\ waiting
  /\ ReadSome
  /\ raised' = TRUE
  /\ pc' = Finally
  /\ waiting' = FALSE
  /\ UNCHANGED << handle, counted, device, observed, refused >>

-----------------------------------------------------------------------------
(* The loop.                                                                *)

\* The part of a list before the first notification that a parser raises for.
Parsed(pending) ==
  LET broken == { i \in 1 .. Len(pending) : pending[i].read = "raises" }
  IN SubSeq(pending, 1,
            CHOOSE n \in 0 .. Len(pending) :
              /\ \A i \in broken : n < i
              /\ n = Len(pending) \/ n + 1 \in broken)

\* Variant: a round without measurements ends the loop over the list.
SuccessesUpToEmpty(pending) ==
  LET empty == { i \in 1 .. Len(pending) : pending[i].read = "empty" }
  IN Selected(SubSeq(pending, 1,
                     CHOOSE n \in 0 .. Len(pending) :
                       /\ \A i \in empty : n < i
                       /\ n = Len(pending) \/ n + 1 \in empty),
              Rounds(Session, { "success" }))

Successes(pending) == Selected(pending, Rounds(Session, { "success" }))

\* Variant: the loop goes over all that UciClient.notifications has.
PendingAll(n) == kept'

\* What poll_notifications returns.
Pending(n) == Notifications(SubSeq(wire, 1, n))

\* A turn; the deadline ends the loop.
PollRounds ==
  /\ pc = "poll"
  /\ \E n \in 0 .. Len(wire) :
       /\ Read(n)
       /\ LET pending == Pending(n)
              parsed == Parsed(pending)
          IN /\ counted' = counted \o Successes(parsed)
             /\ IF parsed = pending
                THEN pc' \in { "poll", "rangingStop" } /\ UNCHANGED raised
                ELSE pc' = Finally /\ raised' = TRUE
  /\ observed' = << observed[1], Len(kept') >>
  /\ UNCHANGED << waiting, handle, device, refused >>

PollRaises ==
  /\ pc = "poll"
  /\ ReadSome
  /\ raised' = TRUE
  /\ pc' = Finally
  /\ UNCHANGED << waiting, handle, counted, device, observed, refused >>

Next ==
  \/ \E session \in Session, read \in Reading : Report(session, read)
  \/ Obey
  \/ Refuse
  \/ Lose
  \/ Send
  \/ Return
  \/ Raise
  \/ PollRounds
  \/ PollRaises

Spec == Init /\ [][Next]_vars

-----------------------------------------------------------------------------
TypeOK ==
  /\ pc \in Calls \cup { "poll", "done" }
  /\ { waiting, raised } \subseteq BOOLEAN
  /\ handle \in Session \cup { "none", "nobody" }
  /\ kept \in Seq(Notification)
  /\ counted \in Seq(Notification)
  /\ queue \in Seq(Calls)
  /\ sessions \in [ Session -> { "none", "init", "idle", "active" } ]
  /\ wire \in Seq(Notification \cup [ mt : { "response" }, key : Calls, ok : BOOLEAN,
                                      handle : { "own", "old", "nobody" } ])
  /\ emitted \in Seq(Notification)
  /\ observed \in Nat \X Nat
  /\ refused \subseteq Calls

\* No round is counted twice, and every one that is counted is a measurement
\* that succeeded in the session of this run, though nobody looks at the
\* session_handle of a notification: what an earlier session reported was read
\* with the response to the reset - unless the device refused that, which
\* nobody looks at either.
CountsOwnMeasurements ==
  \A i \in 1 .. Len(counted) :
    /\ counted[i] \in ToSet(emitted)
    /\ counted[i].read = "success"
    /\ counted[i].session = handle \/ "reset" \in refused
    /\ \A j \in 1 .. i - 1 : counted[j].number < counted[i].number

\* A run that returns, and whose session ended, has read and kept every round of
\* it, in order, and its result has every successful one that it met between
\* the response of ranging_start and the deadline: no other notification, no
\* round without a measurement and no turn of the loop has cost one.
EveryRoundAccountedFor ==
  pc = "done" /\ ~raised /\ "reset" \notin refused
      /\ ~({ "rangingStop", "deinit" } \subseteq refused) =>
    LET ofThisRun == Rounds({ handle }, Reading)
    IN /\ Selected(kept, ofThisRun) = Selected(emitted, ofThisRun)
       /\ counted = Successes(SubSeq(kept, observed[1] + 1, observed[2]))
=============================================================================
