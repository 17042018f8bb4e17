----------------------- MODULE ValidationRunInvariant -----------------------
(***************************************************************************)
(* Why a failed check of run_checks means what it says: which check each   *)
(* command belongs to, what the faults so far let one say of the session   *)
(* on the device, and of the reply that is on its way.                     *)
(***************************************************************************)
EXTENDS ValidationRun

Key == { Specs[i].command : i \in 1 .. Len(Specs) }

Responses == [ mt : { "response" }, key : Key, id : Nat ]

Replies ==
  [ status : { "OK", "DUPLICATE", "NOT_EXIST", "NOT_CONFIGURED", "FAILED", "UNKNOWN" },
    value : { "none", "INIT", "0", "1" }, full : BOOLEAN ]

TypeInv ==
  /\ TypeOK
  /\ commands \in Seq(Key)
  /\ returned \in Seq(Responses \cup { TimedOut })
  /\ replies \in Seq(Replies \cup { NoReply })

-----------------------------------------------------------------------------
\* The check that the m-th command belongs to.  Without a handle, the checks
\* that need one send none.
CheckOf(m) ==
  IF m <= 4 \/ handle # "none" THEN m ELSE IF m = 5 THEN 6 ELSE 11

\* The commands of the first n checks.
CommandsOf(n) ==
  IF n <= 4 \/ handle # "none" THEN n ELSE IF n <= 5 THEN 4 ELSE IF n <= 10 THEN 5 ELSE 6

\* A call that gave up was the fault of its check.
PlaceInv ==
  /\ Len(returned) = CommandsOf(Len(outcomes))
  /\ \A m \in 1 .. Len(commands) : commands[m] = Specs[CheckOf(m)].command
  /\ Len(outcomes) < 4 => handle = "none"
  /\ Calls!Busy => Running /\ CheckOf(Len(commands)) = Current
  /\ \A m \in 1 .. Len(returned) : returned[m] = TimedOut => CheckOf(m) \in faulty

-----------------------------------------------------------------------------
\* The checks whose command the device has dealt with, or that had none.
Begun == IF Calls!Busy THEN Current ELSE Len(outcomes)

\* The device has no session but that of this run.
Cleared == 1 \notin faulty \/ ~leftover

\* This run has one, and its handle.
Ready == Cleared /\ 4 \notin faulty

SessionInv ==
  /\ Begun = 0 => session = leftover
  /\ Cleared /\ Begun \in 1 .. 3 => ~session
  /\ Ready /\ Begun \in 4 .. 9 => session
  /\ Ready /\ Len(outcomes) >= 4 => handle = "valid"
  /\ Ready /\ 10 \notin faulty /\ Begun >= 10 => ~session

-----------------------------------------------------------------------------
\* No fault can have made check i fail.
Spared(i) == \A k \in faulty : k <= i => i \notin Affected(k)

\* The reply to the command in progress passes the check.
ReplyInv ==
  Calls!Busy /\ Spared(Current) =>
    LET reply == replies[Len(commands)]
    IN reply # NoReply /\ ~MethodRaises(reply) /\ Validates(reply)

\* The device gets no session after it has said that it has none.
CountInv ==
  \A m \in 1 .. Len(commands) :
    commands[m] = "SESSION_GET_COUNT" /\ replies[m] = Reply("OK", "0") => ~session

SafeInv ==
  /\ TypeInv
  /\ PlaceInv
  /\ SessionInv
  /\ ReplyInv
  /\ CountInv
  /\ FailuresExplained
  /\ NoSessionIfLastPasses
=============================================================================
