--------------------------- MODULE CommandService ---------------------------
(***************************************************************************)
(* What the caller of a command of UciClient is promised, the link and the *)
(* decoder out of sight: one call at a time, and each ends, with a failure *)
(* or with one response.  It is the response to the call's own command, or *)
(* a late one to an earlier command of the same kind that gave up; never   *)
(* one older than a response already returned.                             *)
(***************************************************************************)
EXTENDS Naturals, Sequences

CONSTANTS
  Key,     \* kinds of commands, told apart by the GID and OID of the response
  Failure  \* the ways a call can end without a response

VARIABLES
  commands,  \* the keys of the commands, numbered from 1 in order of the calls
  outcomes   \* how each call that is over ended

vars == << commands, outcomes >>

Init ==
  /\ commands = << >>
  /\ outcomes = << >>

Busy == Len(outcomes) < Len(commands)

\* The call under way, when there is one.
Current == Len(commands)

Response(j) == [ mt |-> "response", key |-> commands[j], id |-> j ]

Call(key) ==
  /\ ~Busy
  /\ commands' = Append(commands, key)
  /\ UNCHANGED outcomes

\* The call fails while it is still sending.
CallFails(key) ==
  /\ ~Busy
  /\ commands' = Append(commands, key)
  /\ \E failure \in Failure : outcomes' = Append(outcomes, failure)

\* A command with the key of j, not later than j, got no response.
Excused(j) ==
  \E i \in 1 .. j : commands[i] = commands[j] /\ outcomes[i] \in Failure

MayReturn(j) ==
  /\ commands[j] = commands[Current]
  /\ \A i \in 1 .. Len(outcomes) : outcomes[i].mt = "response" => outcomes[i].id < j
  /\ j < Current => Excused(j)

ReturnResponse(j) ==
  /\ Busy
  /\ MayReturn(j)
  /\ outcomes' = Append(outcomes, Response(j))
  /\ UNCHANGED commands

GiveUp ==
  /\ Busy
  /\ \E failure \in Failure : outcomes' = Append(outcomes, failure)
  /\ UNCHANGED commands

End == GiveUp \/ \E j \in 1 .. Len(commands) : ReturnResponse(j)

Next == End \/ \E key \in Key : Call(key) \/ CallFails(key)

Safety == Init /\ [][Next]_vars

Spec == Safety /\ WF_vars(End)
=============================================================================
