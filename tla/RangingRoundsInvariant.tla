----------------------- MODULE RangingRoundsInvariant -----------------------
(***************************************************************************)
(* Why run_mixed_ranging counts its own rounds and all of them: until an   *)
(* exception is under way, there is one call at a time, what was kept and  *)
(* what is to be read are together all that the device has reported, and   *)
(* whose rounds are still to be read depends on the responses behind.      *)
(***************************************************************************)
EXTENDS RangingRounds

Responses == { i \in 1 .. Len(wire) : wire[i].mt = "response" }

\* An exception ends the run but for session_deinit.
RaisedInv == raised => pc \in { "deinit", "done" }

\* The command under way has been lost, or the device has yet to take it or has
\* answered it, once.
OneCall ==
  IF waiting
  THEN /\ pc \in Calls
       /\ \/ queue = << pc >> /\ Responses = {}
          \/ /\ queue = << >>
             /\ \A i \in Responses : wire[i].key = pc
             /\ \A i, j \in Responses : i = j
  ELSE queue = << >> /\ Responses = {}

CallInv == ~raised => OneCall

-----------------------------------------------------------------------------
\* Until a call raises none of the rounds is missing from what is kept.
StreamInv ==
  /\ \A i \in 1 .. Len(emitted) : emitted[i].number = i
  /\ ~raised => kept \o Notifications(wire) = emitted

\* What was counted are the successes of a part of the rounds; until a call
\* raises, of those that were kept since the loop began.
CountInv ==
  /\ \E a, b \in 0 .. Len(emitted) :
       a <= b /\ counted = Successes(SubSeq(emitted, a + 1, b))
  /\ ~raised =>
       /\ observed[1] <= observed[2] /\ observed[2] <= Len(kept)
       /\ counted = Successes(SubSeq(kept, observed[1] + 1, observed[2]))
       /\ pc = "poll" => observed[2] = Len(kept)
       /\ pc \in { "reset", "sessionInit", "setAppConfig", "rangingStart" } =>
            counted = << >>

-----------------------------------------------------------------------------
\* No round of that session is to be read behind the first i items.
NoneAfter(session, i) ==
  \A j \in i + 1 .. Len(wire) : wire[j].mt = "notification" => wire[j].session # session

Over(i) == sessions["own"] # "active" /\ NoneAfter("own", i)

Gone(i) == sessions["old"] = "none" /\ NoneAfter("old", i)

\* Once the reset has worked there are no rounds of an earlier session; without
\* a session of its own the run does not come to ranging_start; once
\* ranging_stop or session_deinit have worked there are no more rounds.
SessionInv ==
  ~raised /\ "reset" \notin refused =>
    /\ pc = "reset" => \A i \in Responses : wire[i].ok => Gone(i)
    /\ pc # "reset" => Gone(0)
    /\ pc = "setAppConfig" => \A i \in Responses : wire[i].ok => handle = "own"
    /\ pc \in { "rangingStart", "poll", "rangingStop", "deinit", "done" } => handle = "own"
    /\ pc \in { "rangingStop", "deinit" } => \A i \in Responses : wire[i].ok => Over(i)
    /\ pc \in { "deinit", "done" } => "rangingStop" \in refused \/ Over(0)
    /\ pc = "done" => "deinit" \in refused \/ Over(0)

OwnInv ==
  \A i \in 1 .. Len(counted) : counted[i].session = handle \/ "reset" \in refused

SafeInv ==
  TypeOK /\ RaisedInv /\ CallInv /\ StreamInv /\ CountInv /\ SessionInv /\ OwnInv
=============================================================================
