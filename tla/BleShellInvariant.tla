------------------------- MODULE BleShellInvariant --------------------------
(***************************************************************************)
(* Why what is sent and received by the coroutines that are left to        *)
(* themselves does no harm before a call of send_line has ended without    *)
(* an answer, and what it may do after that.                               *)
(***************************************************************************)
EXTENDS BleShell

InCall(i) == caller = "busy" /\ i = Current

\* The histories go with the coroutines.
SizeInv ==
  /\ Len(outcomes) = Len(calls) /\ Len(task) = Len(calls) /\ Len(calls) <= MaxCalls
  /\ event <= Len(calls)
  /\ caller = "busy" => Len(calls) > 0

TypeInv == TypeOK /\ SizeInv

\* The awaits that a call of each kind comes to.
Awaits(kind) ==
  CASE kind = "connect" -> { "scan", "link", "subscribe", "ended" }
    [] kind = "send" -> { "scan", "link", "subscribe", "write", "wait", "awake", "ended" }
    [] OTHER -> { "disconnect", "ended" }

\* Only the timeout of _call leaves a coroutine behind.  The event is made
\* before the first await, so that none of those replaces the one the call in
\* progress waits for.
CallInv ==
  /\ caller = "busy" => outcomes[Current] = Running
  /\ \A i \in 1 .. Len(calls) :
       /\ task[i].at \in Awaits(calls[i])
       /\ task[i].at = "ended" <=> task[i].result # Running
       /\ ~InCall(i) /\ task[i].at # "ended" => outcomes[i] = Overrun
       /\ InCall(i) /\ task[i].at = "wait" => task[i].event = event

WrittenInv ==
  /\ \A n \in 1 .. Len(written) : written[n] <= Len(calls)
  /\ LateLineOnlyFromOverrun

-----------------------------------------------------------------------------
(* The link.                                                                *)

Failing(i) == task[i].at = "ended" /\ task[i].result = Foreign

\* Nobody has the link but one whose call failed.
Unheld == link = 0 \/ Failed(link)

\* The link is the client's, or is being made, or the call that made it has
\* failed or is about to.
LinkInv ==
  /\ \/ link = client \/ Unheld
     \/ InCall(link) /\ (task[link].at = "subscribe" \/ Failing(link))
  /\ \A i \in 1 .. Len(calls) :
       InCall(i) /\ calls[i] \in { "disconnect", "close" } =>
         /\ task[i].by = client \/ Failed(client)
         /\ task[i].at = "ended" => Failing(i) \/ (task[i].result = Ok /\ Unheld)
  /\ caller = "closed" => Unheld \/ (calls[Current] = "close" /\ Failed(Current))

-----------------------------------------------------------------------------
(* The answers.                                                             *)

\* A call of send_line up to that line has ended without an answer.
GaveUpBy(line) == \E j \in 1 .. line : GaveUp(j)

\* The line of the call in progress, or one that may be answered late.
Expected(line) == InCall(line) \/ GaveUpBy(line)

PipeInv ==
  /\ \A k \in 1 .. Len(inbox) : inbox[k] <= Len(calls) /\ Expected(inbox[k])
  /\ \A k \in 1 .. Len(air) : air[k].line <= Len(calls) /\ Expected(air[k].line)

\* What has come since the line was prepared.
TextInv ==
  \A i \in 1 .. Len(calls) :
    InCall(i) /\ task[i].at \in { "write", "wait", "awake" } =>
      /\ task[i].start <= Len(buffer)
      /\ \A k \in task[i].start + 1 .. Len(buffer) :
           buffer[k].line <= i /\ Expected(buffer[k].line)

Told(i, text) ==
  /\ text = << i >> \/ \E j \in 1 .. i - 1 : GaveUp(j)
  /\ \A k \in 1 .. Len(text) : text[k] # i => text[k] < i /\ GaveUpBy(text[k])

ToldInv ==
  \A i \in 1 .. Len(calls) :
    /\ InCall(i) /\ task[i].result.kind = "answer" => Told(i, task[i].result.text)
    /\ outcomes[i].kind = "answer" => Told(i, outcomes[i].text)

Silent == inbox = << >> /\ air = << >>

\* As much of the answer to line i has come as has, and the rest is on its way
\* or lost.
Answering(i) ==
  LET answer == AnswerTo(i)
      came == SubSeq(buffer, task[i].start + 1, Len(buffer))
  IN \/ inbox = << i >> /\ air = << >> /\ came = << >>
     \/ /\ inbox = << >>
        /\ \E m \in 0 .. 3 : came = SubSeq(answer, 1, m)
                               /\ air \in { << >>, SubSeq(answer, m + 1, 3) }

\* Before a call of send_line has ended without an answer nothing is on its way
\* but the line in progress and its answer.
CleanInv ==
  (\A i \in 1 .. Len(calls) : ~GaveUp(i)) =>
    IF caller = "busy" /\ calls[Current] = "send"
    THEN LET here == task[Current]
         IN /\ here.at \in { "scan", "link", "subscribe", "write" } => Silent
            /\ here.at = "write" => ~isSet /\ here.start = Len(buffer)
            /\ here.at = "wait" => Answering(Current)
            /\ here.at = "awake" =>
                 Silent /\ SubSeq(buffer, here.start + 1, Len(buffer)) = AnswerTo(Current)
            /\ here.result.kind = "answer" => Silent /\ here.result.text = << Current >>
    ELSE Silent

SafeInv ==
  /\ TypeInv /\ CallInv /\ WrittenInv /\ LinkInv
  /\ PipeInv /\ TextInv /\ ToldInv /\ CleanInv
=============================================================================
