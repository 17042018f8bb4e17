-------------------------- MODULE BleShell_proofs ---------------------------
(***************************************************************************)
(* Proofs about BleShell, for any number of calls, of links closed and of  *)
(* tokens in a notification.                                               *)
(***************************************************************************)
EXTENDS BleShellInvariant, SequenceFacts

Line == 1 .. MaxCalls

Await ==
  { "disconnect", "scan", "link", "subscribe", "write", "wait", "awake", "ended" }

Outcome == Result \cup { Running, Overrun }

Task ==
  [ at : Await, by : 0 .. MaxCalls, event : 0 .. MaxCalls, start : Nat,
    result : Result \cup { Running } ]

-----------------------------------------------------------------------------
(* Types.                                                                   *)

LEMMA Failures ==
  /\ { Ok, BleError, TimedOut, Foreign } \subseteq Result
  /\ Ok # Running /\ BleError # Running /\ TimedOut # Running /\ Foreign # Running
  /\ Ok # Foreign
  /\ Running.kind = "running" /\ Overrun.kind = "overrun" /\ Ok.kind = "ok"
  /\ BleError.kind = "bleError" /\ TimedOut.kind = "timeout" /\ Foreign.kind = "foreign"
<1>1. /\ Running.kind = "running" /\ Overrun.kind = "overrun" /\ Ok.kind = "ok"
      /\ BleError.kind = "bleError" /\ TimedOut.kind = "timeout" /\ Foreign.kind = "foreign"
  BY DEF Ok, BleError, TimedOut, Foreign, Running, Overrun
<1>2. { Ok, BleError, TimedOut, Foreign } \subseteq Result
  BY DEF Ok, BleError, TimedOut, Foreign, Result
<1> QED
  BY <1>1, <1>2

LEMMA ResultParts ==
  ASSUME NEW r \in Result
  PROVE  /\ r.kind \in { "ok", "bleError", "timeout", "foreign", "answer" }
         /\ r # Running
         /\ r.kind = "answer" => r.text \in Seq(Line)
         /\ r.kind = "foreign" => r = Foreign
<1>1. CASE r \in [ kind : { "ok", "bleError", "timeout", "foreign" } ]
  <2>1. r.kind \in { "ok", "bleError", "timeout", "foreign" } /\ r = [ kind |-> r.kind ]
    BY <1>1
  <2> QED
    BY <2>1, Failures DEF Foreign
<1>2. CASE r \in [ kind : { "answer" }, text : Seq(1 .. MaxCalls) ]
  <2>1. r.kind = "answer" /\ r.text \in Seq(1 .. MaxCalls)
    BY <1>2
  <2> QED
    BY <2>1, Failures DEF Line
<1> QED
  BY <1>1, <1>2 DEF Result

LEMMA AnswerType ==
  ASSUME NEW text \in Seq(Line)
  PROVE  [ kind |-> "answer", text |-> text ] \in Result
  BY DEF Result, Line

LEMMA TypeNow ==
  ASSUME TypeInv
  PROVE  /\ caller \in { "idle", "busy", "closed" }
         /\ calls \in Seq(Kind) /\ outcomes \in Seq(Outcome) /\ task \in Seq(Task)
         /\ client \in 0 .. MaxCalls /\ lastTarget \in BOOLEAN
         /\ event \in 0 .. MaxCalls /\ isSet \in BOOLEAN
         /\ buffer \in Seq(Token) /\ link \in 0 .. MaxCalls /\ notifying \in BOOLEAN
         /\ inbox \in Seq(Line) /\ air \in Seq(Token)
         /\ drops \in 0 .. MaxDrops /\ written \in Seq(Line)
         /\ MaxCalls \in Nat /\ MaxDrops \in Nat /\ MaxChunk \in Nat
         /\ Len(calls) \in Nat /\ Len(outcomes) = Len(calls) /\ Len(task) = Len(calls)
         /\ Len(calls) <= MaxCalls /\ event <= Len(calls)
         /\ DOMAIN task = 1 .. Len(calls) /\ DOMAIN outcomes = 1 .. Len(calls)
         /\ \A i \in 1 .. Len(calls) : i \in Line /\ task[i] \in Task /\ outcomes[i] \in Outcome
                                       /\ calls[i] \in Kind
         /\ caller = "busy" => Current \in 1 .. Len(calls)
<1>1. /\ caller \in { "idle", "busy", "closed" }
      /\ calls \in Seq(Kind)
      /\ client \in 0 .. MaxCalls /\ lastTarget \in BOOLEAN
      /\ event \in 0 .. MaxCalls /\ isSet \in BOOLEAN
      /\ buffer \in Seq(Token) /\ link \in 0 .. MaxCalls /\ notifying \in BOOLEAN
      /\ inbox \in Seq(Line) /\ air \in Seq(Token)
      /\ drops \in 0 .. MaxDrops /\ written \in Seq(Line)
  BY DEF TypeInv, TypeOK, Line
<1>2. outcomes \in Seq(Outcome)
  BY DEF TypeInv, TypeOK, Outcome
<1>3. task \in Seq(Task)
  BY DEF TypeInv, TypeOK, Task, Await
<1>4. MaxCalls \in Nat /\ MaxDrops \in Nat /\ MaxChunk \in Nat
  BY BoundsAssumption
<1>5. /\ Len(outcomes) = Len(calls) /\ Len(task) = Len(calls) /\ Len(calls) <= MaxCalls
      /\ event <= Len(calls)
      /\ caller = "busy" => Len(calls) > 0
  BY DEF TypeInv, SizeInv
<1>6. Len(calls) \in Nat
  BY <1>1
<1>7. /\ DOMAIN task = 1 .. Len(calls) /\ DOMAIN outcomes = 1 .. Len(calls)
      /\ DOMAIN calls = 1 .. Len(calls)
  BY <1>1, <1>2, <1>3, <1>5
<1>8. \A i \in 1 .. Len(calls) : i \in Line /\ task[i] \in Task /\ outcomes[i] \in Outcome
                                 /\ calls[i] \in Kind
  BY <1>1, <1>2, <1>3, <1>4, <1>5, <1>6 DEF Line
<1>9. caller = "busy" => Current \in 1 .. Len(calls)
  BY <1>5, <1>6 DEF Current
<1> QED
  BY ONLY <1>1, <1>2, <1>3, <1>4, <1>5, <1>6, <1>7, <1>8, <1>9

LEMMA TypeAgain ==
  /\ caller' \in { "idle", "busy", "closed" }
  /\ calls' \in Seq(Kind) /\ outcomes' \in Seq(Outcome) /\ task' \in Seq(Task)
  /\ client' \in 0 .. MaxCalls /\ lastTarget' \in BOOLEAN
  /\ event' \in 0 .. MaxCalls /\ isSet' \in BOOLEAN
  /\ buffer' \in Seq(Token) /\ link' \in 0 .. MaxCalls /\ notifying' \in BOOLEAN
  /\ inbox' \in Seq(Line) /\ air' \in Seq(Token)
  /\ drops' \in 0 .. MaxDrops /\ written' \in Seq(Line)
  /\ Len(outcomes') = Len(calls') /\ Len(task') = Len(calls') /\ Len(calls') <= MaxCalls
  /\ event' <= Len(calls')
  /\ caller' = "busy" => Len(calls') > 0
  => TypeInv'
  BY DEF TypeInv, TypeOK, SizeInv, Line, Outcome, Task, Await

LEMMA TaskParts ==
  ASSUME NEW t \in Task
  PROVE  /\ t.at \in Await /\ t.by \in 0 .. MaxCalls /\ t.event \in 0 .. MaxCalls
         /\ t.start \in Nat /\ t.result \in Result \cup { Running }
  BY DEF Task

\* A coroutine that goes on to another await, or ends.
LEMMA TaskAt ==
  ASSUME NEW t \in Task, NEW await \in Await
  PROVE  LET u == [ t EXCEPT !.at = await ]
         IN /\ u \in Task /\ u.at = await /\ u.by = t.by /\ u.event = t.event
            /\ u.start = t.start /\ u.result = t.result
  BY DEF Task

LEMMA TaskEnds ==
  ASSUME NEW t \in Task, NEW r \in Result
  PROVE  LET u == [ t EXCEPT !.at = "ended", !.result = r ]
         IN u \in Task /\ u.at = "ended" /\ u.result = r /\ u.by = t.by /\ u.start = t.start
  BY DEF Task, Await

\* One coroutine has moved.
Moved(i, u) ==
  /\ i \in 1 .. Len(calls) /\ u \in Task
  /\ task' = [ task EXCEPT ![i] = u ]
  /\ UNCHANGED << calls, outcomes, caller >>

LEMMA MovedParts ==
  ASSUME TypeInv, NEW i, NEW u, Moved(i, u)
  PROVE  /\ task' \in Seq(Task) /\ Len(task') = Len(calls')
         /\ task'[i] = u /\ \A j \in 1 .. Len(calls) : j # i => task'[j] = task[j]
         /\ UNCHANGED << calls, outcomes, caller >>
         /\ i \in 1 .. Len(calls) /\ u \in Task
<1>1. /\ task \in Seq(Task) /\ DOMAIN task = 1 .. Len(calls) /\ Len(task) = Len(calls)
      /\ Len(calls) \in Nat
  BY TypeNow
<1>2. /\ i \in 1 .. Len(calls) /\ u \in Task
      /\ task' = [ task EXCEPT ![i] = u ]
      /\ UNCHANGED << calls, outcomes, caller >>
  BY DEF Moved
<1>3. task' \in Seq(Task) /\ Len(task') = Len(calls)
  BY <1>1, <1>2
<1> QED
  BY <1>1, <1>2, <1>3

-----------------------------------------------------------------------------
(* What the steps do.                                                       *)

\* The items of a list from a position on.
LEMMA RestType ==
  ASSUME NEW S, NEW s \in Seq(S), NEW from \in Nat
  PROVE  /\ SubSeq(s, from + 1, Len(s)) \in Seq(S)
         /\ \A k \in 1 .. Len(SubSeq(s, from + 1, Len(s))) :
              /\ k + from \in from + 1 .. Len(s)
              /\ SubSeq(s, from + 1, Len(s))[k] = s[k + from]
<1>1. CASE from <= Len(s)
  <2>1. from \in 0 .. Len(s)
    BY <1>1
  <2>2. PICK t : t = SubSeq(s, from + 1, Len(s))
    OBVIOUS
  <2>3. /\ t \in Seq(S) /\ Len(s) \in Nat /\ Len(t) = Len(s) - from
        /\ \A k \in 1 .. Len(s) - from : t[k] = s[k + from]
    BY <2>1, <2>2, DropAt
  <2> QED
    BY <2>2, <2>3
<1>2. CASE from > Len(s)
  <2>1. SubSeq(s, from + 1, Len(s)) = << >>
    BY <1>2
  <2> QED
    BY <2>1
<1> QED
  BY <1>1, <1>2

Mark == [ line : Line, left : BOOLEAN ]

LEMMA MarkedParts ==
  ASSUME NEW raw \in Seq(Token)
  PROVE  /\ Marked(raw) \in Seq(Mark) /\ Len(Marked(raw)) = Len(raw)
         /\ \A k \in 1 .. Len(raw) :
              Marked(raw)[k] =
                [ line |-> raw[k].line, left |-> ~PromptAt(raw, k) /\ ~PromptAt(raw, k - 1) ]
<1>1. PICK m : m = Marked(raw)
  OBVIOUS
<1>2. Len(raw) \in Nat /\ DOMAIN raw = 1 .. Len(raw)
  OBVIOUS
<1>3. m = [ k \in 1 .. Len(raw) |->
              [ line |-> raw[k].line, left |-> ~PromptAt(raw, k) /\ ~PromptAt(raw, k - 1) ] ]
  BY <1>1, <1>2 DEF Marked
<1>4. ASSUME NEW k \in 1 .. Len(raw) PROVE m[k] \in Mark
  <2>1. raw[k] \in Token
    OBVIOUS
  <2>2. raw[k].line \in Line
    BY <2>1 DEF Token, Tokens, Line
  <2>3. (~PromptAt(raw, k) /\ ~PromptAt(raw, k - 1)) \in BOOLEAN
    OBVIOUS
  <2> QED
    BY <1>3, <2>2, <2>3 DEF Mark
<1>5. m \in [ 1 .. Len(raw) -> Mark ]
  BY <1>3, <1>4
<1>6. m \in Seq(Mark) /\ Len(m) = Len(raw)
  BY ONLY <1>2, <1>5
<1> QED
  BY <1>1, <1>3, <1>6

\* Answers has the lines of tokens of the buffer from there on.
LEMMA AnswersParts ==
  ASSUME TypeInv, NEW from \in Nat
  PROVE  /\ Answers(from) \in Seq(Line)
         /\ \A k \in 1 .. Len(Answers(from)) :
              \E j \in from + 1 .. Len(buffer) : Answers(from)[k] = buffer[j].line
<1>1. PICK raw, part : raw = SubSeq(buffer, from + 1, Len(buffer)) /\ part = Marked(raw)
  OBVIOUS
<1>2. /\ raw \in Seq(Token)
      /\ \A k \in 1 .. Len(raw) : k + from \in from + 1 .. Len(buffer)
                                  /\ raw[k] = buffer[k + from]
  BY <1>1, TypeNow, RestType
<1>3. /\ part \in Seq(Mark) /\ Len(part) = Len(raw)
      /\ \A k \in 1 .. Len(part) : part[k].line = raw[k].line
  <2>1. /\ part \in Seq(Mark) /\ Len(part) = Len(raw)
        /\ \A k \in 1 .. Len(raw) :
             part[k] =
               [ line |-> raw[k].line, left |-> ~PromptAt(raw, k) /\ ~PromptAt(raw, k - 1) ]
    BY ONLY <1>1, <1>2, MarkedParts
  <2>2. ASSUME NEW k \in 1 .. Len(part) PROVE part[k].line = raw[k].line
    <3>1. part[k] =
            [ line |-> raw[k].line, left |-> ~PromptAt(raw, k) /\ ~PromptAt(raw, k - 1) ]
      BY ONLY <2>1, k \in 1 .. Len(part)
    <3> QED
      BY ONLY <3>1
  <2> QED
    BY ONLY <2>1, <2>2
<1>4. PICK texts : texts = Selected(part, [ line : 1 .. MaxCalls, left : { TRUE } ])
  OBVIOUS
<1>5. texts \in Seq(Mark)
  BY <1>3, <1>4, SelectedType
<1>6. Answers(from) = [ k \in 1 .. Len(texts) |-> texts[k].line ]
  BY <1>1, <1>4 DEF Answers
<1>7. Answers(from) \in Seq(Line) /\ Len(Answers(from)) = Len(texts)
  <2>1. \A k \in 1 .. Len(texts) : texts[k].line \in Line
    <3>1. \A k \in 1 .. Len(texts) : texts[k] \in Mark
      BY <1>5
    <3> QED
      BY <3>1 DEF Mark
  <2>2. Len(texts) \in Nat
    BY <1>5
  <2> QED
    BY <1>6, <2>1, <2>2
<1>8. ASSUME NEW k \in 1 .. Len(texts)
      PROVE  \E j \in from + 1 .. Len(buffer) : Answers(from)[k] = buffer[j].line
  <2>1. PICK l \in 1 .. Len(part) : texts[k] = part[l]
    BY <1>3, <1>4, SelectedFrom
  <2>2. Answers(from)[k] = buffer[l + from].line /\ l + from \in from + 1 .. Len(buffer)
    BY <1>2, <1>3, <1>6, <2>1
  <2> QED
    BY <2>2
<1> QED
  BY <1>7, <1>8

LEMMA Submitted ==
  ASSUME TypeInv, NEW kind \in Kind, NEW t \in Task, Submit(kind, t)
  PROVE  /\ caller = "idle" /\ caller' = "busy"
         /\ Len(calls) \in Nat /\ Len(calls') = Len(calls) + 1 /\ Len(calls') <= MaxCalls
         /\ calls' \in Seq(Kind) /\ outcomes' \in Seq(Outcome) /\ task' \in Seq(Task)
         /\ Len(outcomes') = Len(calls') /\ Len(task') = Len(calls')
         /\ calls'[Len(calls')] = kind /\ outcomes'[Len(calls')] = Running
         /\ task'[Len(calls')] = t
         /\ \A i \in 1 .. Len(calls) : /\ calls'[i] = calls[i] /\ outcomes'[i] = outcomes[i]
                                       /\ task'[i] = task[i]
         /\ UNCHANGED << client, lastTarget, buffer, link, notifying, bridge >>
<1>1. /\ caller = "idle" /\ caller' = "busy" /\ Len(calls) < MaxCalls
      /\ calls' = Append(calls, kind)
      /\ outcomes' = Append(outcomes, Running)
      /\ task' = Append(task, t)
      /\ UNCHANGED << client, lastTarget, buffer, link, notifying, bridge >>
  BY DEF Submit
<1>2. /\ calls \in Seq(Kind) /\ outcomes \in Seq(Outcome) /\ task \in Seq(Task)
      /\ Len(calls) \in Nat /\ MaxCalls \in Nat
      /\ Len(outcomes) = Len(calls) /\ Len(task) = Len(calls)
  BY TypeNow
<1>3. Running \in Outcome
  BY DEF Outcome
<1>4. /\ calls' \in Seq(Kind) /\ Len(calls') = Len(calls) + 1
      /\ \A i \in 1 .. Len(calls) : calls'[i] = calls[i]
      /\ calls'[Len(calls) + 1] = kind
  BY <1>1, <1>2, AppendAt
<1>5. /\ outcomes' \in Seq(Outcome) /\ Len(outcomes') = Len(calls) + 1
      /\ \A i \in 1 .. Len(calls) : outcomes'[i] = outcomes[i]
      /\ outcomes'[Len(calls) + 1] = Running
  BY <1>1, <1>2, <1>3, AppendAt
<1>6. /\ task' \in Seq(Task) /\ Len(task') = Len(calls) + 1
      /\ \A i \in 1 .. Len(calls) : task'[i] = task[i]
      /\ task'[Len(calls) + 1] = t
  BY <1>1, <1>2, AppendAt
<1> QED
  BY <1>1, <1>2, <1>4, <1>5, <1>6

\* A call begins.
Begins(kind, t) ==
  /\ Submit(kind, t) /\ t.by = client /\ t.start = Len(buffer)
  /\ event' \in { event, event + 1 } /\ isSet' \in BOOLEAN
  /\ \/ kind \in { "connect", "send" } /\ t.at = "scan" /\ t.result = Running
          /\ (kind = "send" => ~IsConnected)
     \/ kind = "send" /\ t.at = "write" /\ isSet' = FALSE /\ t.result = Running
     \/ kind = "send" /\ t.at = "ended" /\ t.result = BleError
     \/ kind \in { "disconnect", "close" } /\ t.at = "disconnect" /\ t.result = Running

\* The transport is closed without a call.
Closes ==
  /\ caller = "idle" /\ caller' = "closed" /\ client = 0
  /\ UNCHANGED << calls, outcomes, task, transport, buffer, link, notifying, bridge >>

LEMMA CallerParts ==
  ASSUME TypeInv, Caller
  PROVE  \/ \E kind \in Kind, t \in Task : Begins(kind, t)
         \/ Closes
<1>1. ASSUME NEW await \in Await
      PROVE  /\ Coroutine0(await) \in Task
             /\ LET t == Coroutine0(await)
                IN t.at = await /\ t.by = client /\ t.start = Len(buffer) /\ t.result = Running
  <2>1. Len(buffer) \in Nat /\ client \in 0 .. MaxCalls /\ 0 \in 0 .. MaxCalls
    BY TypeNow
  <2> QED
    BY <2>1 DEF Coroutine0, Task
<1>2. { "scan", "write", "ended", "disconnect" } \subseteq Await
  BY DEF Await
<1>3. isSet \in BOOLEAN
  BY TypeNow
<1>4. CASE Connect
  <2> DEFINE t == Coroutine0("scan")
  <2>1. Begins("connect", t) /\ t \in Task
    BY <1>1, <1>2, <1>4 DEF Connect, Begins, NewEvent
  <2> QED
    BY <2>1 DEF Kind
<1>5. CASE SendLine
  <2> DEFINE t == Coroutine0("write")
  <2>1. Begins("send", t) /\ t \in Task
    BY <1>1, <1>2, <1>5 DEF SendLine, Begins
  <2> QED
    BY <2>1 DEF Kind
<1>6. CASE SendLineReconnecting
  <2> DEFINE t == Coroutine0("scan")
  <2>1. Begins("send", t) /\ t \in Task
    BY <1>1, <1>2, <1>6 DEF SendLineReconnecting, Begins, NewEvent
  <2> QED
    BY <2>1 DEF Kind
<1>7. CASE SendLineUnconnected
  <2> DEFINE t == [ Coroutine0("ended") EXCEPT !.result = BleError ]
  <2>1. t \in Task /\ t.at = "ended" /\ t.result = BleError /\ t.by = client
        /\ t.start = Len(buffer)
    <3>1. BleError \in Result
      BY Failures
    <3>2. PICK c : c = Coroutine0("ended")
      OBVIOUS
    <3>3. c \in Task /\ c.at = "ended" /\ c.by = client /\ c.start = Len(buffer)
      BY <1>1, <1>2, <3>2
    <3> QED
      BY <3>1, <3>2, <3>3 DEF Task
  <2>2. Begins("send", t)
    BY <1>3, <1>7, <2>1 DEF SendLineUnconnected, Begins
  <2> QED
    BY <2>1, <2>2 DEF Kind
<1>8. CASE Disconnect \/ \E kind \in { "close" } : client # 0 /\ Submit(kind, Coroutine0("disconnect"))
                                              /\ UNCHANGED << event, isSet >>
  <2> DEFINE t == Coroutine0("disconnect")
  <2>1. t \in Task /\ \E kind \in { "disconnect", "close" } : Begins(kind, t)
    BY <1>1, <1>2, <1>3, <1>8 DEF Disconnect, Begins
  <2> QED
    BY <2>1 DEF Kind
<1> QED
  BY <1>4, <1>5, <1>6, <1>7, <1>8 DEF Caller, Close, Closes

\* A call ends.
Ends(r) ==
  /\ caller = "busy" /\ Current \in 1 .. Len(calls)
  /\ outcomes' = [ outcomes EXCEPT ![Current] = r ]
  /\ caller' = IF calls[Current] = "close" THEN "closed" ELSE "idle"
  /\ UNCHANGED << calls, task, lastTarget, event, isSet, buffer, link, notifying, bridge >>
  /\ \/ /\ task[Current].at = "ended" /\ r = task[Current].result
        /\ \/ client' = client
           \/ client' = 0 /\ r = Ok /\ calls[Current] \in { "disconnect", "close" }
     \/ task[Current].at # "ended" /\ r = Overrun /\ client' = client
  /\ calls[Current] \in { "disconnect", "close" } /\ r = Ok => client' = 0

LEMMA EndsParts ==
  ASSUME TypeInv, CallEnds
  PROVE  \E r \in Outcome : Ends(r)
<1>1. CASE Return
  <2>1. caller = "busy" /\ task[Current].at = "ended" /\ EndCall(task[Current].result)
    BY <1>1 DEF Return
  <2>2. Current \in 1 .. Len(calls) /\ task[Current] \in Task
    BY <2>1, TypeNow
  <2>3. PICK r : r = task[Current].result
    OBVIOUS
  <2>4. r \in Outcome
    BY <2>2, <2>3, TaskParts DEF Outcome
  <2> QED
    BY <1>1, <2>1, <2>2, <2>3, <2>4 DEF Return, EndCall, Ends
<1>2. CASE CallOverruns
  <2>1. /\ caller = "busy" /\ task[Current].at # "ended" /\ EndCall(Overrun)
        /\ client' = client
    BY <1>2 DEF CallOverruns, transport
  <2>2. Current \in 1 .. Len(calls) /\ Overrun \in Outcome /\ Overrun # Ok
    BY <2>1, TypeNow, Failures DEF Outcome
  <2> QED
    BY <1>2, <2>1, <2>2 DEF CallOverruns, EndCall, transport, Ends
<1> QED
  BY <1>1, <1>2 DEF CallEnds

\* What a coroutine does between two awaits.  It fails ...
Fails(i, u) ==
  /\ u.at = "ended" /\ u.result \in { BleError, TimedOut, Foreign } /\ u.by = task[i].by
  /\ u.result = Foreign \/ task[i].at \in { "scan", "wait" }
  /\ UNCHANGED << transport, buffer, link, notifying, bridge >>

\* ... has found the bridge ...
Scans(i, u) ==
  /\ task[i].at = "scan" /\ u.at = "link" /\ u.result = task[i].result
  /\ UNCHANGED << transport, buffer, link, notifying, bridge >>

\* ... has disconnected ...
Leaves(i, u) ==
  /\ task[i].at = "disconnect" /\ u.at = "ended" /\ u.result = Ok /\ u.by = task[i].by
  /\ link' = IF link = task[i].by THEN 0 ELSE link
  /\ air' \in { air, << >> } /\ notifying' \in BOOLEAN
  /\ UNCHANGED << transport, buffer, inbox, drops, written >>

\* ... has the link ...
Links(i, u) ==
  /\ task[i].at = "link" /\ u.at = "subscribe" /\ u.result = task[i].result
  /\ link = 0 /\ link' = i /\ notifying' = FALSE
  /\ UNCHANGED << transport, buffer, bridge >>

\* ... has subscribed, and may go on to its line ...
Subscribes(i, u) ==
  /\ task[i].at = "subscribe" /\ link = i /\ client' = i
  /\ \/ calls[i] = "send" /\ u.at = "write" /\ u.start = Len(buffer)
          /\ u.result = task[i].result /\ isSet' = FALSE
     \/ calls[i] # "send" /\ u.at = "ended" /\ u.result = Ok /\ isSet' = isSet
  /\ lastTarget' = TRUE /\ notifying' = TRUE
  /\ UNCHANGED << event, buffer, link, bridge >>

\* ... has written the line, and waits or not ...
Writes(i, u) ==
  /\ task[i].at = "write"
  /\ \/ isSet /\ u.at = "ended" /\ u.result = Answer(i)
     \/ ~isSet /\ u.at = "wait" /\ u.start = task[i].start /\ u.result = task[i].result
             /\ u.event = event
  /\ inbox' = Append(inbox, i) /\ written' = Append(written, i)
  /\ UNCHANGED << transport, buffer, link, notifying, air, drops >>

\* ... or has its answer.
Wakes(i, u) ==
  /\ task[i].at = "awake" /\ u.at = "ended" /\ u.result = Answer(i)
  /\ UNCHANGED << transport, buffer, link, notifying, bridge >>

Moves(i, u) ==
  /\ Moved(i, u) /\ caller # "closed" /\ task[i].at # "ended"
  /\ Fails(i, u) \/ Scans(i, u) \/ Leaves(i, u) \/ Links(i, u) \/ Subscribes(i, u)
       \/ Writes(i, u) \/ Wakes(i, u)

LEMMA CoroutineParts ==
  ASSUME TypeInv, CallInv, NEW i \in DOMAIN task, Coroutine(i)
  PROVE  \E u : Moves(i, u)
<1>1. /\ i \in 1 .. Len(calls) /\ task[i] \in Task /\ calls[i] \in Kind
      /\ task[i].at \in Awaits(calls[i])
  BY TypeNow DEF CallInv
<1>2. PICK t : t = task[i]
  OBVIOUS
<1>3. t \in Task /\ t.start \in Nat
  BY <1>1, <1>2, TaskParts
<1>4. caller # "closed" /\ t.at # "ended"
  BY <1>2 DEF Coroutine, At, RunDisconnect, Scan, LinkUp, Subscribe, Write, Wake, WaitTimesOut
<1>5. \A x : task' = [ task EXCEPT ![i] = x ] /\ x \in Task /\ UNCHANGED << caller, calls, outcomes >>
               => Moved(i, x)
  BY <1>1 DEF Moved
<1>6. ASSUME NEW r \in Result
      PROVE  LET u == [ t EXCEPT !.at = "ended", !.result = r ]
             IN /\ u \in Task /\ u.at = "ended" /\ u.result = r /\ u.by = t.by
                /\ End(i, r) => task' = [ task EXCEPT ![i] = u ]
  <2> DEFINE u == [ t EXCEPT !.at = "ended", !.result = r ]
  <2>1. u \in Task /\ u.at = "ended" /\ u.result = r /\ u.by = t.by
    BY <1>3, TaskEnds
  <2>2. End(i, r) => task' = [ task EXCEPT ![i] = u ]
    BY <1>1, <1>2, <1>3 DEF End, Task
  <2> QED
    BY <2>1, <2>2
<1>7. ASSUME NEW await \in Await
      PROVE  LET u == [ t EXCEPT !.at = await ]
             IN /\ u \in Task /\ u.at = await /\ u.result = t.result
                /\ GoTo(i, await) => task' = [ task EXCEPT ![i] = u ]
  BY <1>1, <1>2, <1>3, TaskAt DEF GoTo
<1>8. ASSUME NEW r \in { BleError, TimedOut, Foreign }, End(i, r),
             r = BleError => t.at = "scan", r = TimedOut => t.at = "wait",
             UNCHANGED << caller, calls, outcomes, transport, buffer, link, notifying, bridge >>
      PROVE  \E u : Moves(i, u)
  <2> DEFINE u == [ t EXCEPT !.at = "ended", !.result = r ]
  <2>1. r \in Result
    BY Failures
  <2>2. u \in Task /\ u.at = "ended" /\ u.result = r /\ u.by = t.by /\ Moved(i, u)
    BY <1>5, <1>6, <1>8, <2>1
  <2>3. r = Foreign \/ t.at \in { "scan", "wait" }
    BY <1>8
  <2> HIDE DEF u
  <2>4. Fails(i, u)
    BY <1>2, <1>8, <2>2, <2>3 DEF Fails
  <2> QED
    BY <1>2, <1>4, <2>2, <2>4 DEF Moves
<1>9. ASSUME BleakRaises(i) PROVE \E u : Moves(i, u)
  <2>1. Foreign # BleError /\ Foreign # TimedOut
    BY Failures
  <2> QED
    BY <1>8, <1>9, <2>1 DEF BleakRaises
<1>10. { "link", "subscribe", "wait", "awake", "ended" } \subseteq Await
  BY DEF Await
<1>11. CASE RunDisconnect(i)
  <2> DEFINE u == [ t EXCEPT !.at = "ended", !.result = Ok ]
  <2> SUFFICES ASSUME ~BleakRaises(i) PROVE \E v : Moves(i, v)
    BY <1>9
  <2>1. Ok \in Result
    BY Failures
  <2>2. u.at = "ended" /\ u.result = Ok /\ u.by = t.by /\ Moved(i, u)
    BY <1>5, <1>6, <1>11, <2>1 DEF RunDisconnect
  <2> HIDE DEF u
  <2>3. notifying \in BOOLEAN
    BY TypeNow
  <2>4. Leaves(i, u)
    BY <1>2, <1>11, <2>2, <2>3 DEF RunDisconnect, At, Leaves
  <2> QED
    BY <1>2, <1>4, <2>2, <2>4 DEF Moves
<1>12. CASE Scan(i)
  <2> DEFINE u == [ t EXCEPT !.at = "link" ]
  <2>1. CASE GoTo(i, "link")
    <3>1. u.at = "link" /\ u.result = t.result /\ Moved(i, u)
      BY <1>5, <1>7, <1>10, <1>12, <2>1 DEF Scan
    <3> HIDE DEF u
    <3>2. Scans(i, u)
      BY <1>2, <1>12, <3>1 DEF Scan, At, Scans
    <3> QED
      BY <1>2, <1>4, <3>1, <3>2 DEF Moves
  <2>2. CASE End(i, BleError)
    <3>1. BleError # TimedOut
      BY Failures
    <3> QED
      BY <1>2, <1>8, <1>12, <2>2, <3>1 DEF Scan, At
  <2> QED
    BY <1>12, <2>1, <2>2 DEF Scan
<1>13. CASE LinkUp(i)
  <2> DEFINE u == [ t EXCEPT !.at = "subscribe" ]
  <2> SUFFICES ASSUME ~BleakRaises(i) PROVE \E v : Moves(i, v)
    BY <1>9
  <2>1. u.at = "subscribe" /\ u.result = t.result /\ Moved(i, u)
    BY <1>5, <1>7, <1>10, <1>13 DEF LinkUp
  <2> HIDE DEF u
  <2>2. Links(i, u)
    BY <1>2, <1>13, <2>1 DEF LinkUp, At, Links
  <2> QED
    BY <1>2, <1>4, <2>1, <2>2 DEF Moves
<1>14. CASE Subscribe(i)
  <2> SUFFICES ASSUME ~BleakRaises(i) PROVE \E v : Moves(i, v)
    BY <1>9
  <2>1. /\ t.at = "subscribe" /\ link = i /\ notifying' = TRUE /\ client' = i
        /\ lastTarget' = TRUE
        /\ UNCHANGED << caller, calls, outcomes, event, buffer, link, bridge >>
    BY <1>2, <1>14 DEF Subscribe, At
  <2>2. CASE calls[i] = "send"
    <3> DEFINE u == [ t EXCEPT !.at = "write", !.by = i, !.start = Len(buffer) ]
    <3>1. PrepareLine(i)
      BY <1>14, <2>2 DEF Subscribe
    <3>2. i \in 0 .. MaxCalls /\ Len(buffer) \in Nat
      BY <1>1, TypeNow DEF Line
    <3>3. u \in Task /\ u.at = "write" /\ u.start = Len(buffer) /\ u.result = t.result
      BY <1>3, <3>2 DEF Task, Await
    <3>4. task' = [ task EXCEPT ![i] = u ] /\ isSet' = FALSE
      BY <1>1, <1>2, <3>1 DEF PrepareLine
    <3>5. Moved(i, u)
      BY <1>5, <2>1, <3>3, <3>4
    <3> HIDE DEF u
    <3>6. Subscribes(i, u)
      BY <1>2, <2>1, <2>2, <3>3, <3>4 DEF Subscribes
    <3> QED
      BY <1>2, <1>4, <3>5, <3>6 DEF Moves
  <2>3. CASE calls[i] # "send"
    <3> DEFINE u == [ t EXCEPT !.at = "ended", !.result = Ok ]
    <3>1. End(i, Ok) /\ isSet' = isSet /\ Ok \in Result
      BY <1>14, <2>3, Failures DEF Subscribe
    <3>2. u.at = "ended" /\ u.result = Ok /\ Moved(i, u)
      BY <1>5, <1>6, <2>1, <3>1
    <3> HIDE DEF u
    <3>3. Subscribes(i, u)
      BY <1>2, <2>1, <2>3, <3>1, <3>2 DEF Subscribes
    <3> QED
      BY <1>2, <1>4, <3>2, <3>3 DEF Moves
  <2> QED
    BY <2>2, <2>3
<1>15. Answer(i) \in Result
  <2>1. Answers(t.start) \in Seq(Line)
    BY <1>3, AnswersParts
  <2> QED
    BY <1>2, <2>1, AnswerType DEF Answer
<1>16. CASE Write(i)
  <2> SUFFICES ASSUME ~BleakRaises(i) PROVE \E v : Moves(i, v)
    BY <1>9
  <2>1. /\ t.at = "write" /\ inbox' = Append(inbox, i) /\ written' = Append(written, i)
        /\ UNCHANGED << caller, calls, outcomes, transport, buffer, link, notifying, air, drops >>
    BY <1>2, <1>16 DEF Write, At
  <2>2. CASE isSet
    <3> DEFINE u == [ t EXCEPT !.at = "ended", !.result = Answer(i) ]
    <3>1. End(i, Answer(i))
      BY <1>16, <2>2 DEF Write
    <3>2. u.at = "ended" /\ u.result = Answer(i) /\ Moved(i, u)
      BY <1>5, <1>6, <1>15, <2>1, <3>1
    <3> HIDE DEF u
    <3>3. Writes(i, u)
      BY <1>2, <2>1, <2>2, <3>2 DEF Writes
    <3> QED
      BY <1>2, <1>4, <3>2, <3>3 DEF Moves
  <2>3. CASE ~isSet
    <3> DEFINE u == [ t EXCEPT !.at = "wait", !.event = event ]
    <3>1. task' = [ task EXCEPT ![i].at = "wait", ![i].event = event ]
      BY <1>16, <2>3 DEF Write
    <3>2. event \in 0 .. MaxCalls
      BY TypeNow
    <3>3. /\ u \in Task /\ u.at = "wait" /\ u.start = t.start /\ u.result = t.result
          /\ u.event = event
          /\ task' = [ task EXCEPT ![i] = u ]
      BY <1>1, <1>2, <1>3, <3>1, <3>2 DEF Task, Await
    <3>4. Moved(i, u)
      BY <1>5, <2>1, <3>3
    <3> HIDE DEF u
    <3>5. Writes(i, u)
      BY <1>2, <2>1, <2>3, <3>3 DEF Writes
    <3> QED
      BY <1>2, <1>4, <3>4, <3>5 DEF Moves
  <2> QED
    BY <2>2, <2>3
<1>17. CASE Wake(i)
  <2> DEFINE u == [ t EXCEPT !.at = "ended", !.result = Answer(i) ]
  <2>1. u.at = "ended" /\ u.result = Answer(i) /\ Moved(i, u)
    BY <1>5, <1>6, <1>15, <1>17 DEF Wake
  <2> HIDE DEF u
  <2>2. Wakes(i, u)
    BY <1>2, <1>17, <2>1 DEF Wake, At, Wakes
  <2> QED
    BY <1>2, <1>4, <2>1, <2>2 DEF Moves
<1>18. CASE WaitTimesOut(i)
  <2>1. BleError # TimedOut
    BY Failures
  <2> QED
    BY <1>2, <1>8, <1>18, <2>1 DEF WaitTimesOut, At
<1> QED
  BY <1>11, <1>12, <1>13, <1>14, <1>16, <1>17, <1>18 DEF Coroutine

\* A notification wakes coroutines, if any.
Woken(t, u) ==
  t.at = "wait" /\ u.at = "awake" /\ u.by = t.by /\ u.start = t.start /\ u.result = t.result

Delivers(n, chunk) ==
  /\ n \in 1 .. Len(air) /\ chunk = SubSeq(air, 1, n) /\ chunk \in Seq(Token)
  /\ air' = SubSeq(air, n + 1, Len(air)) /\ air' \in Seq(Token)
  /\ buffer' = buffer \o chunk /\ buffer' \in Seq(Token)
  /\ task' \in Seq(Task) /\ Len(task') = Len(calls)
  /\ \A i \in 1 .. Len(calls) :
       task'[i] = task[i] \/ (HasPrompt(chunk) /\ Woken(task[i], task'[i]))
  /\ isSet' \in BOOLEAN
  /\ UNCHANGED << caller, calls, outcomes, client, lastTarget, event, link, notifying,
                  inbox, drops, written >>

LEMMA DeliverParts ==
  ASSUME TypeInv, NEW n \in 1 .. MaxChunk, Deliver(n)
  PROVE  \E chunk : Delivers(n, chunk)
<1>1. PICK chunk : chunk = SubSeq(air, 1, n)
  OBVIOUS
<1>2. /\ air \in Seq(Token) /\ buffer \in Seq(Token) /\ task \in Seq(Task) /\ isSet \in BOOLEAN
      /\ DOMAIN task = 1 .. Len(calls) /\ Len(calls) \in Nat /\ Len(task) = Len(calls)
      /\ \A i \in 1 .. Len(calls) : task[i] \in Task
      /\ MaxChunk \in Nat
  BY TypeNow
<1>3. /\ n <= Len(air) /\ HandleNotify(chunk) /\ air' = SubSeq(air, n + 1, Len(air))
      /\ UNCHANGED << caller, calls, outcomes, client, lastTarget, event, link, notifying,
                      inbox, drops, written >>
  BY <1>1 DEF Deliver
<1>4. n \in 1 .. Len(air) /\ n \in 0 .. Len(air)
  BY <1>2, <1>3
<1>5. chunk \in Seq(Token) /\ air' \in Seq(Token)
  BY <1>1, <1>2, <1>3, <1>4, DropAt
<1>6. buffer' = buffer \o chunk /\ buffer' \in Seq(Token)
  BY <1>2, <1>3, <1>5, JoinAt DEF HandleNotify
<1>7. ASSUME NEW t \in Task
      PROVE  LET u == [ t EXCEPT !.at = "awake" ]
             IN u \in Task /\ (t.at = "wait" => Woken(t, u))
  BY TaskAt DEF Await, Woken
<1>8. CASE HasPrompt(chunk)
  <2>1. /\ isSet' = TRUE
        /\ task' = [ i \in 1 .. Len(calls) |->
                       IF task[i].at = "wait" /\ task[i].event = event
                       THEN [ task[i] EXCEPT !.at = "awake" ] ELSE task[i] ]
    BY <1>2, <1>3, <1>8 DEF HandleNotify
  <2>2. ASSUME NEW i \in 1 .. Len(calls)
        PROVE  task'[i] \in Task /\ (task'[i] = task[i] \/ Woken(task[i], task'[i]))
    <3>1. CASE task[i].at = "wait" /\ task[i].event = event
      <4>1. task'[i] = [ task[i] EXCEPT !.at = "awake" ] /\ task[i] \in Task
        BY <1>2, <2>1, <3>1
      <4> QED
        BY <1>7, <3>1, <4>1
    <3>2. CASE ~(task[i].at = "wait" /\ task[i].event = event)
      BY <1>2, <2>1, <3>2
    <3> QED
      BY <3>1, <3>2
  <2>3. PICK f : f = task'
    OBVIOUS
  <2>4. f \in [ 1 .. Len(calls) -> Task ]
    BY <2>1, <2>2, <2>3
  <2>5. f \in Seq(Task) /\ Len(f) = Len(calls)
    BY ONLY <1>2, <2>4
  <2> QED
    BY <1>1, <1>3, <1>4, <1>5, <1>6, <1>8, <2>1, <2>2, <2>3, <2>5 DEF Delivers
<1>9. CASE ~HasPrompt(chunk)
  <2>1. UNCHANGED << isSet, task >>
    BY <1>3, <1>9 DEF HandleNotify
  <2> QED
    BY <1>1, <1>2, <1>3, <1>4, <1>5, <1>6, <2>1 DEF Delivers
<1> QED
  BY <1>8, <1>9

\* What the bridge answers to a line.
LEMMA AnswerTokens ==
  ASSUME NEW line \in Line
  PROVE  \E a \in Token, b \in Token, c \in Token :
           /\ AnswerTo(line) = << a, b, c >>
           /\ a.line = line /\ b.line = line /\ c.line = line
           /\ a.part = "text" /\ b.part = "promptHead" /\ c.part = "promptTail"
<1>1. PICK a, b, c : /\ a = [ line |-> line, part |-> "text" ]
                     /\ b = [ line |-> line, part |-> "promptHead" ]
                     /\ c = [ line |-> line, part |-> "promptTail" ]
  OBVIOUS
<1>2. \A p \in { "text", "promptHead", "promptTail" } : [ line |-> line, part |-> p ] \in Token
  BY DEF Token, Tokens, Line
<1>3. AnswerTo(line) = << a, b, c >>
  BY <1>1 DEF AnswerTo
<1> QED
  BY <1>1, <1>2, <1>3

LEMMA AnswerToParts ==
  ASSUME NEW line \in Line
  PROVE  /\ AnswerTo(line) \in Seq(Token) /\ Len(AnswerTo(line)) = 3
         /\ \A k \in 1 .. 3 : AnswerTo(line)[k].line = line
         /\ AnswerTo(line)[1].part = "text"
         /\ AnswerTo(line)[2].part = "promptHead"
         /\ AnswerTo(line)[3].part = "promptTail"
<1>1. PICK a \in Token, b \in Token, c \in Token :
        /\ AnswerTo(line) = << a, b, c >>
        /\ a.line = line /\ b.line = line /\ c.line = line
        /\ a.part = "text" /\ b.part = "promptHead" /\ c.part = "promptTail"
  BY AnswerTokens
<1>2. PICK s : s = << a, b, c >>
  OBVIOUS
<1>3. s \in Seq(Token) /\ Len(s) = 3 /\ s[1] = a /\ s[2] = b /\ s[3] = c
  BY ONLY a \in Token, b \in Token, c \in Token, <1>2
<1>4. \A k \in 1 .. 3 : k = 1 \/ k = 2 \/ k = 3
  OBVIOUS
<1> QED
  BY <1>1, <1>2, <1>3, <1>4

\* The bridge runs a line.
LEMMA RunLineParts ==
  ASSUME TypeInv, RunLine
  PROVE  /\ inbox # << >> /\ inbox' = Tail(inbox) /\ inbox' \in Seq(Line)
         /\ air' \in Seq(Token) /\ inbox[1] \in Line /\ 1 \in 1 .. Len(inbox)
         /\ \A k \in 1 .. Len(inbox') : k + 1 \in 1 .. Len(inbox) /\ inbox'[k] = inbox[k + 1]
         /\ \A k \in 1 .. Len(air') :
              air'[k].line = inbox[1] \/ (k \in 1 .. Len(air) /\ air'[k] = air[k])
         /\ air' = air \/ air' = air \o AnswerTo(inbox[1])
         /\ UNCHANGED << caller, calls, outcomes, task, transport, buffer, link, notifying,
                         drops, written >>
<1>1. /\ inbox # << >> /\ inbox' = Tail(inbox)
      /\ air' = air \/ air' = air \o AnswerTo(Head(inbox))
      /\ UNCHANGED << caller, calls, outcomes, task, transport, buffer, link, notifying,
                      drops, written >>
  BY DEF RunLine
<1>2. inbox \in Seq(Line) /\ air \in Seq(Token)
  BY TypeNow
<1>3. /\ inbox' \in Seq(Line) /\ Len(inbox') = Len(inbox) - 1 /\ Len(inbox) \in Nat \ {0}
      /\ \A k \in 1 .. Len(inbox') : inbox'[k] = inbox[k + 1]
      /\ Head(inbox) = inbox[1]
  BY <1>1, <1>2, TailAt
<1>4. 1 \in 1 .. Len(inbox) /\ inbox[1] \in Line
  BY <1>2, <1>3
<1>5. /\ AnswerTo(inbox[1]) \in Seq(Token) /\ Len(AnswerTo(inbox[1])) = 3
      /\ \A k \in 1 .. 3 : AnswerTo(inbox[1])[k].line = inbox[1]
  BY <1>4, AnswerToParts
<1>6. CASE air' = air
  BY <1>1, <1>2, <1>3, <1>4, <1>6
<1>7. CASE air' = air \o AnswerTo(Head(inbox))
  <2>1. PICK s : s = AnswerTo(inbox[1])
    OBVIOUS
  <2>2. /\ air' \in Seq(Token) /\ Len(air') = Len(air) + 3 /\ Len(air) \in Nat
        /\ \A k \in 1 .. Len(air) : air'[k] = air[k]
        /\ \A k \in 1 .. 3 : air'[Len(air) + k] = s[k]
    <3>1. air \in Seq(Token) /\ s \in Seq(Token) /\ Len(s) = 3 /\ air' = air \o s
      BY <1>2, <1>3, <1>5, <1>7, <2>1
    <3>2. PICK b : b = air'
      OBVIOUS
    <3>3. /\ b \in Seq(Token) /\ Len(b) = Len(air) + Len(s) /\ Len(air) \in Nat
          /\ \A k \in 1 .. Len(air) : b[k] = air[k]
          /\ \A k \in 1 .. Len(s) : b[Len(air) + k] = s[k]
      BY ONLY <3>1, <3>2, JoinAt
    <3> QED
      BY ONLY <3>1, <3>2, <3>3
  <2>3. ASSUME NEW k \in 1 .. Len(air'), k \notin 1 .. Len(air)
        PROVE  air'[k].line = inbox[1]
    <3>1. k - Len(air) \in 1 .. 3 /\ k = Len(air) + (k - Len(air))
      BY <2>2, <2>3
    <3> QED
      BY <1>5, <2>1, <2>2, <3>1
  <2> QED
    BY <1>1, <1>3, <1>4, <1>7, <2>2, <2>3
<1> QED
  BY <1>1, <1>6, <1>7

LEMMA DropParts ==
  ASSUME Drop
  PROVE  /\ link' = 0 /\ notifying' = FALSE /\ air' = << >>
         /\ UNCHANGED << caller, calls, outcomes, task, transport, buffer, inbox, written >>
  BY DEF Drop

-----------------------------------------------------------------------------
LEMMA InitType == Init => TypeInv
<1> SUFFICES ASSUME Init PROVE TypeInv
  OBVIOUS
<1>1. PICK empty : empty = << >> /\ \A S : empty \in Seq(S)
  <2>1. \A S : << >> \in Seq(S)
    OBVIOUS
  <2> QED
    BY ONLY <2>1, Zenon
<1>2. /\ calls = empty /\ outcomes = empty /\ task = empty /\ buffer = empty
      /\ inbox = empty /\ air = empty /\ written = empty
  BY <1>1 DEF Init
<1>3. /\ caller = "idle" /\ client = 0 /\ lastTarget = FALSE /\ event = 0 /\ isSet = FALSE
      /\ link = 0 /\ notifying = FALSE /\ drops = 0
  BY DEF Init
<1>4. Len(empty) = 0
  BY <1>1
<1>5. MaxCalls \in Nat /\ MaxDrops \in Nat
  BY BoundsAssumption
<1>6. 0 \in 0 .. MaxCalls /\ 0 \in 0 .. MaxDrops
  BY <1>5
<1>7. TypeOK
  BY ONLY <1>1, <1>2, <1>3, <1>6 DEF TypeOK
<1>8. SizeInv
  BY ONLY <1>2, <1>3, <1>4, <1>5 DEF SizeInv
<1> QED
  BY <1>7, <1>8 DEF TypeInv

LEMMA MovesType ==
  ASSUME TypeInv, NEW i, NEW u, Moves(i, u)
  PROVE  TypeInv'
<1>1. /\ task' \in Seq(Task) /\ Len(task') = Len(calls') /\ i \in 1 .. Len(calls)
      /\ UNCHANGED << calls, outcomes, caller >>
  BY MovedParts DEF Moves
<1>2. i \in Line /\ i \in 0 .. MaxCalls /\ 0 \in 0 .. MaxCalls /\ << >> \in Seq(Token)
  BY <1>1, TypeNow DEF Line
<1>3. /\ client' \in 0 .. MaxCalls /\ lastTarget' \in BOOLEAN /\ event' = event
      /\ isSet' \in BOOLEAN
      /\ buffer' = buffer /\ link' \in 0 .. MaxCalls /\ notifying' \in BOOLEAN
      /\ air' \in Seq(Token) /\ drops' = drops
      /\ \/ UNCHANGED << inbox, written >>
         \/ inbox' = Append(inbox, i) /\ written' = Append(written, i)
  BY <1>2, TypeNow
     DEF Moves, Fails, Scans, Leaves, Links, Subscribes, Writes, Wakes, transport, bridge
<1>4. inbox' \in Seq(Line) /\ written' \in Seq(Line)
  <2>1. inbox \in Seq(Line) /\ written \in Seq(Line)
    BY TypeNow
  <2> QED
    BY ONLY <1>2, <1>3, <2>1, AppendAt
<1>5. /\ caller' \in { "idle", "busy", "closed" }
      /\ calls' \in Seq(Kind) /\ outcomes' \in Seq(Outcome)
      /\ event' \in 0 .. MaxCalls /\ buffer' \in Seq(Token) /\ drops' \in 0 .. MaxDrops
      /\ Len(outcomes') = Len(calls') /\ Len(calls') <= MaxCalls /\ event' <= Len(calls')
      /\ caller' = "busy" => Len(calls') > 0
  BY <1>1, <1>3, TypeNow DEF TypeInv, SizeInv
<1> QED
  BY ONLY <1>1, <1>3, <1>4, <1>5, TypeAgain

LEMMA StepType == TypeInv /\ CallInv /\ [Next]_vars => TypeInv'
<1> SUFFICES ASSUME TypeInv, CallInv, [Next]_vars PROVE TypeInv'
  OBVIOUS
<1>1. ASSUME NEW kind \in Kind, NEW t \in Task, Begins(kind, t) PROVE TypeInv'
  <2>1. /\ caller' = "busy"
        /\ Len(calls) \in Nat /\ Len(calls') = Len(calls) + 1 /\ Len(calls') <= MaxCalls
        /\ calls' \in Seq(Kind) /\ outcomes' \in Seq(Outcome) /\ task' \in Seq(Task)
        /\ Len(outcomes') = Len(calls') /\ Len(task') = Len(calls')
        /\ UNCHANGED << client, lastTarget, buffer, link, notifying, bridge >>
        /\ event' \in { event, event + 1 } /\ isSet' \in BOOLEAN
    BY <1>1, Submitted DEF Begins
  <2>2. event' \in 0 .. MaxCalls /\ event' <= Len(calls') /\ Len(calls') > 0
    BY <2>1, TypeNow
  <2>3. /\ client' \in 0 .. MaxCalls /\ lastTarget' \in BOOLEAN
        /\ buffer' \in Seq(Token) /\ link' \in 0 .. MaxCalls /\ notifying' \in BOOLEAN
        /\ inbox' \in Seq(Line) /\ air' \in Seq(Token)
        /\ drops' \in 0 .. MaxDrops /\ written' \in Seq(Line)
    BY <2>1, TypeNow DEF bridge
  <2> QED
    BY ONLY <2>1, <2>2, <2>3, TypeAgain
<1>2. CASE Closes
  BY <1>2, TypeNow, TypeAgain DEF Closes, transport, bridge
<1>3. CASE Caller
  BY <1>1, <1>2, <1>3, CallerParts
<1>4. CASE CallEnds
  <2>1. PICK r \in Outcome :
          /\ Current \in 1 .. Len(calls)
          /\ outcomes' = [ outcomes EXCEPT ![Current] = r ]
          /\ caller' = IF calls[Current] = "close" THEN "closed" ELSE "idle"
          /\ UNCHANGED << calls, task, lastTarget, event, isSet, buffer, link, notifying,
                          bridge >>
          /\ client' = client \/ client' = 0
    BY <1>4, EndsParts DEF Ends
  <2>2. outcomes' \in Seq(Outcome) /\ Len(outcomes') = Len(calls)
    BY <2>1, TypeNow
  <2>3. client' \in 0 .. MaxCalls
    BY <2>1, TypeNow
  <2>4. caller' \in { "idle", "busy", "closed" } /\ caller' # "busy"
    BY <2>1
  <2> QED
    BY <2>1, <2>2, <2>3, <2>4, TypeNow, TypeAgain DEF bridge
<1>5. ASSUME NEW i \in DOMAIN task, Coroutine(i) PROVE TypeInv'
  BY <1>5, CoroutineParts, MovesType
<1>6. CASE RunLine
  <2>1. inbox' \in Seq(Line) /\ air' \in Seq(Token)
        /\ UNCHANGED << caller, calls, outcomes, task, transport, buffer, link, notifying,
                        drops, written >>
    BY <1>6, RunLineParts
  <2> QED
    BY <2>1 DEF TypeInv, TypeOK, SizeInv, transport, Line
<1>7. CASE Drop
  <2>1. drops' \in 0 .. MaxDrops
    BY <1>7, TypeNow DEF Drop
  <2>2. << >> \in Seq(Token) /\ 0 \in 0 .. MaxCalls
    BY TypeNow
  <2> QED
    BY <1>7, <2>1, <2>2 DEF Drop, TypeInv, TypeOK, SizeInv, transport
<1>8. ASSUME NEW n \in 1 .. MaxChunk, Deliver(n) PROVE TypeInv'
  <2>1. PICK chunk : Delivers(n, chunk)
    BY <1>8, DeliverParts
  <2>2. /\ air' \in Seq(Token) /\ buffer' \in Seq(Token) /\ isSet' \in BOOLEAN
        /\ task' \in Seq(Task) /\ Len(task') = Len(calls)
        /\ UNCHANGED << caller, calls, outcomes, client, lastTarget, event, link, notifying,
                        inbox, drops, written >>
    BY <2>1 DEF Delivers
  <2> QED
    BY <2>2 DEF TypeInv, TypeOK, SizeInv, Task, Await
<1>9. CASE UNCHANGED vars
  BY <1>9 DEF TypeInv, TypeOK, SizeInv, vars, transport, bridge
<1> QED
  BY <1>3, <1>4, <1>5, <1>6, <1>7, <1>8, <1>9 DEF Next, Bridge

\* The steps, as they are told apart below.
LEMMA Steps ==
  ASSUME TypeInv, CallInv, [Next]_vars
  PROVE  \/ \E kind \in Kind, t \in Task : Begins(kind, t)
         \/ Closes
         \/ \E r \in Outcome : Ends(r)
         \/ \E i, u : Moves(i, u)
         \/ \E n, chunk : Delivers(n, chunk)
         \/ RunLine
         \/ Drop
         \/ UNCHANGED vars
<1>1. Caller => Closes \/ \E kind \in Kind, t \in Task : Begins(kind, t)
  BY CallerParts
<1>2. CallEnds => \E r \in Outcome : Ends(r)
  BY EndsParts
<1>3. (\E i \in DOMAIN task : Coroutine(i)) => \E i, u : Moves(i, u)
  BY CoroutineParts
<1>4. (\E n \in 1 .. MaxChunk : Deliver(n)) => \E n, chunk : Delivers(n, chunk)
  BY DeliverParts
<1> QED
  BY <1>1, <1>2, <1>3, <1>4 DEF Next, Bridge

\* Where nothing of this changes.
LEMMA RestParts ==
  ASSUME RunLine \/ Drop \/ UNCHANGED vars
  PROVE  /\ UNCHANGED << caller, calls, outcomes, task, client, event, isSet, buffer, written >>
         /\ link' \in { link, 0 }
  BY DEF RunLine, Drop, vars, transport, bridge

-----------------------------------------------------------------------------
(* Which coroutines there are.                                              *)

LEMMA InitCall == Init => CallInv
<1> SUFFICES ASSUME Init PROVE CallInv
  OBVIOUS
<1>1. caller = "idle" /\ Len(calls) = 0
  BY DEF Init
<1> QED
  BY <1>1 DEF CallInv

LEMMA StepCall ==
  ASSUME TypeInv, CallInv, [Next]_vars
  PROVE  CallInv'
<1>1. ASSUME NEW kind \in Kind, NEW t \in Task, Begins(kind, t) PROVE CallInv'
  <2>1. PICK n : n = Len(calls')
    OBVIOUS
  <2>2. /\ caller = "idle" /\ caller' = "busy"
        /\ Len(calls) \in Nat /\ n = Len(calls) + 1
        /\ calls'[n] = kind /\ outcomes'[n] = Running /\ task'[n] = t
        /\ \A i \in 1 .. Len(calls) : /\ calls'[i] = calls[i] /\ outcomes'[i] = outcomes[i]
                                      /\ task'[i] = task[i]
    BY <1>1, <2>1, Submitted DEF Begins
  <2>3. t.at \in Awaits(kind) /\ (t.at = "ended" <=> t.result # Running)
    <3>1. BleError # Running
      BY Failures
    <3> QED
      BY <1>1, <3>1 DEF Begins, Awaits
  <2>4. ASSUME NEW i \in 1 .. n
        PROVE  /\ task'[i].at \in Awaits(calls'[i])
               /\ task'[i].at = "ended" <=> task'[i].result # Running
               /\ ~InCall(i)' /\ task'[i].at # "ended" => outcomes'[i] = Overrun
               /\ InCall(i)' /\ task'[i].at = "wait" => task'[i].event = event'
    <3>1. CASE i = n
      <4>1. t.at # "wait"
        BY <1>1 DEF Begins
      <4> QED
        BY <2>1, <2>2, <2>3, <3>1, <4>1 DEF InCall, Current
    <3>2. CASE i # n
      <4>1. i \in 1 .. Len(calls) /\ ~InCall(i) /\ ~InCall(i)'
        BY <2>1, <2>2, <3>2 DEF InCall, Current
      <4> QED
        BY <2>2, <4>1 DEF CallInv
    <3> QED
      BY <3>1, <3>2
  <2> QED
    BY <2>1, <2>2, <2>4 DEF CallInv, Current
<1>2. CASE Closes
  BY <1>2 DEF Closes, CallInv, InCall
<1>3. ASSUME NEW r \in Outcome, Ends(r) PROVE CallInv'
  <2>1. /\ caller = "busy" /\ caller' # "busy" /\ Current \in 1 .. Len(calls)
        /\ outcomes' = [ outcomes EXCEPT ![Current] = r ]
        /\ UNCHANGED << calls, task >>
        /\ task[Current].at # "ended" => r = Overrun
    BY <1>3 DEF Ends
  <2>2. ASSUME NEW i \in 1 .. Len(calls), task[i].at # "ended"
        PROVE  outcomes'[i] = Overrun
    <3>1. CASE i = Current
      BY <2>1, <2>2, <3>1, TypeNow
    <3>2. CASE i # Current
      BY <2>1, <2>2, <3>2, TypeNow DEF CallInv, InCall
    <3> QED
      BY <3>1, <3>2
  <2> QED
    BY <2>1, <2>2 DEF CallInv, InCall
<1>4. ASSUME NEW i, NEW u, Moves(i, u) PROVE CallInv'
  <2>1. /\ task'[i] = u /\ \A j \in 1 .. Len(calls) : j # i => task'[j] = task[j]
        /\ UNCHANGED << calls, outcomes, caller >>
        /\ i \in 1 .. Len(calls) /\ u \in Task /\ task[i].at # "ended"
    BY <1>4, MovedParts DEF Moves
  <2>2. u.at = "ended" <=> u.result # Running
    <3>1. Answer(i).kind # Running.kind
      BY Failures DEF Answer
    <3>2. task[i].result = Running
      BY <2>1 DEF CallInv
    <3> QED
      BY <1>4, <3>1, <3>2, Failures
         DEF Moves, Fails, Scans, Leaves, Links, Subscribes, Writes, Wakes
  <2>3. u.at \in Awaits(calls[i])
    <3>1. task[i].at \in Awaits(calls[i]) /\ calls[i] \in Kind
      BY <2>1, TypeNow DEF CallInv
    <3> QED
      BY <1>4, <3>1
         DEF Moves, Fails, Scans, Leaves, Links, Subscribes, Writes, Wakes, Awaits, Kind
  <2>4. event' = event /\ (u.at = "wait" => u.event = event)
    BY <1>4
       DEF Moves, Fails, Scans, Leaves, Links, Subscribes, Writes, Wakes, transport
  <2> QED
    BY <2>1, <2>2, <2>3, <2>4 DEF CallInv, InCall, Current
<1>5. ASSUME NEW n, NEW chunk, Delivers(n, chunk) PROVE CallInv'
  <2>1. /\ UNCHANGED << caller, calls, outcomes, event >>
        /\ \A i \in 1 .. Len(calls) :
             task'[i] = task[i] \/ (HasPrompt(chunk) /\ Woken(task[i], task'[i]))
    BY <1>5 DEF Delivers
  <2>2. ASSUME NEW i \in 1 .. Len(calls)
        PROVE  /\ task'[i].at \in Awaits(calls'[i])
               /\ task'[i].at = "ended" <=> task'[i].result # Running
               /\ ~InCall(i)' /\ task'[i].at # "ended" => outcomes'[i] = Overrun
               /\ InCall(i)' /\ task'[i].at = "wait" => task'[i].event = event'
    <3>1. CASE task'[i] = task[i]
      BY <2>1, <3>1 DEF CallInv, InCall, Current
    <3>2. CASE Woken(task[i], task'[i])
      <4>1. task[i].at = "wait" /\ task'[i].at = "awake" /\ calls[i] \in Kind
        BY <3>2, TypeNow DEF Woken
      <4>2. "wait" \in Awaits(calls[i])
        BY <4>1 DEF CallInv
      <4>3. "awake" \in Awaits(calls[i])
        BY <4>1, <4>2 DEF Awaits, Kind
      <4> QED
        BY <2>1, <3>2, <4>1, <4>3 DEF CallInv, InCall, Current, Woken
    <3> QED
      BY <2>1, <3>1, <3>2
  <2> QED
    BY <2>1, <2>2 DEF CallInv, Current
<1>6. CASE RunLine \/ Drop \/ UNCHANGED vars
  BY <1>6, RestParts DEF CallInv, InCall, Current
<1> QED
  BY <1>1, <1>2, <1>3, <1>4, <1>5, <1>6, Steps

-----------------------------------------------------------------------------
(* The order of the lines.                                                  *)

LEMMA InitWritten == Init => WrittenInv
<1> SUFFICES ASSUME Init PROVE WrittenInv
  OBVIOUS
<1>1. Len(written) = 0
  BY DEF Init
<1> QED
  BY <1>1 DEF WrittenInv, LateLineOnlyFromOverrun

LEMMA StepWritten ==
  ASSUME TypeInv, CallInv, WrittenInv, [Next]_vars
  PROVE  WrittenInv'
<1>1. ASSUME NEW kind \in Kind, NEW t \in Task, Begins(kind, t) PROVE WrittenInv'
  <2>1. /\ Len(calls) \in Nat /\ Len(calls') = Len(calls) + 1 /\ written' = written
        /\ \A i \in 1 .. Len(calls) : outcomes'[i] = outcomes[i]
    BY <1>1, Submitted DEF Begins, bridge
  <2>2. \A n \in 1 .. Len(written) : written[n] \in 1 .. Len(calls)
    BY <2>1, TypeNow DEF WrittenInv, Line
  <2> QED
    BY <2>1, <2>2 DEF WrittenInv, LateLineOnlyFromOverrun
<1>2. ASSUME UNCHANGED << calls, outcomes, written >> PROVE WrittenInv'
  BY <1>2 DEF WrittenInv, LateLineOnlyFromOverrun
<1>3. ASSUME NEW r \in Outcome, Ends(r) PROVE WrittenInv'
  <2>1. /\ Current \in 1 .. Len(calls)
        /\ outcomes' = [ outcomes EXCEPT ![Current] = r ]
        /\ UNCHANGED << calls, written >>
    BY <1>3 DEF Ends, bridge
  <2>2. ASSUME NEW m \in 1 .. Len(written), NEW n \in 1 .. Len(written),
               m < n, written[m] > written[n]
        PROVE  outcomes'[written[n]] = Overrun
    <3>1. outcomes[written[n]] = Overrun
      BY <2>2 DEF WrittenInv, LateLineOnlyFromOverrun
    <3>2. written[n] # Current /\ written[n] \in 1 .. Len(calls)
      <4>1. written[m] <= Len(calls) /\ written[m] \in Line /\ written[n] \in Line
        BY TypeNow DEF WrittenInv
      <4>2. Len(calls) \in Nat /\ MaxCalls \in Nat
        BY TypeNow
      <4> QED
        BY ONLY <2>2, <4>1, <4>2 DEF Current, Line
    <3> QED
      BY <2>1, <3>1, <3>2, TypeNow
  <2> QED
    BY <2>1, <2>2 DEF WrittenInv, LateLineOnlyFromOverrun
<1>4. ASSUME NEW i, NEW u, Moves(i, u) PROVE WrittenInv'
  <2>1. /\ UNCHANGED << calls, outcomes, caller >> /\ i \in 1 .. Len(calls)
        /\ task[i].at # "ended" /\ i \in Line
    BY <1>4, MovedParts, TypeNow DEF Moves
  <2>2. CASE Writes(i, u)
    <3>1. PICK w : w = written'
      OBVIOUS
    <3>2. written \in Seq(Line) /\ w = Append(written, i)
      BY <2>2, <3>1, TypeNow DEF Writes
    <3>3. /\ Len(written) \in Nat /\ Len(w) = Len(written) + 1
          /\ \A n \in 1 .. Len(written) : w[n] = written[n]
          /\ w[Len(written) + 1] = i
      BY <2>1, <3>2, AppendAt
    <3>4. ASSUME NEW n \in 1 .. Len(w) PROVE w[n] <= Len(calls)
      <4>1. CASE n = Len(written) + 1
        BY <2>1, <3>3, <4>1, TypeNow
      <4>2. CASE n # Len(written) + 1
        BY <3>3, <4>2 DEF WrittenInv
      <4> QED
        BY <4>1, <4>2
    <3>5. ASSUME NEW m \in 1 .. Len(w), NEW n \in 1 .. Len(w), m < n, w[m] > w[n]
          PROVE  outcomes[w[n]] = Overrun
      <4>1. CASE n = Len(written) + 1
        <5>1. w[n] = i /\ w[m] <= Len(calls) /\ w[m] = written[m] /\ w[m] \in Line
          BY <3>2, <3>3, <3>4, <3>5, <4>1
        <5>2. ~InCall(i)
          <6>1. Len(calls) \in Nat /\ MaxCalls \in Nat
            BY TypeNow
          <6> QED
            BY ONLY <2>1, <3>5, <5>1, <6>1 DEF InCall, Current, Line
        <5> QED
          BY <2>1, <5>1, <5>2 DEF CallInv
      <4>2. CASE n # Len(written) + 1
        <5>1. n \in 1 .. Len(written) /\ m \in 1 .. Len(written)
          BY <3>3, <3>5, <4>2
        <5>2. w[n] = written[n] /\ w[m] = written[m]
          BY <3>3, <5>1
        <5> QED
          BY <3>5, <5>1, <5>2 DEF WrittenInv, LateLineOnlyFromOverrun
      <4> QED
        BY <4>1, <4>2
    <3> QED
      BY <2>1, <3>1, <3>4, <3>5 DEF WrittenInv, LateLineOnlyFromOverrun
  <2>3. CASE ~Writes(i, u)
    <3>1. written' = written
      BY <1>4, <2>3 DEF Moves, Fails, Scans, Leaves, Links, Subscribes, Wakes, bridge
    <3> QED
      BY <1>2, <2>1, <3>1
  <2> QED
    BY <2>2, <2>3
<1>5. ASSUME NEW n, NEW chunk, Delivers(n, chunk) PROVE WrittenInv'
  BY <1>2, <1>5 DEF Delivers
<1>6. CASE RunLine \/ Drop \/ UNCHANGED vars \/ Closes
  BY <1>2, <1>6, RestParts DEF Closes, bridge
<1> QED
  BY <1>1, <1>3, <1>4, <1>5, <1>6, Steps

-----------------------------------------------------------------------------
(* The link.                                                                *)

LEMMA InitLink == Init => LinkInv
<1> SUFFICES ASSUME Init PROVE LinkInv
  OBVIOUS
<1>1. caller = "idle" /\ Len(calls) = 0 /\ link = 0
  BY DEF Init
<1> QED
  BY <1>1 DEF LinkInv, Unheld

LEMMA FailedStays ==
  ASSUME TypeInv, CallInv, [Next]_vars, NEW i, Failed(i)
  PROVE  Failed(i)'
<1>1. i \in 1 .. Len(calls) /\ outcomes[i].kind \in { "overrun", "foreign" }
  BY TypeNow DEF Failed
<1>2. ASSUME NEW kind \in Kind, NEW t \in Task, Begins(kind, t) PROVE Failed(i)'
  <2>1. /\ outcomes'[i] = outcomes[i] /\ outcomes' \in Seq(Outcome)
        /\ Len(outcomes') = Len(calls) + 1 /\ Len(calls) \in Nat
    BY <1>1, <1>2, Submitted DEF Begins
  <2> QED
    BY <1>1, <2>1 DEF Failed
<1>3. ASSUME NEW r \in Outcome, Ends(r) PROVE Failed(i)'
  <2>1. caller = "busy" /\ outcomes' = [ outcomes EXCEPT ![Current] = r ]
    BY <1>3 DEF Ends
  <2>2. i # Current
    BY <1>1, <2>1, Failures DEF CallInv
  <2> QED
    BY <1>1, <2>1, <2>2 DEF Failed
<1>4. ASSUME outcomes' = outcomes PROVE Failed(i)'
  BY <1>4 DEF Failed
<1>5. ASSUME NEW j, NEW u, Moves(j, u) PROVE Failed(i)'
  BY <1>4, <1>5 DEF Moves, Moved
<1>6. ASSUME NEW n, NEW chunk, Delivers(n, chunk) PROVE Failed(i)'
  BY <1>4, <1>6 DEF Delivers
<1>7. CASE RunLine \/ Drop \/ UNCHANGED vars \/ Closes
  BY <1>4, <1>7, RestParts DEF Closes
<1> QED
  BY <1>2, <1>3, <1>5, <1>6, <1>7, Steps

\* A coroutine that was left behind makes no link but one of a failed call.
LEMMA MovesLink ==
  ASSUME TypeInv, CallInv, LinkInv, NEW i, NEW u, Moves(i, u)
  PROVE  LinkInv'
<1>1. /\ task'[i] = u /\ \A j \in 1 .. Len(calls) : j # i => task'[j] = task[j]
      /\ UNCHANGED << calls, outcomes, caller >> /\ caller # "closed"
      /\ i \in 1 .. Len(calls) /\ task[i].at # "ended"
  BY MovedParts DEF Moves
<1>2. /\ \A j : InCall(j)' <=> InCall(j)
      /\ \A j : Failed(j)' <=> Failed(j)
      /\ \A j : InCall(j) => j = Current /\ j \in 1 .. Len(calls)
  BY <1>1, TypeNow DEF InCall, Current, Failed
<1>3. task[i].at \in Awaits(calls[i]) /\ calls[i] \in Kind
  BY <1>1, TypeNow DEF CallInv
<1>4. CASE InCall(i)
  <2>1. \A j : InCall(j) <=> j = i
    BY <1>4 DEF InCall
  <2>2. SUFFICES /\ \/ link' = client' \/ Unheld'
                    \/ link' = i /\ u.at = "subscribe"
                    \/ link' = i /\ u.at = "ended" /\ u.result = Foreign
                 /\ calls[i] \in { "disconnect", "close" } =>
                      /\ u.by = client' \/ Failed(client')
                      /\ u.at = "ended" => \/ u.result = Foreign
                                           \/ u.result = Ok /\ Unheld'
    BY <1>1, <1>2, <2>1 DEF LinkInv, Failing, Failed
  <2>3. link = client \/ Unheld \/ (link = i /\ task[i].at = "subscribe")
    BY <1>1, <2>1 DEF LinkInv, Failing
  <2>4. calls[i] \in { "disconnect", "close" } =>
          /\ task[i].by = client \/ Failed(client)
          /\ task[i].at = "disconnect"
    BY <1>1, <1>3, <1>4 DEF LinkInv, Awaits
  <2>5. link' = link => (Unheld' <=> Unheld)
    BY <1>2 DEF Unheld, Failed
  <2>6. CASE Fails(i, u)
    BY <2>3, <2>4, <2>5, <2>6 DEF Fails, transport
  <2>7. CASE Leaves(i, u)
    <3>1. calls[i] \in { "disconnect", "close" } /\ task[i].at = "disconnect"
      BY <1>3, <2>7 DEF Leaves, Awaits, Kind
    <3>2. /\ link' = IF link = task[i].by THEN 0 ELSE link
          /\ client' = client /\ u.at = "ended" /\ u.result = Ok /\ u.by = task[i].by
      BY <2>7 DEF Leaves, transport
    <3>3. Unheld'
      BY <1>2, <2>3, <2>4, <3>1, <3>2 DEF Unheld, Failed
    <3> QED
      BY <2>4, <3>1, <3>2, <3>3
  <2>8. CASE Links(i, u)
    BY <2>4, <2>8 DEF Links
  <2>9. CASE Subscribes(i, u)
    BY <2>4, <2>9 DEF Subscribes
  <2>10. CASE Scans(i, u) \/ Writes(i, u) \/ Wakes(i, u)
    BY <2>3, <2>4, <2>5, <2>10 DEF Scans, Writes, Wakes, transport
  <2> QED
    BY <2>6, <2>7, <2>8, <2>9, <2>10 DEF Moves
<1>5. CASE ~InCall(i)
  <2>1. Failed(i)
    <3>1. outcomes[i] = Overrun /\ Overrun.kind = "overrun" /\ i \in DOMAIN outcomes
      BY <1>1, <1>5, Failures, TypeNow DEF CallInv
    <3> QED
      BY <3>1 DEF Failed
  <2>2. \A j : InCall(j) => task'[j] = task[j]
    BY <1>1, <1>2, <1>5
  <2>3. /\ link' \in { link, 0, i } /\ client' \in { client, i }
        /\ link' # link => Unheld'
    BY <1>2, <2>1
       DEF Moves, Fails, Scans, Leaves, Links, Subscribes, Writes, Wakes, transport, Unheld,
           Failed
  <2>4. client' # client => Failed(client) \/ client' = i
    BY <2>3
  <2>5. Unheld => Unheld'
    BY <1>2, <2>3 DEF Unheld, Failed
  <2>6. client' # client => link' = client'
    BY DEF Moves, Fails, Scans, Leaves, Links, Subscribes, Writes, Wakes, transport
  <2>7. \/ link' = client' \/ Unheld'
        \/ (InCall(link) /\ (task[link].at = "subscribe" \/ Failing(link)))'
    <3>1. CASE link' # link \/ Unheld
      BY <2>3, <2>5, <3>1
    <3>2. CASE link' = link /\ link = client
      BY <2>6, <3>2
    <3>3. CASE link' = link /\ InCall(link) /\ (task[link].at = "subscribe" \/ Failing(link))
      BY <1>2, <2>2, <3>3 DEF Failing
    <3> QED
      BY <3>1, <3>2, <3>3 DEF LinkInv
  <2>8. ASSUME NEW j \in 1 .. Len(calls), InCall(j), calls[j] \in { "disconnect", "close" }
        PROVE  /\ task'[j].by = client' \/ Failed(client')
               /\ task'[j].at = "ended" => Failing(j)' \/ (task'[j].result = Ok /\ Unheld')
    BY <2>1, <2>2, <2>3, <2>5, <2>8 DEF LinkInv, Failing
  <2> QED
    BY <1>1, <1>2, <2>7, <2>8 DEF LinkInv, Failed
<1> QED
  BY <1>4, <1>5

LEMMA StepLink ==
  ASSUME TypeInv, CallInv, LinkInv, [Next]_vars
  PROVE  LinkInv'
<1>1. /\ \A i : Failed(i) => Failed(i)'
      /\ link' = link /\ Unheld => Unheld'
      /\ link' = 0 => Unheld'
  BY FailedStays DEF Unheld
<1>2. ASSUME NEW kind \in Kind, NEW t \in Task, Begins(kind, t) PROVE LinkInv'
  <2>1. PICK n : n = Len(calls')
    OBVIOUS
  <2>2. /\ caller = "idle" /\ caller' = "busy"
        /\ Len(calls) \in Nat /\ n = Len(calls) + 1
        /\ calls'[n] = kind /\ task'[n] = t
        /\ UNCHANGED << client, link >>
    BY <1>2, <2>1, Submitted DEF Begins
  <2>3. link' = client' \/ Unheld'
    BY <1>1, <2>2 DEF LinkInv, InCall
  <2>4. kind \in { "disconnect", "close" } => t.by = client /\ t.at # "ended"
    BY <1>2 DEF Begins
  <2>5. \A i : InCall(i)' => i = n
    BY <2>1 DEF InCall, Current
  <2> QED
    BY <2>2, <2>3, <2>4, <2>5 DEF LinkInv
<1>3. CASE Closes
  <2>1. Unheld'
    BY <1>1, <1>3 DEF Closes, LinkInv, InCall, Unheld
  <2> QED
    BY <1>3, <2>1 DEF Closes, LinkInv, InCall
<1>4. ASSUME NEW r \in Outcome, Ends(r) PROVE LinkInv'
  <2>1. /\ caller = "busy" /\ Current \in 1 .. Len(calls) /\ InCall(Current)
        /\ outcomes' = [ outcomes EXCEPT ![Current] = r ] /\ UNCHANGED << calls, link, task >>
        /\ caller' = IF calls[Current] = "close" THEN "closed" ELSE "idle"
        /\ Current \in DOMAIN outcomes
    BY <1>4, TypeNow DEF Ends, InCall
  <2>2. r \in { Overrun, Foreign } => Failed(Current)'
    BY <2>1, Failures DEF Failed, Current
  <2>3. /\ \/ /\ task[Current].at = "ended" /\ r = task[Current].result
              /\ \/ client' = client
                 \/ client' = 0 /\ r = Ok /\ calls[Current] \in { "disconnect", "close" }
           \/ task[Current].at # "ended" /\ r = Overrun /\ client' = client
    BY <1>4 DEF Ends
  <2>4. r # Foreign /\ r # Overrun /\ calls[Current] \in { "disconnect", "close" } => Unheld
    BY <2>1, <2>3 DEF LinkInv, Failing
  <2>5. Ok # Foreign /\ Ok # Overrun
    BY Failures
  <2>6. link' = client' \/ Unheld'
    <3>1. CASE Unheld
      BY <1>1, <2>1, <3>1
    <3>2. CASE link = client /\ ~Unheld
      BY <2>1, <2>3, <2>4, <2>5, <3>2
    <3>3. CASE InCall(link) /\ (task[link].at = "subscribe" \/ Failing(link))
      <4>1. link = Current /\ r \in { Overrun, Foreign }
        BY <2>3, <3>3 DEF InCall, Failing
      <4> QED
        BY <2>1, <2>2, <4>1 DEF Unheld, Current
    <3> QED
      BY <3>1, <3>2, <3>3 DEF LinkInv
  <2>7. caller' = "closed" => Unheld' \/ (calls[Current] = "close" /\ Failed(Current)')
    BY <1>1, <2>1, <2>2, <2>4
  <2> QED
    BY <2>1, <2>6, <2>7 DEF LinkInv, InCall, Current
<1>5. ASSUME NEW i, NEW u, Moves(i, u) PROVE LinkInv'
  BY <1>5, MovesLink
<1>6. ASSUME NEW n, NEW chunk, Delivers(n, chunk) PROVE LinkInv'
  <2>1. /\ UNCHANGED << caller, calls, outcomes, client, link >>
        /\ \A i \in 1 .. Len(calls) : task'[i] = task[i] \/ Woken(task[i], task'[i])
    BY <1>6 DEF Delivers
  <2>2. \A i \in 1 .. Len(calls) :
          /\ task'[i].by = task[i].by
          /\ task[i].at \in { "subscribe", "ended" } => task'[i] = task[i]
          /\ task'[i].at = "ended" => task'[i] = task[i]
    BY <2>1 DEF Woken
  <2>3. /\ InCall(link) => link \in 1 .. Len(calls)
        /\ \A i : InCall(i)' <=> InCall(i)
        /\ \A i : Failed(i)' <=> Failed(i)
        /\ Unheld' <=> Unheld
    BY <2>1, TypeNow DEF InCall, Current, Failed, Unheld
  <2> QED
    BY <2>1, <2>2, <2>3 DEF LinkInv, Failing, Current, Failed
<1>7. CASE RunLine \/ Drop \/ UNCHANGED vars
  <2>1. /\ UNCHANGED << caller, calls, outcomes, task, client >> /\ link' \in { link, 0 }
    BY <1>7, RestParts
  <2>2. /\ \A i : InCall(i)' <=> InCall(i)
        /\ \A i : Failed(i)' <=> Failed(i)
        /\ Unheld => Unheld'
    BY <1>1, <2>1 DEF InCall, Current, Failed
  <2>3. link' # link => Unheld'
    BY <1>1, <2>1
  <2> QED
    BY <2>1, <2>2, <2>3 DEF LinkInv, Failing, Current, Failed
<1> QED
  BY <1>2, <1>3, <1>4, <1>5, <1>6, <1>7, Steps

-----------------------------------------------------------------------------
(* Calls that gave up.                                                      *)

LEMMA GaveUpStays ==
  ASSUME TypeInv, CallInv, [Next]_vars, NEW j \in 1 .. Len(calls), GaveUp(j)
  PROVE  GaveUp(j)' /\ j \in 1 .. Len(calls')
<1>1. outcomes[j].kind # "running"
  BY DEF GaveUp
<1>2. ASSUME NEW kind \in Kind, NEW t \in Task, Begins(kind, t)
      PROVE  GaveUp(j)' /\ j \in 1 .. Len(calls')
  <2>1. /\ calls'[j] = calls[j] /\ outcomes'[j] = outcomes[j]
        /\ Len(calls') = Len(calls) + 1 /\ Len(calls) \in Nat
    BY <1>2, Submitted DEF Begins
  <2> QED
    BY <2>1 DEF GaveUp
<1>3. ASSUME NEW r \in Outcome, Ends(r) PROVE GaveUp(j)' /\ j \in 1 .. Len(calls')
  <2>1. /\ caller = "busy" /\ outcomes' = [ outcomes EXCEPT ![Current] = r ]
        /\ UNCHANGED calls
    BY <1>3 DEF Ends
  <2>2. j # Current
    BY <1>1, <2>1, Failures DEF CallInv
  <2>3. outcomes'[j] = outcomes[j]
    BY <2>1, <2>2, TypeNow
  <2> QED
    BY <2>1, <2>3 DEF GaveUp
<1>4. ASSUME UNCHANGED << calls, outcomes >> PROVE GaveUp(j)' /\ j \in 1 .. Len(calls')
  BY <1>4 DEF GaveUp
<1> QED
  BY <1>2, <1>3, <1>4, Steps, RestParts DEF Closes, Moves, Moved, Delivers

LEMMA GaveUpByStays ==
  ASSUME TypeInv, CallInv, [Next]_vars, NEW line \in 1 .. Len(calls), GaveUpBy(line)
  PROVE  GaveUpBy(line)'
<1>1. PICK j \in 1 .. line : GaveUp(j)
  BY DEF GaveUpBy
<1>2. j \in 1 .. Len(calls)
  BY TypeNow
<1>3. GaveUp(j)'
  BY <1>1, <1>2, GaveUpStays
<1> QED
  BY <1>3 DEF GaveUpBy

\* No call has given up.
NoneGaveUp == \A i \in 1 .. Len(calls) : ~GaveUp(i)

LEMMA NoneBefore ==
  ASSUME TypeInv, CallInv, [Next]_vars, NoneGaveUp'
  PROVE  NoneGaveUp
  BY GaveUpStays DEF NoneGaveUp

\* One that has is not the one in progress.
LEMMA GaveUpEarlier ==
  ASSUME TypeInv, CallInv, caller = "busy", ~NoneGaveUp
  PROVE  GaveUpBy(Current) /\ \E j \in 1 .. Current - 1 : GaveUp(j)
<1>1. PICK j \in 1 .. Len(calls) : GaveUp(j)
  BY DEF NoneGaveUp
<1>2. j # Current
  BY <1>1, Failures DEF GaveUp, CallInv
<1>3. j \in 1 .. Current - 1 /\ j \in 1 .. Current
  <2>1. Len(calls) \in Nat
    BY TypeNow
  <2> QED
    BY ONLY j \in 1 .. Len(calls), <1>2, <2>1 DEF Current
<1> QED
  BY <1>1, <1>3 DEF GaveUpBy

\* Of the calls of send_line that have not given up only the one in progress
\* has a coroutine left.
LEMMA LeftBehind ==
  ASSUME TypeInv, CallInv, NEW i \in 1 .. Len(calls), calls[i] = "send",
         task[i].at # "ended"
  PROVE  InCall(i) \/ GaveUp(i)
  BY Failures DEF CallInv, GaveUp

LEMMA ExpectedStays ==
  ASSUME TypeInv, CallInv, [Next]_vars, NEW line \in 1 .. Len(calls), Expected(line),
         (UNCHANGED << caller, calls >>) \/ ~InCall(line)
  PROVE  Expected(line)'
<1>1. CASE GaveUpBy(line)
  BY <1>1, GaveUpByStays DEF Expected
<1>2. CASE InCall(line)
  BY <1>2 DEF Expected, InCall, Current
<1> QED
  BY <1>1, <1>2 DEF Expected

-----------------------------------------------------------------------------
(* What is on its way.                                                      *)

\* CleanInv for call i, of send_line and in progress, and without its hypothesis.
CleanCall(i) ==
  /\ task[i].at \in { "scan", "link", "subscribe", "write" } => Silent
  /\ task[i].at = "write" => ~isSet /\ task[i].start = Len(buffer)
  /\ task[i].at = "wait" => Answering(i)
  /\ task[i].at = "awake" =>
       Silent /\ SubSeq(buffer, task[i].start + 1, Len(buffer)) = AnswerTo(i)
  /\ task[i].result.kind = "answer" => Silent /\ task[i].result.text = << i >>

Clean == IF caller = "busy" /\ calls[Current] = "send" THEN CleanCall(Current) ELSE Silent

LEMMA CleanParts == CleanInv <=> (NoneGaveUp => Clean)
  BY DEF CleanInv, Clean, CleanCall, NoneGaveUp

\* A call that ends leaves nothing on its way, or has given up.
LEMMA EndsSilent ==
  ASSUME TypeInv, CallInv, CleanInv, [Next]_vars, NEW r \in Outcome, Ends(r),
         NEW line, line = Current
  PROVE  Silent \/ GaveUpBy(line)'
<1>1. /\ caller = "busy" /\ line \in 1 .. Len(calls) /\ line \in 1 .. line
      /\ outcomes' = [ outcomes EXCEPT ![line] = r ] /\ UNCHANGED << calls, task >>
      /\ \/ task[line].at = "ended" /\ r = task[line].result
         \/ r = Overrun
  <2>1. Current \in 1 .. Len(calls) /\ Len(calls) \in Nat
    BY TypeNow DEF Ends
  <2>2. line \in 1 .. line
    BY ONLY line = Current, <2>1
  <2> QED
    BY <2>1, <2>2 DEF Ends
<1>2. CASE ~NoneGaveUp
  <2>1. GaveUpBy(line)
    BY <1>1, <1>2, GaveUpEarlier
  <2> QED
    BY <1>1, <2>1, GaveUpByStays
<1>3. CASE NoneGaveUp
  <2>1. Clean
    BY <1>3, CleanParts
  <2>2. CASE calls[line] # "send" \/ r.kind = "answer"
    BY <1>1, <2>1, <2>2, Failures DEF Clean, CleanCall
  <2>3. CASE calls[line] = "send" /\ r.kind # "answer"
    <3>1. outcomes'[line] = r
      BY <1>1, TypeNow
    <3>2. r.kind # "running"
      <4>1. CASE r = Overrun
        BY <4>1, Failures
      <4>2. CASE r # Overrun
        <5>1. r # Running /\ task[line] \in Task
          BY <1>1, <4>2, TypeNow DEF CallInv
        <5>2. r \in Result
          BY <1>1, <4>2, <5>1, TaskParts
        <5> QED
          BY <5>2, ResultParts
      <4> QED
        BY <4>1, <4>2
    <3>3. GaveUp(line)'
      BY <1>1, <2>3, <3>1, <3>2 DEF GaveUp
    <3> QED
      BY <1>1, <3>3 DEF GaveUpBy
  <2> QED
    BY <2>2, <2>3
<1> QED
  BY <1>2, <1>3

LEMMA InitPipe == Init => PipeInv
<1> SUFFICES ASSUME Init PROVE PipeInv
  OBVIOUS
<1>1. Len(inbox) = 0 /\ Len(air) = 0
  BY DEF Init
<1> QED
  BY <1>1 DEF PipeInv

\* The lines of what is on its way.
OnWay == { inbox[k] : k \in 1 .. Len(inbox) } \cup { air[k].line : k \in 1 .. Len(air) }

LEMMA PipeParts == PipeInv <=> \A line \in OnWay : line <= Len(calls) /\ Expected(line)
  BY DEF PipeInv, OnWay

LEMMA OnWayType ==
  ASSUME TypeInv, PipeInv, NEW line \in OnWay
  PROVE  line \in 1 .. Len(calls) /\ Expected(line)
<1>1. line <= Len(calls) /\ Expected(line)
  BY PipeParts
<1>2. line \in Line
  <2>1. inbox \in Seq(Line) /\ air \in Seq(Token)
    BY TypeNow
  <2>2. \A e \in Token : e.line \in Line
    BY DEF Token, Tokens, Line
  <2>3. /\ \A k \in 1 .. Len(inbox) : inbox[k] \in Line
        /\ \A k \in 1 .. Len(air) : air[k] \in Token
    BY ONLY <2>1
  <2> QED
    BY ONLY line \in OnWay, <2>2, <2>3 DEF OnWay
<1>3. Len(calls) \in Nat /\ MaxCalls \in Nat
  BY TypeNow
<1>4. line \in 1 .. Len(calls)
  BY ONLY <1>1, <1>2, <1>3 DEF Line
<1> QED
  BY <1>1, <1>4

LEMMA OnWayStays ==
  ASSUME TypeInv, CallInv, PipeInv, [Next]_vars, NEW line \in OnWay,
         Len(calls') \in Nat, Len(calls) <= Len(calls'),
         (UNCHANGED << caller, calls >>) \/ ~InCall(line)
  PROVE  line <= Len(calls') /\ Expected(line)'
<1>1. line \in 1 .. Len(calls) /\ Expected(line) /\ Len(calls) \in Nat
  BY OnWayType, TypeNow
<1>2. Expected(line)'
  BY <1>1, ExpectedStays
<1>3. line <= Len(calls')
  BY <1>1
<1> QED
  BY <1>2, <1>3

LEMMA StepPipe ==
  ASSUME TypeInv, CallInv, CleanInv, PipeInv, [Next]_vars
  PROVE  PipeInv'
<1>1. PipeInv' <=> \A line \in OnWay' : line <= Len(calls') /\ Expected(line)'
  BY DEF PipeInv, OnWay
<1>2. SUFFICES ASSUME NEW line \in OnWay' PROVE line <= Len(calls') /\ Expected(line)'
  BY <1>1
<1>3. Len(calls) \in Nat
  BY TypeNow
<1>4. ASSUME UNCHANGED << caller, calls >>, line \in OnWay
      PROVE  line <= Len(calls') /\ Expected(line)'
  BY <1>3, <1>4, OnWayStays
<1>5. ASSUME UNCHANGED << inbox, air >> PROVE line \in OnWay
  BY <1>5 DEF OnWay
<1>6. ASSUME NEW kind \in Kind, NEW t \in Task, Begins(kind, t)
      PROVE  line <= Len(calls') /\ Expected(line)'
  <2>1. /\ caller = "idle" /\ Len(calls') = Len(calls) + 1 /\ UNCHANGED << inbox, air >>
    BY <1>6, Submitted DEF Begins, bridge
  <2>2. ~InCall(line)
    BY <2>1 DEF InCall
  <2>3. Len(calls') \in Nat /\ Len(calls) <= Len(calls')
    BY <1>3, <2>1
  <2> QED
    BY <1>5, <2>1, <2>2, <2>3, OnWayStays
<1>7. CASE Closes
  <2>1. /\ caller = "idle" /\ calls' = calls /\ UNCHANGED << inbox, air >>
    BY <1>7 DEF Closes, bridge
  <2> QED
    BY <1>3, <1>5, <2>1, OnWayStays DEF InCall
<1>8. ASSUME NEW r \in Outcome, Ends(r) PROVE line <= Len(calls') /\ Expected(line)'
  <2>1. calls' = calls /\ UNCHANGED << inbox, air >>
    BY <1>8 DEF Ends, bridge
  <2>2. line \in OnWay
    BY <1>5, <2>1
  <2>3. CASE InCall(line)
    <3>1. ~Silent
      BY <2>2 DEF Silent, OnWay
    <3>2. GaveUpBy(line)' /\ line <= Len(calls')
      BY <1>3, <1>8, <2>1, <2>3, <3>1, EndsSilent DEF InCall, Current
    <3> QED
      BY <3>2 DEF Expected
  <2>4. CASE ~InCall(line)
    BY <1>3, <2>1, <2>2, <2>4, OnWayStays
  <2> QED
    BY <2>3, <2>4
<1>9. ASSUME NEW i, NEW u, Moves(i, u) PROVE line <= Len(calls') /\ Expected(line)'
  <2>1. /\ UNCHANGED << caller, calls >> /\ i \in 1 .. Len(calls) /\ task[i].at # "ended"
    BY <1>9 DEF Moves, Moved
  <2>2. CASE Writes(i, u)
    <3>1. /\ task[i].at = "write" /\ inbox' = Append(inbox, i) /\ air' = air
      BY <2>2 DEF Writes
    <3>2. inbox \in Seq(Line) /\ i \in Line /\ calls[i] \in Kind
      BY <2>1, TypeNow
    <3>3. calls[i] = "send"
      BY <2>1, <3>1, <3>2 DEF CallInv, Awaits, Kind
    <3>4. line = i \/ line \in OnWay
      <4>1. PICK b : b = inbox'
        OBVIOUS
      <4>2. Len(b) = Len(inbox) + 1 /\ Len(inbox) \in Nat /\ b[Len(inbox) + 1] = i
            /\ \A k \in 1 .. Len(inbox) : b[k] = inbox[k]
        BY ONLY <3>1, <3>2, <4>1, AppendAt
      <4>3. \A k \in 1 .. Len(b) : k \in 1 .. Len(inbox) \/ k = Len(inbox) + 1
        BY ONLY <4>2
      <4>4. line \in { b[k] : k \in 1 .. Len(b) } \cup { air[k].line : k \in 1 .. Len(air) }
        BY <1>2, <3>1, <4>1 DEF OnWay
      <4> QED
        BY ONLY <4>2, <4>3, <4>4 DEF OnWay
    <3>5. Expected(i)
      <4>1. InCall(i) \/ GaveUp(i)
        BY <2>1, <3>3, LeftBehind
      <4>2. i \in 1 .. i
        BY <2>1
      <4> QED
        BY <4>1, <4>2 DEF Expected, GaveUpBy
    <3>6. Expected(i)' /\ i <= Len(calls')
      BY <1>3, <2>1, <3>5, ExpectedStays
    <3> QED
      BY <1>4, <2>1, <3>4, <3>6
  <2>3. CASE ~Writes(i, u)
    <3>1. inbox' = inbox /\ (air' = air \/ air' = << >>)
      BY <1>9, <2>3 DEF Moves, Fails, Scans, Leaves, Links, Subscribes, Wakes, bridge
    <3>2. line \in OnWay
      BY <1>2, <3>1 DEF OnWay
    <3> QED
      BY <1>4, <2>1, <3>2
  <2> QED
    BY <2>2, <2>3
<1>10. ASSUME NEW n, NEW chunk, Delivers(n, chunk)
       PROVE  line <= Len(calls') /\ Expected(line)'
  <2>1. /\ UNCHANGED << caller, calls, inbox >> /\ n \in 1 .. Len(air)
        /\ air' = SubSeq(air, n + 1, Len(air))
    BY <1>10 DEF Delivers
  <2>2. air \in Seq(Token)
    BY TypeNow
  <2>3. PICK b : b = air'
    OBVIOUS
  <2>4. n \in 0 .. Len(air) /\ Len(air) \in Nat
    BY ONLY <2>1, <2>2
  <2>5. Len(b) = Len(air) - n /\ \A k \in 1 .. Len(air) - n : b[k] = air[k + n]
    BY ONLY <2>1, <2>2, <2>3, <2>4, DropAt
  <2>6. \A k \in 1 .. Len(b) : k + n \in 1 .. Len(air) /\ b[k] = air[k + n]
    BY ONLY <2>4, <2>5
  <2>7. line \in { inbox[k] : k \in 1 .. Len(inbox) } \cup { b[k].line : k \in 1 .. Len(b) }
    BY <1>2, <2>1, <2>3 DEF OnWay
  <2>8. line \in OnWay
    BY ONLY <2>6, <2>7 DEF OnWay
  <2> QED
    BY <1>4, <2>1, <2>8
<1>11. CASE RunLine
  <2>1. /\ 1 \in 1 .. Len(inbox) /\ UNCHANGED << caller, calls >>
        /\ \A k \in 1 .. Len(inbox') : k + 1 \in 1 .. Len(inbox) /\ inbox'[k] = inbox[k + 1]
        /\ \A k \in 1 .. Len(air') :
             air'[k].line = inbox[1] \/ (k \in 1 .. Len(air) /\ air'[k] = air[k])
    BY <1>11, RunLineParts
  <2>2. line \in OnWay
    BY <1>2, <2>1 DEF OnWay
  <2> QED
    BY <1>4, <2>1, <2>2
<1>12. CASE Drop \/ UNCHANGED vars
  <2>1. UNCHANGED << caller, calls, inbox >> /\ (air' = air \/ air' = << >>)
    BY <1>12 DEF Drop, vars, bridge
  <2>2. line \in OnWay
    BY <1>2, <2>1 DEF OnWay
  <2> QED
    BY <1>4, <2>1, <2>2
<1> QED
  BY <1>6, <1>7, <1>8, <1>9, <1>10, <1>11, <1>12, Steps

-----------------------------------------------------------------------------
(* What has come.                                                           *)

\* The lines of what has come from there on.
Seen(from) == { buffer[k].line : k \in from + 1 .. Len(buffer) }

LEMMA SeenType ==
  ASSUME TypeInv, NEW from \in Nat, NEW line \in Seen(from)
  PROVE  line \in Line
<1>1. buffer \in Seq(Token)
  BY TypeNow
<1>2. PICK k \in from + 1 .. Len(buffer) : line = buffer[k].line
  BY DEF Seen
<1>3. buffer[k] \in Token
  BY ONLY <1>1, k \in from + 1 .. Len(buffer), from \in Nat
<1> QED
  BY <1>2, <1>3 DEF Token, Tokens, Line

InText == { "write", "wait", "awake" }

LEMMA TextParts ==
  ASSUME TextInv, NEW i \in 1 .. Len(calls), InCall(i), task[i].at \in InText
  PROVE  /\ task[i].start <= Len(buffer)
         /\ \A line \in Seen(task[i].start) : line <= i /\ Expected(line)
  BY DEF TextInv, Seen, InText

LEMMA InitText == Init => TextInv
  BY DEF Init, TextInv

LEMMA StepText ==
  ASSUME TypeInv, CallInv, PipeInv, TextInv, [Next]_vars
  PROVE  TextInv'
<1>1. SUFFICES ASSUME NEW i \in 1 .. Len(calls'), InCall(i)', task'[i].at \in InText,
                      NEW from, from = task'[i].start
               PROVE  /\ from <= Len(buffer')
                      /\ \A line \in Seen(from)' : line <= i /\ Expected(line)'
  BY DEF TextInv, Seen, InText
<1>2. Len(calls) \in Nat /\ MaxCalls \in Nat /\ buffer \in Seq(Token)
  BY TypeNow
<1>3. ASSUME UNCHANGED << caller, calls >>, task[i].start = from, task[i].at \in InText
      PROVE  /\ InCall(i) /\ i \in 1 .. Len(calls) /\ i = Len(calls)
             /\ from \in Nat /\ from <= Len(buffer)
             /\ \A line \in Seen(from) : line <= i /\ Expected(line)'
  <2>1. InCall(i) /\ i \in 1 .. Len(calls) /\ i = Len(calls)
    BY <1>1, <1>3 DEF InCall, Current
  <2>2. from \in Nat
    BY <1>3, <2>1, TypeNow, TaskParts
  <2>3. from <= Len(buffer) /\ \A line \in Seen(from) : line <= i /\ Expected(line)
    BY <1>3, <2>1, TextParts
  <2>4. ASSUME NEW line \in Seen(from) PROVE Expected(line)'
    <3>1. line \in Line
      BY <2>2, SeenType
    <3>2. line \in 1 .. Len(calls)
      BY ONLY <1>2, <2>1, <2>3, <3>1, line \in Seen(from) DEF Line
    <3> QED
      BY <1>3, <2>3, <3>2, ExpectedStays
  <2> QED
    BY <2>1, <2>2, <2>3, <2>4
<1>4. ASSUME from = Len(buffer'), buffer' \in Seq(Token)
      PROVE  from <= Len(buffer') /\ Seen(from)' = {}
  <2>1. Len(buffer') \in Nat
    BY <1>4
  <2> QED
    BY ONLY <1>4, <2>1 DEF Seen
<1>5. ASSUME UNCHANGED << caller, calls, buffer >>, task[i].start = from, task[i].at \in InText
      PROVE  /\ from <= Len(buffer')
             /\ \A line \in Seen(from)' : line <= i /\ Expected(line)'
  <2>1. Seen(from)' = Seen(from)
    BY <1>5 DEF Seen
  <2> QED
    BY <1>3, <1>5, <2>1
<1>6. ASSUME NEW kind \in Kind, NEW t \in Task, Begins(kind, t)
      PROVE  /\ from <= Len(buffer')
             /\ \A line \in Seen(from)' : line <= i /\ Expected(line)'
  <2>1. i = Len(calls') /\ task'[Len(calls')] = t /\ t.start = Len(buffer) /\ buffer' = buffer
    BY <1>1, <1>6, Submitted DEF Begins, InCall, Current
  <2> QED
    BY <1>1, <1>2, <1>4, <2>1
<1>7. ~Closes /\ \A r \in Outcome : ~Ends(r)
  BY <1>1 DEF Closes, Ends, InCall
<1>8. ASSUME NEW j, NEW u, Moves(j, u)
      PROVE  /\ from <= Len(buffer')
             /\ \A line \in Seen(from)' : line <= i /\ Expected(line)'
  <2>1. /\ UNCHANGED << caller, calls >> /\ i \in 1 .. Len(calls)
        /\ task'[j] = u /\ (i # j => task'[i] = task[i])
    BY <1>1, <1>8, MovedParts DEF Moves
  <2>2. buffer' = buffer
    BY <1>8 DEF Moves, Fails, Scans, Leaves, Links, Subscribes, Writes, Wakes
  <2>3. CASE i # j
    BY <1>1, <1>5, <2>1, <2>2, <2>3
  <2>4. CASE i = j /\ Subscribes(j, u)
    BY <1>1, <1>2, <1>4, <2>1, <2>2, <2>4 DEF Subscribes, InText
  <2>5. CASE i = j /\ Writes(j, u)
    BY <1>1, <1>5, <2>1, <2>2, <2>5 DEF Writes, InText
  <2>6. CASE i = j /\ ~Subscribes(j, u) /\ ~Writes(j, u)
    BY <1>1, <1>8, <2>1, <2>6 DEF Moves, Fails, Scans, Leaves, Links, Wakes, InText
  <2> QED
    BY <2>3, <2>4, <2>5, <2>6
<1>9. ASSUME NEW n, NEW chunk, Delivers(n, chunk)
      PROVE  /\ from <= Len(buffer')
             /\ \A line \in Seen(from)' : line <= i /\ Expected(line)'
  <2>1. /\ UNCHANGED << caller, calls >> /\ i \in 1 .. Len(calls)
        /\ task'[i] = task[i] \/ Woken(task[i], task'[i])
        /\ buffer' = buffer \o chunk /\ chunk \in Seq(Token)
        /\ n \in 1 .. Len(air) /\ chunk = SubSeq(air, 1, n)
    BY <1>1, <1>9 DEF Delivers
  <2>2. task[i].start = from /\ task[i].at \in InText
    BY <1>1, <2>1 DEF Woken, InText
  <2>3. /\ i = Len(calls) /\ from \in Nat /\ from <= Len(buffer)
        /\ \A line \in Seen(from) : line <= i /\ Expected(line)'
    BY <1>3, <2>1, <2>2
  <2>4. PICK b : b = buffer'
    OBVIOUS
  <2>5. /\ Len(b) = Len(buffer) + Len(chunk) /\ Len(buffer) \in Nat /\ Len(chunk) \in Nat
        /\ \A k \in 1 .. Len(buffer) : b[k] = buffer[k]
        /\ \A k \in 1 .. Len(chunk) : b[Len(buffer) + k] = chunk[k]
    <3>1. b = buffer \o chunk /\ chunk \in Seq(Token) /\ buffer \in Seq(Token)
      BY <1>2, <2>1, <2>4
    <3> QED
      BY ONLY <3>1, JoinAt
  <2>6. air \in Seq(Token)
    BY TypeNow
  <2>7. \A k \in 1 .. Len(chunk) : k \in 1 .. Len(air) /\ chunk[k] = air[k]
    BY ONLY <2>1, <2>6
  <2>8. ASSUME NEW line \in Seen(from)' PROVE line \in Seen(from) \/ line \in OnWay
    <3>1. PICK k \in from + 1 .. Len(b) : line = b[k].line
      BY <2>4 DEF Seen
    <3>2. CASE k <= Len(buffer)
      <4>1. k \in 1 .. Len(buffer) /\ k \in from + 1 .. Len(buffer)
        BY <2>3, <2>5, <3>2
      <4> QED
        BY <2>5, <3>1, <4>1 DEF Seen
    <3>3. CASE k > Len(buffer)
      <4>1. k - Len(buffer) \in 1 .. Len(chunk) /\ k = Len(buffer) + (k - Len(buffer))
        BY <2>3, <2>5, <3>3
      <4>2. b[k] = air[k - Len(buffer)] /\ k - Len(buffer) \in 1 .. Len(air)
        BY <2>5, <2>7, <4>1
      <4> QED
        BY <3>1, <4>2 DEF OnWay
    <3>4. k <= Len(buffer) \/ k > Len(buffer)
      BY <2>3, <2>5
    <3> QED
      BY <3>2, <3>3, <3>4
  <2>9. ASSUME NEW line \in OnWay PROVE line <= i /\ Expected(line)'
    <3>1. line \in 1 .. Len(calls) /\ Expected(line)
      BY OnWayType
    <3>2. line <= i
      BY ONLY <2>3, <3>1
    <3>3. Expected(line)'
      BY <2>1, <3>1, ExpectedStays
    <3> QED
      BY <3>2, <3>3
  <2>10. from <= Len(buffer')
    BY <2>3, <2>4, <2>5
  <2> QED
    BY <2>3, <2>8, <2>9, <2>10
<1>10. CASE RunLine \/ Drop \/ UNCHANGED vars
  BY <1>1, <1>5, <1>10, RestParts
<1> QED
  BY <1>6, <1>7, <1>8, <1>9, <1>10, Steps

-----------------------------------------------------------------------------
(* The answers.                                                             *)

\* Of the answer to one line its text is left.
LEMMA AnswerOnly ==
  ASSUME NEW line \in Line, NEW from, SubSeq(buffer, from + 1, Len(buffer)) = AnswerTo(line)
  PROVE  Answers(from) = << line >>
<1>1. PICK raw, m : raw = AnswerTo(line) /\ m = Marked(raw)
  OBVIOUS
<1>2. /\ raw \in Seq(Token) /\ Len(raw) = 3
      /\ raw[1].line = line /\ raw[2].line = line /\ raw[3].line = line
      /\ raw[1].part = "text" /\ raw[2].part = "promptHead" /\ raw[3].part = "promptTail"
  <2>1. /\ raw \in Seq(Token) /\ Len(raw) = 3
        /\ \A k \in 1 .. 3 : raw[k].line = line
        /\ raw[1].part = "text" /\ raw[2].part = "promptHead" /\ raw[3].part = "promptTail"
    BY ONLY line \in Line, <1>1, AnswerToParts
  <2> QED
    BY <2>1
<1>3. PICK a, b : /\ a = [ line |-> line, left |-> TRUE ]
                  /\ b = [ line |-> line, left |-> FALSE ]
  OBVIOUS
<1>4. /\ ~PromptAt(raw, 0) /\ ~PromptAt(raw, 1) /\ PromptAt(raw, 2) /\ ~PromptAt(raw, 3)
  BY <1>2 DEF PromptAt
<1>5. m \in Seq(Mark) /\ Len(m) = 3 /\ m[1] = a /\ m[2] = b /\ m[3] = b
  <2>1. /\ m \in Seq(Mark) /\ Len(m) = 3
        /\ \A k \in 1 .. 3 :
             m[k] = [ line |-> raw[k].line, left |-> ~PromptAt(raw, k) /\ ~PromptAt(raw, k - 1) ]
    BY <1>1, <1>2, MarkedParts
  <2>2. (~PromptAt(raw, 1) /\ ~PromptAt(raw, 0)) = TRUE
    BY <1>4
  <2>3. (~PromptAt(raw, 2) /\ ~PromptAt(raw, 1)) = FALSE
    BY <1>4
  <2>4. (~PromptAt(raw, 3) /\ ~PromptAt(raw, 2)) = FALSE
    BY <1>4
  <2>5. 1 - 1 = 0 /\ 2 - 1 = 1 /\ 3 - 1 = 2 /\ { 1, 2, 3 } \subseteq 1 .. 3
    OBVIOUS
  <2> QED
    BY <1>2, <1>3, <2>1, <2>2, <2>3, <2>4, <2>5
<1>6. a \in Mark /\ b \in Mark
  BY <1>3 DEF Mark
<1>7. PICK T : T = [ line : 1 .. MaxCalls, left : { TRUE } ]
  OBVIOUS
<1>8. a \in T /\ b \notin T
  BY <1>3, <1>7 DEF Line
<1>9. PICK s0, s1, s2 : s0 = << >> /\ s1 = << a >> /\ s2 = << a, b >>
  OBVIOUS
<1>10. /\ s0 \in Seq(Mark) /\ s1 \in Seq(Mark) /\ s2 \in Seq(Mark)
       /\ s1 = Append(s0, a) /\ s2 = Append(s1, b) /\ m = Append(s2, b)
  BY ONLY <1>5, <1>6, <1>9
<1>11. Selected(s0, T) = s0
  BY <1>9, SelectedEmpty
<1>12. \A s \in Seq(Mark), e \in Mark :
         Selected(Append(s, e), T) = IF e \in T THEN Append(Selected(s, T), e) ELSE Selected(s, T)
  BY SelectedAppend
<1>13. Selected(s1, T) = s1
  BY ONLY <1>6, <1>8, <1>10, <1>11, <1>12
<1>14. Selected(m, T) = s1
  <2>1. Selected(s2, T) = s1
    BY ONLY <1>6, <1>8, <1>10, <1>12, <1>13
  <2> QED
    BY ONLY <1>6, <1>8, <1>10, <1>12, <2>1
<1>15. Answers(from) = [ k \in 1 .. Len(s1) |-> s1[k].line ]
  BY <1>1, <1>7, <1>14 DEF Answers
<1>16. Len(s1) = 1 /\ s1[1] = a /\ a.line = line
  BY ONLY <1>3, <1>9
<1> QED
  BY ONLY <1>15, <1>16

LEMMA AnswerTold ==
  ASSUME TypeInv, CallInv, PipeInv, TextInv, CleanInv, NEW i \in 1 .. Len(calls), InCall(i),
         task[i].at \in { "write", "awake" }, task[i].at = "write" => isSet
  PROVE  Told(i, Answers(task[i].start))
<1>1. PICK from, text : from = task[i].start /\ text = Answers(task[i].start)
  OBVIOUS
<1>2. /\ from \in Nat /\ i \in Line /\ calls[i] \in Kind /\ i = Current /\ caller = "busy"
      /\ Len(calls) \in Nat /\ MaxCalls \in Nat
  BY <1>1, TypeNow, TaskParts DEF InCall
<1>3. /\ text \in Seq(Line)
      /\ \A k \in 1 .. Len(text) : \E j \in from + 1 .. Len(buffer) : text[k] = buffer[j].line
  BY <1>1, <1>2, AnswersParts
<1>4. ASSUME NEW k \in 1 .. Len(text), text[k] # i
      PROVE  text[k] < i /\ GaveUpBy(text[k])
  <2>1. text[k] \in Seen(from)
    BY <1>3 DEF Seen
  <2>2. text[k] <= i /\ Expected(text[k])
    BY <1>1, <2>1, TextParts DEF InText
  <2>3. text[k] \in Line
    BY ONLY <1>3, k \in 1 .. Len(text)
  <2>4. text[k] < i
    BY ONLY <1>2, <1>4, <2>2, <2>3 DEF Line
  <2> QED
    BY <1>2, <1>4, <2>2, <2>4 DEF Expected, InCall
<1>5. CASE NoneGaveUp
  <2>1. Clean
    BY <1>5, CleanParts
  <2>2. calls[i] = "send"
    <3>1. task[i].at \in Awaits(calls[i])
      BY DEF CallInv
    <3> QED
      BY <1>2, <3>1 DEF Awaits, Kind
  <2>3. SubSeq(buffer, from + 1, Len(buffer)) = AnswerTo(i)
    BY <1>1, <1>2, <2>1, <2>2 DEF Clean, CleanCall
  <2>4. text = << i >>
    BY <1>1, <1>2, <2>3, AnswerOnly
  <2> QED
    BY <1>1, <1>4, <2>4 DEF Told
<1>6. CASE ~NoneGaveUp
  <2>1. \E j \in 1 .. i - 1 : GaveUp(j)
    BY <1>2, <1>6, GaveUpEarlier
  <2> QED
    BY <1>1, <1>4, <2>1 DEF Told
<1> QED
  BY <1>5, <1>6

LEMMA ToldStays ==
  ASSUME TypeInv, CallInv, [Next]_vars, NEW i \in 1 .. Len(calls), NEW text \in Seq(Line),
         Told(i, text)
  PROVE  Told(i, text)'
<1>1. Len(calls) \in Nat /\ MaxCalls \in Nat
  BY TypeNow
<1>2. ASSUME NEW j \in 1 .. i - 1, GaveUp(j) PROVE GaveUp(j)'
  <2>1. j \in 1 .. Len(calls)
    BY <1>1
  <2> QED
    BY <1>2, <2>1, GaveUpStays
<1>3. ASSUME NEW k \in 1 .. Len(text), NEW line, line = text[k], line # i
      PROVE  line < i /\ GaveUpBy(line)'
  <2>1. line < i /\ GaveUpBy(line)
    BY <1>3 DEF Told
  <2>2. line \in Line
    BY ONLY <1>3, k \in 1 .. Len(text), text \in Seq(Line)
  <2>3. line \in 1 .. Len(calls)
    BY ONLY <1>1, <2>1, <2>2, i \in 1 .. Len(calls) DEF Line
  <2>4. GaveUpBy(line)'
    BY <2>1, <2>3, GaveUpByStays
  <2> QED
    BY <2>1, <2>4
<1> QED
  BY <1>2, <1>3 DEF Told

LEMMA InitTold == Init => ToldInv
  BY DEF Init, ToldInv

LEMMA ToldParts ==
  ASSUME TypeInv, ToldInv, NEW i \in 1 .. Len(calls)
  PROVE  /\ InCall(i) /\ task[i].result.kind = "answer" =>
              Told(i, task[i].result.text) /\ task[i].result.text \in Seq(Line)
         /\ outcomes[i].kind = "answer" =>
              Told(i, outcomes[i].text) /\ outcomes[i].text \in Seq(Line)
<1>1. ASSUME NEW r \in Outcome, r.kind = "answer" PROVE r.text \in Seq(Line)
  <2>1. r \in Result
    BY <1>1, Failures DEF Outcome
  <2> QED
    BY <1>1, <2>1, ResultParts
<1>2. outcomes[i] \in Outcome /\ task[i].result \in Outcome
  BY TypeNow, TaskParts DEF Outcome
<1> QED
  BY <1>1, <1>2 DEF ToldInv

LEMMA StepTold ==
  ASSUME TypeInv, CallInv, PipeInv, TextInv, ToldInv, CleanInv, [Next]_vars
  PROVE  ToldInv'
<1>1. SUFFICES ASSUME NEW i \in 1 .. Len(calls'), NEW r,
                      \/ InCall(i)' /\ r = task'[i].result
                      \/ r = outcomes'[i],
                      r.kind = "answer"
               PROVE  Told(i, r.text)'
  BY DEF ToldInv
<1>2. ASSUME i \in 1 .. Len(calls),
             (InCall(i) /\ r = task[i].result) \/ r = outcomes[i]
      PROVE  Told(i, r.text)'
  <2>1. Told(i, r.text) /\ r.text \in Seq(Line)
    BY <1>1, <1>2, ToldParts
  <2> QED
    BY <1>2, <2>1, ToldStays
<1>3. ASSUME NEW kind \in Kind, NEW t \in Task, Begins(kind, t) PROVE Told(i, r.text)'
  <2>1. PICK n : n = Len(calls')
    OBVIOUS
  <2>2. /\ Len(calls) \in Nat /\ n = Len(calls) + 1
        /\ outcomes'[n] = Running /\ task'[n] = t
        /\ \A j \in 1 .. Len(calls) : outcomes'[j] = outcomes[j]
    BY <1>3, <2>1, Submitted DEF Begins
  <2>3. t.result.kind # "answer"
    BY <1>3, Failures DEF Begins
  <2>4. i # n
    BY <1>1, <2>2, <2>3, Failures
  <2>5. i \in 1 .. Len(calls) /\ ~InCall(i)'
    BY <2>1, <2>2, <2>4 DEF InCall, Current
  <2> QED
    BY <1>1, <1>2, <2>2, <2>5
<1>4. CASE Closes
  BY <1>1, <1>2, <1>4 DEF Closes, InCall
<1>5. ASSUME NEW e \in Outcome, Ends(e) PROVE Told(i, r.text)'
  <2>1. /\ caller = "busy" /\ Current \in 1 .. Len(calls) /\ ~InCall(i)'
        /\ outcomes' = [ outcomes EXCEPT ![Current] = e ] /\ UNCHANGED calls
        /\ e = Overrun \/ e = task[Current].result
    BY <1>5 DEF Ends, InCall
  <2>2. r = outcomes'[i] /\ i \in 1 .. Len(calls)
    BY <1>1, <2>1
  <2>3. CASE i = Current
    <3>1. r = e
      BY <2>1, <2>2, <2>3, TypeNow
    <3>2. r # Overrun
      BY <1>1, Failures
    <3> QED
      BY <1>2, <2>1, <2>2, <2>3, <3>1, <3>2 DEF InCall
  <2>4. CASE i # Current
    <3>1. r = outcomes[i]
      BY <2>1, <2>2, <2>4, TypeNow
    <3> QED
      BY <1>2, <2>2, <3>1
  <2> QED
    BY <2>3, <2>4
<1>6. ASSUME NEW j, NEW u, Moves(j, u) PROVE Told(i, r.text)'
  <2>1. /\ UNCHANGED << caller, calls, outcomes >> /\ i \in 1 .. Len(calls)
        /\ task'[j] = u /\ (i # j => task'[i] = task[i]) /\ task[j].at # "ended"
    BY <1>1, <1>6, MovedParts DEF Moves
  <2>2. InCall(i)' => InCall(i)
    BY <2>1 DEF InCall, Current
  <2>3. CASE r = outcomes'[i] \/ i # j
    BY <1>1, <1>2, <2>1, <2>2, <2>3
  <2>4. CASE i = j /\ InCall(i) /\ r = u.result
    <3>1. task[i].result.kind # "answer"
      BY <2>1, <2>4, Failures DEF CallInv
    <3>2. /\ r = Answer(i) /\ task[i].at \in { "write", "awake" }
          /\ task[i].at = "write" => isSet
      BY <1>1, <1>6, <2>4, <3>1, Failures
         DEF Moves, Fails, Scans, Leaves, Links, Subscribes, Writes, Wakes
    <3>3. Told(i, r.text)
      <4>1. Told(i, Answers(task[i].start))
        BY <2>1, <2>4, <3>2, AnswerTold
      <4> QED
        BY <3>2, <4>1 DEF Answer
    <3>4. r.text \in Seq(Line)
      <4>1. Answers(task[i].start) \in Seq(Line)
        BY <2>1, TypeNow, TaskParts, AnswersParts
      <4> QED
        BY <3>2, <4>1 DEF Answer
    <3> QED
      BY <2>1, <3>3, <3>4, ToldStays
  <2> QED
    BY <1>1, <2>1, <2>2, <2>3, <2>4
<1>7. ASSUME NEW n, NEW chunk, Delivers(n, chunk) PROVE Told(i, r.text)'
  <2>1. /\ UNCHANGED << caller, calls, outcomes >> /\ i \in 1 .. Len(calls)
        /\ task'[i] = task[i] \/ Woken(task[i], task'[i])
    BY <1>1, <1>7 DEF Delivers
  <2> QED
    BY <1>1, <1>2, <2>1 DEF Woken, InCall, Current
<1>8. CASE RunLine \/ Drop \/ UNCHANGED vars
  BY <1>1, <1>2, <1>8, RestParts DEF InCall, Current
<1> QED
  BY <1>3, <1>4, <1>5, <1>6, <1>7, <1>8, Steps

-----------------------------------------------------------------------------
(* Nothing but the line in progress.                                        *)

LEMMA CleanLater ==
  ASSUME NEW i, i = Len(calls'),
         IF caller' = "busy" /\ calls'[i] = "send" THEN CleanCall(i)' ELSE Silent'
  PROVE  Clean'
  BY DEF Clean, CleanCall, Answering, Current

LEMMA InitClean == Init => CleanInv
  BY DEF Init, CleanInv, Silent

\* A step that leaves the line in progress alone.
LEMMA Quiet ==
  ASSUME Clean, UNCHANGED << caller, calls, buffer, isSet, inbox >>,
         air' = air \/ air' = << >>,
         caller = "busy" /\ calls[Current] = "send" => task'[Current] = task[Current]
  PROVE  Clean'
<1>1. PICK i : i = Current
  OBVIOUS
<1>2. Silent => Silent'
  BY DEF Silent
<1>3. CASE ~(caller = "busy" /\ calls[i] = "send")
  BY <1>1, <1>2, <1>3, CleanLater DEF Clean, Current
<1>4. CASE caller = "busy" /\ calls[i] = "send"
  <2>1. CleanCall(i) /\ task'[i] = task[i]
    BY <1>1, <1>4 DEF Clean
  <2>2. Answering(i) => Answering(i)'
    BY <2>1 DEF Answering
  <2>3. CleanCall(i)'
    BY <1>2, <2>1, <2>2 DEF CleanCall
  <2> QED
    BY <1>1, <1>4, <2>3, CleanLater DEF Current
<1> QED
  BY <1>3, <1>4

\* Before a notification comes, or the bridge runs a line, there is a call that
\* waits, or has ended.
LEMMA CleanBusy ==
  ASSUME TypeInv, CallInv, Clean, ~Silent, NEW i, i = Current
  PROVE  /\ caller = "busy" /\ calls[i] = "send" /\ i \in 1 .. Len(calls) /\ InCall(i)
         /\ task[i].result.kind # "answer"
         /\ \/ task[i].at = "wait" /\ Answering(i)
            \/ task[i].at = "ended"
<1>1. caller = "busy" /\ calls[i] = "send" /\ CleanCall(i)
  BY DEF Clean
<1>2. i \in 1 .. Len(calls) /\ InCall(i)
  BY <1>1, TypeNow DEF InCall
<1>3. task[i].at \in Awaits("send")
  BY <1>1, <1>2 DEF CallInv
<1> QED
  BY <1>1, <1>2, <1>3 DEF CleanCall, Awaits

LEMMA MovesClean ==
  ASSUME TypeInv, CallInv, Clean, NoneGaveUp, NEW i, NEW u, Moves(i, u)
  PROVE  Clean'
<1>1. /\ task'[i] = u /\ \A j \in 1 .. Len(calls) : j # i => task'[j] = task[j]
      /\ UNCHANGED << calls, outcomes, caller >>
      /\ i \in 1 .. Len(calls) /\ u \in Task /\ task[i].at # "ended"
  BY MovedParts DEF Moves
<1>2. calls[i] \in Kind /\ task[i].at \in Awaits(calls[i]) /\ task[i].result = Running
  BY <1>1, TypeNow DEF CallInv
<1>3. CASE calls[i] # "send"
  <2>1. UNCHANGED << buffer, isSet, inbox >> /\ (air' = air \/ air' = << >>)
    BY <1>2, <1>3 DEF Moves, Fails, Scans, Leaves, Links, Subscribes, Writes, Wakes,
                      transport, bridge, Awaits, Kind
  <2>2. caller = "busy" /\ calls[Current] = "send" => task'[Current] = task[Current]
    BY <1>1, <1>3, TypeNow
  <2> QED
    BY <1>1, <2>1, <2>2, Quiet
<1>4. CASE calls[i] = "send"
  <2>1. InCall(i)
    BY <1>1, <1>4, LeftBehind DEF NoneGaveUp
  <2>2. /\ caller = "busy" /\ i = Current /\ i = Len(calls') /\ CleanCall(i)
    BY <1>1, <1>4, <2>1 DEF InCall, Current, Clean
  <2>3. SUFFICES CleanCall(i)'
    BY <1>1, <1>4, <2>2, CleanLater
  <2>4. Running.kind # "answer"
    BY Failures
  <2>5. CASE Fails(i, u)
    <3>1. u.result.kind # "answer" /\ u.at = "ended"
      BY <2>5, Failures DEF Fails
    <3> QED
      BY <1>1, <3>1 DEF CleanCall
  <2>6. CASE Scans(i, u) \/ Links(i, u)
    <3>1. /\ u.at \in { "link", "subscribe" } /\ u.result = Running
          /\ Silent /\ UNCHANGED << inbox, air >>
      BY <1>2, <2>2, <2>6 DEF Scans, Links, CleanCall, bridge
    <3> QED
      BY <1>1, <2>4, <3>1 DEF CleanCall, Silent
  <2>7. CASE Leaves(i, u)
    BY <1>2, <1>4, <2>7 DEF Leaves, Awaits
  <2>8. CASE Subscribes(i, u)
    <3>1. /\ u.at = "write" /\ u.result = Running /\ u.start = Len(buffer) /\ isSet' = FALSE
          /\ Silent /\ UNCHANGED << inbox, air, buffer >>
      BY <1>2, <1>4, <2>2, <2>8 DEF Subscribes, CleanCall, bridge
    <3> QED
      BY <1>1, <2>4, <3>1 DEF CleanCall, Silent
  <2>9. CASE Writes(i, u)
    <3>1. /\ u.at = "wait" /\ u.result = Running /\ u.start = Len(buffer)
          /\ inbox = << >> /\ air = << >>
          /\ inbox' = Append(inbox, i) /\ UNCHANGED << air, buffer >>
      BY <1>2, <2>2, <2>9 DEF Writes, CleanCall, Silent
    <3>2. SubSeq(buffer, u.start + 1, Len(buffer)) = << >>
      <4>1. buffer \in Seq(Token)
        BY TypeNow
      <4> QED
        BY ONLY <3>1, <4>1
    <3>3. inbox' = << i >>
      BY <3>1
    <3>4. Answering(i)'
      BY <1>1, <3>1, <3>2, <3>3 DEF Answering
    <3> QED
      BY <1>1, <2>4, <3>1, <3>4 DEF CleanCall
  <2>10. CASE Wakes(i, u)
    <3>1. /\ u.at = "ended" /\ u.result = Answer(i)
          /\ Silent /\ UNCHANGED << inbox, air >>
          /\ SubSeq(buffer, task[i].start + 1, Len(buffer)) = AnswerTo(i)
      BY <2>2, <2>10 DEF Wakes, CleanCall, bridge
    <3>2. Answers(task[i].start) = << i >>
      BY <1>1, <3>1, TypeNow, AnswerOnly
    <3>3. u.result.text = << i >>
      BY <3>1, <3>2 DEF Answer
    <3> QED
      BY <1>1, <3>1, <3>3 DEF CleanCall, Silent
  <2> QED
    BY <2>5, <2>6, <2>7, <2>8, <2>9, <2>10 DEF Moves
<1> QED
  BY <1>3, <1>4

\* More of the answer has come.
LEMMA DeliversMore ==
  ASSUME TypeInv, NEW i \in Line, NEW from \in 0 .. Len(buffer), NEW m \in 0 .. 3,
         SubSeq(buffer, from + 1, Len(buffer)) = SubSeq(AnswerTo(i), 1, m),
         air = SubSeq(AnswerTo(i), m + 1, 3), NEW n, NEW chunk, Delivers(n, chunk)
  PROVE  /\ m + n \in 0 .. 3
         /\ SubSeq(buffer', from + 1, Len(buffer')) = SubSeq(AnswerTo(i), 1, m + n)
         /\ air' = SubSeq(AnswerTo(i), (m + n) + 1, 3)
         /\ HasPrompt(chunk) => m + n = 3
<1>1. PICK a, rest, left, all, c :
        a = AnswerTo(i) /\ rest = air /\ left = air' /\ all = buffer' /\ c = m + n
  OBVIOUS
<1>2. /\ a \in Seq(Token) /\ Len(a) = 3 /\ a[1].part = "text" /\ a[2].part = "promptHead"
      /\ a[3].part = "promptTail"
  BY <1>1, AnswerToParts
<1>3. /\ rest \in Seq(Token) /\ rest = SubSeq(a, m + 1, Len(a)) /\ n \in 0 .. Len(rest)
      /\ n \in 1 .. Len(rest)
      /\ chunk = SubSeq(rest, 1, n) /\ chunk \in Seq(Token)
      /\ left = SubSeq(rest, n + 1, Len(rest))
      /\ all = buffer \o chunk /\ buffer \in Seq(Token)
  <2>1. n \in 1 .. Len(air) /\ air \in Seq(Token) /\ buffer \in Seq(Token)
    BY TypeNow DEF Delivers
  <2>2. n \in 0 .. Len(air)
    BY ONLY <2>1
  <2> QED
    BY <1>1, <1>2, <2>1, <2>2 DEF Delivers
<1>4. m \in 0 .. Len(a)
  BY <1>2
<1>5. /\ chunk = SubSeq(a, m + 1, c)
      /\ left = SubSeq(a, c + 1, Len(a))
      /\ c \in 0 .. Len(a)
  <2>1. /\ SubSeq(rest, 1, n) = SubSeq(a, m + 1, m + n)
        /\ SubSeq(rest, n + 1, Len(rest)) = SubSeq(a, (m + n) + 1, Len(a))
        /\ m + n \in 0 .. Len(a)
    BY ONLY <1>2, <1>3, <1>4, RestOfRest
  <2> QED
    BY <1>1, <1>3, <2>1
<1>6. SubSeq(all, from + 1, Len(all)) = SubSeq(buffer, from + 1, Len(buffer)) \o chunk
  BY ONLY <1>3, from \in 0 .. Len(buffer), RestJoin
<1>7. SubSeq(a, 1, m) \o SubSeq(a, m + 1, c) = SubSeq(a, 1, c)
  <2>1. m \in Nat /\ c \in Nat /\ m <= c /\ c <= Len(a)
    BY <1>1, <1>2, <1>3, <1>5
  <2> QED
    BY ONLY <1>2, <2>1, TakeTake
<1>8. ASSUME HasPrompt(chunk) PROVE c = 3
  <2>1. PICK k \in 1 .. Len(chunk) - 1 : chunk[k + 1].part = "promptTail"
    BY <1>8 DEF HasPrompt, PromptAt
  <2>2. m \in Nat /\ c \in Nat /\ m <= c /\ c <= 3 /\ c - m = n /\ n \in Nat
    BY <1>1, <1>2, <1>3, <1>5
  <2>3. Len(chunk) = c - m /\ \A x \in 1 .. c - m : chunk[x] = a[x + m]
    <3>1. m <= c /\ c <= Len(a)
      BY <1>2, <2>2
    <3>2. /\ Len(SubSeq(a, m + 1, c)) = c - m
          /\ \A x \in 1 .. c - m : SubSeq(a, m + 1, c)[x] = a[x + m]
      BY ONLY <1>2, <2>2, <3>1, SliceAt
    <3> QED
      BY <1>5, <3>2
  <2>4. k + 1 \in 1 .. c - m /\ chunk[k + 1] = a[(k + 1) + m]
    BY <2>2, <2>3
  <2>5. (k + 1) + m \in 1 .. 3 /\ (k + 1) + m <= c
    BY <2>2, <2>4
  <2>6. (k + 1) + m = 3
    BY <1>2, <2>1, <2>4, <2>5
  <2> QED
    BY <2>2, <2>5, <2>6
<1> QED
  BY <1>1, <1>2, <1>5, <1>6, <1>7, <1>8

LEMMA DeliversClean ==
  ASSUME TypeInv, CallInv, TextInv, Clean, NEW n, NEW chunk, Delivers(n, chunk)
  PROVE  Clean'
<1>1. PICK i : i = Current
  OBVIOUS
<1>2. /\ n \in 1 .. Len(air) /\ UNCHANGED << caller, calls, inbox >>
      /\ \A j \in 1 .. Len(calls) :
           task'[j] = task[j] \/ (HasPrompt(chunk) /\ Woken(task[j], task'[j]))
  BY DEF Delivers
<1>3. ~Silent
  BY <1>2 DEF Silent
<1>4. /\ caller = "busy" /\ calls[i] = "send" /\ i \in 1 .. Len(calls) /\ InCall(i)
      /\ task[i].result.kind # "answer"
      /\ \/ task[i].at = "wait" /\ Answering(i)
         \/ task[i].at = "ended"
  BY <1>1, <1>3, CleanBusy
<1>5. SUFFICES CleanCall(i)'
  BY <1>1, <1>2, <1>4, CleanLater DEF Current
<1>6. task'[i].result.kind # "answer"
  BY <1>2, <1>4 DEF Woken
<1>7. CASE task[i].at = "ended"
  <2>1. task'[i] = task[i]
    BY <1>2, <1>4, <1>7 DEF Woken
  <2> QED
    BY <1>6, <1>7, <2>1 DEF CleanCall
<1>8. CASE task[i].at = "wait"
  <2>1. PICK from : from = task[i].start
    OBVIOUS
  <2>2. /\ i \in Line /\ from \in 0 .. Len(buffer) /\ task'[i].start = from
    <3>1. from <= Len(buffer)
      BY <1>4, <1>8, <2>1, TextParts DEF InText
    <3>2. i \in Line /\ from \in Nat /\ buffer \in Seq(Token)
      BY <1>4, <2>1, TypeNow, TaskParts
    <3>3. from \in 0 .. Len(buffer)
      BY ONLY <3>1, <3>2
    <3> QED
      BY <1>2, <1>4, <2>1, <3>2, <3>3 DEF Woken
  <2>3. air # << >>
    BY <1>2
  <2>4. PICK m \in 0 .. 3 :
          /\ inbox = << >>
          /\ SubSeq(buffer, from + 1, Len(buffer)) = SubSeq(AnswerTo(i), 1, m)
          /\ air = SubSeq(AnswerTo(i), m + 1, 3)
    BY <1>4, <1>8, <2>1, <2>3 DEF Answering
  <2>5. /\ m + n \in 0 .. 3
        /\ SubSeq(buffer', from + 1, Len(buffer')) = SubSeq(AnswerTo(i), 1, m + n)
        /\ air' = SubSeq(AnswerTo(i), (m + n) + 1, 3)
        /\ HasPrompt(chunk) => m + n = 3
    BY <2>2, <2>4, DeliversMore
  <2>6. CASE task'[i] = task[i]
    <3>1. PICK c \in 0 .. 3 : c = m + n
      BY <2>5
    <3>2. Answering(i)'
      BY <1>2, <2>2, <2>4, <2>5, <3>1 DEF Answering
    <3> QED
      BY <1>6, <1>8, <2>6, <3>2 DEF CleanCall
  <2>7. CASE HasPrompt(chunk) /\ Woken(task[i], task'[i])
    <3>1. task'[i].at = "awake" /\ m + n = 3
      BY <2>5, <2>7 DEF Woken
    <3>2. PICK a : a = AnswerTo(i)
      OBVIOUS
    <3>3. a \in Seq(Token) /\ Len(a) = 3
      BY <2>2, <3>2, AnswerToParts
    <3>4. SubSeq(a, 1, 3) = a /\ SubSeq(a, 3 + 1, 3) = << >>
      BY ONLY <3>3
    <3>5. air' = << >> /\ SubSeq(buffer', from + 1, Len(buffer')) = a
      BY <2>5, <3>1, <3>2, <3>4
    <3> QED
      BY <1>2, <1>6, <2>2, <2>4, <3>1, <3>2, <3>5 DEF CleanCall, Silent
  <2> QED
    BY <1>2, <1>4, <2>6, <2>7
<1> QED
  BY <1>4, <1>7, <1>8

LEMMA RunLineClean ==
  ASSUME TypeInv, CallInv, Clean, RunLine
  PROVE  Clean'
<1>1. PICK i : i = Current
  OBVIOUS
<1>2. /\ inbox # << >> /\ inbox' = Tail(inbox)
      /\ air' = air \/ air' = air \o AnswerTo(inbox[1])
      /\ UNCHANGED << caller, calls, task, buffer >>
  BY RunLineParts
<1>3. ~Silent
  BY <1>2 DEF Silent
<1>4. /\ caller = "busy" /\ calls[i] = "send" /\ i \in 1 .. Len(calls)
      /\ task[i].result.kind # "answer"
      /\ \/ task[i].at = "wait" /\ Answering(i)
         \/ task[i].at = "ended"
  BY <1>1, <1>3, CleanBusy
<1>5. SUFFICES CleanCall(i)'
  BY <1>1, <1>2, <1>4, CleanLater DEF Current
<1>6. CASE task[i].at = "ended"
  BY <1>2, <1>4, <1>6 DEF CleanCall
<1>7. CASE task[i].at = "wait"
  <2>1. /\ inbox = << i >> /\ air = << >>
        /\ SubSeq(buffer, task[i].start + 1, Len(buffer)) = << >>
    BY <1>2, <1>4, <1>7 DEF Answering
  <2>2. PICK a : a = AnswerTo(i)
    OBVIOUS
  <2>3. a \in Seq(Token) /\ Len(a) = 3
    BY <1>4, <2>2, TypeNow, AnswerToParts
  <2>4. SubSeq(a, 0 + 1, 3) = a /\ SubSeq(a, 1, 0) = << >> /\ << >> \o a = a
    BY ONLY <2>3
  <2>5. inbox' = << >> /\ inbox[1] = i
    BY <1>2, <2>1
  <2>6. air' = << >> \/ air' = a
    BY <1>2, <2>1, <2>2, <2>4, <2>5
  <2>7. /\ SubSeq(buffer', task'[i].start + 1, Len(buffer')) = << >>
        /\ inbox' = << >> /\ air' \in { << >>, a }
    BY <1>2, <2>1, <2>5, <2>6
  <2>8. \E m \in 0 .. 3 : << >> = SubSeq(a, 1, m) /\ a = SubSeq(a, m + 1, 3)
    BY <2>4
  <2>9. Answering(i)'
    BY <2>2, <2>7, <2>8 DEF Answering
  <2> QED
    BY <1>2, <1>4, <1>7, <2>9 DEF CleanCall
<1> QED
  BY <1>4, <1>6, <1>7

LEMMA StepClean ==
  ASSUME TypeInv, CallInv, TextInv, CleanInv, [Next]_vars
  PROVE  CleanInv'
<1>1. SUFFICES ASSUME NoneGaveUp' PROVE Clean'
  BY DEF CleanInv, Clean, CleanCall, NoneGaveUp
<1>2. NoneGaveUp /\ Clean
  BY <1>1, NoneBefore, CleanParts
<1>3. ASSUME NEW kind \in Kind, NEW t \in Task, Begins(kind, t) PROVE Clean'
  <2>1. PICK n : n = Len(calls')
    OBVIOUS
  <2>2. /\ caller = "idle" /\ calls'[n] = kind /\ task'[n] = t
        /\ UNCHANGED << buffer, inbox, air >>
    BY <1>3, <2>1, Submitted DEF Begins, bridge
  <2>3. Silent'
    BY <1>2, <2>2 DEF Clean, Silent
  <2>4. ASSUME kind = "send" PROVE CleanCall(n)'
    <3>1. /\ t.at \in { "scan", "write", "ended" } /\ t.result.kind # "answer"
          /\ t.start = Len(buffer) /\ (t.at = "write" => isSet' = FALSE)
      BY <1>3, <2>4, Failures DEF Begins
    <3> QED
      BY <2>2, <2>3, <3>1 DEF CleanCall
  <2> QED
    BY <2>1, <2>2, <2>3, <2>4, CleanLater
<1>4. CASE Closes
  BY <1>2, <1>4 DEF Closes, Clean, Silent, bridge
<1>5. ASSUME NEW r \in Outcome, Ends(r) PROVE Clean'
  <2>1. PICK line : line = Current
    OBVIOUS
  <2>2. caller' # "busy" /\ calls' = calls /\ line \in 1 .. Len(calls)
        /\ UNCHANGED << inbox, air >>
    BY <1>5, <2>1 DEF Ends, bridge
  <2>3. ~GaveUpBy(line)'
    <3>1. Len(calls) \in Nat
      BY TypeNow
    <3>2. \A j \in 1 .. line : j \in 1 .. Len(calls)
      BY ONLY <2>2, <3>1
    <3> QED
      BY <1>1, <2>2, <3>2 DEF GaveUpBy, NoneGaveUp
  <2>4. Silent
    BY <1>5, <2>1, <2>3, EndsSilent
  <2> QED
    BY <2>2, <2>4 DEF Clean, Silent
<1>6. ASSUME NEW i, NEW u, Moves(i, u) PROVE Clean'
  BY <1>2, <1>6, MovesClean
<1>7. ASSUME NEW n, NEW chunk, Delivers(n, chunk) PROVE Clean'
  BY <1>2, <1>7, DeliversClean
<1>8. CASE RunLine
  BY <1>2, <1>8, RunLineClean
<1>9. CASE Drop \/ UNCHANGED vars
  <2>1. /\ UNCHANGED << caller, calls, task, buffer, isSet, inbox >>
        /\ air' = air \/ air' = << >>
    BY <1>9 DEF Drop, vars, transport, bridge
  <2> QED
    BY <1>2, <2>1, Quiet
<1> QED
  BY <1>3, <1>4, <1>5, <1>6, <1>7, <1>8, <1>9, Steps

-----------------------------------------------------------------------------
(* Together.                                                                *)

LEMMA InitSafe == Init => SafeInv
  BY InitType, InitCall, InitWritten, InitLink, InitPipe, InitText, InitTold, InitClean
     DEF SafeInv

LEMMA StepSafe == SafeInv /\ [Next]_vars => SafeInv'
<1> SUFFICES ASSUME SafeInv, [Next]_vars PROVE SafeInv'
  OBVIOUS
<1>1. /\ TypeInv /\ CallInv /\ WrittenInv /\ LinkInv
      /\ PipeInv /\ TextInv /\ ToldInv /\ CleanInv
  BY DEF SafeInv
<1>2. TypeInv'
  BY <1>1, StepType
<1>3. CallInv' /\ WrittenInv' /\ LinkInv'
  BY <1>1, StepCall, StepWritten, StepLink
<1>4. PipeInv' /\ TextInv' /\ ToldInv' /\ CleanInv'
  BY <1>1, StepPipe, StepText, StepTold, StepClean
<1> QED
  BY <1>2, <1>3, <1>4 DEF SafeInv

\* The inductive invariant holds, whichever calls give up, raise or are cut off.
THEOREM SafeInvariant == Safety => []SafeInv
<1>1. Init => SafeInv
  BY InitSafe
<1>2. SafeInv /\ [Next]_vars => SafeInv'
  BY StepSafe
<1> QED
  BY <1>1, <1>2, PTL DEF Safety

\* Every variable keeps to the values the code can give it.
THEOREM TypeCorrect == Safety => []TypeOK
<1>1. SafeInv => TypeOK
  BY DEF SafeInv, TypeInv
<1> QED
  BY <1>1, SafeInvariant, PTL

\* _call: a line reaches the bridge after the line of a later call only if its
\* own call had been given up by _call, and the coroutine ran on.
THEOREM LateLines == Safety => []LateLineOnlyFromOverrun
<1>1. SafeInv => LateLineOnlyFromOverrun
  BY DEF SafeInv, WrittenInv
<1> QED
  BY <1>1, SafeInvariant, PTL

\* close: the link is down when the transport is closed, unless the call that
\* made it or close itself was given up by _call, or bleak raised in it.
THEOREM Closed == Safety => []ClosedCleanly
<1>1. SafeInv => ClosedCleanly
  BY DEF SafeInv, LinkInv, Unheld, ClosedCleanly
<1> QED
  BY <1>1, SafeInvariant, PTL

\* _handle_notify: a whole prompt wakes the call in progress, because the event
\* it waits for is the one there is: no coroutine left behind makes another.
THEOREM PromptsEndWaits == Safety => WholePromptEndsWait
<1>1. ASSUME SafeInv, NEW n \in 1 .. MaxChunk, Deliver(n), HasPrompt(SubSeq(air, 1, n)),
             caller = "busy", task[Current].at = "wait"
      PROVE  task'[Current].at = "awake"
  <2>1. TypeInv /\ CallInv
    BY <1>1 DEF SafeInv
  <2>2. Current \in 1 .. Len(calls) /\ DOMAIN task = 1 .. Len(calls) /\ task[Current] \in Task
    BY <1>1, <2>1, TypeNow
  <2>3. task[Current].event = event
    BY <1>1, <2>1, <2>2 DEF CallInv, InCall
  <2>4. task'[Current] = [ task[Current] EXCEPT !.at = "awake" ]
    BY <1>1, <2>2, <2>3 DEF Deliver, HandleNotify
  <2> QED
    BY <2>2, <2>4 DEF Task
<1>2. SafeInv =>
        \A n \in 1 .. MaxChunk :
          Deliver(n) /\ HasPrompt(SubSeq(air, 1, n)) /\ caller = "busy"
            /\ task[Current].at = "wait"
          => task'[Current].at = "awake"
  BY <1>1
<1> QED
  BY <1>2, SafeInvariant, PTL DEF WholePromptEndsWait

\* send_line: while every call of it has ended with an answer, a call returns the
\* text of its own line and nothing else; after one has ended without, texts of
\* earlier lines may be among it, of lines from that one on.
THEOREM OwnAnswers == Safety => []OwnAnswerUnlessGaveUp
<1>1. SafeInv => OwnAnswerUnlessGaveUp
  BY DEF SafeInv, ToldInv, Told, GaveUpBy, OwnAnswerUnlessGaveUp
<1> QED
  BY <1>1, SafeInvariant, PTL
=============================================================================
