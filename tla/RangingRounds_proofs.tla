------------------------ MODULE RangingRounds_proofs ------------------------
(***************************************************************************)
(* Proofs about RangingRounds, for every bound on the rounds.              *)
(***************************************************************************)
EXTENDS RangingRoundsInvariant, SequenceFacts

Response ==
  [ mt : { "response" }, key : Calls, ok : BOOLEAN, handle : { "own", "old", "nobody" } ]

Wired == Notification \cup Response

-----------------------------------------------------------------------------
(* Types.                                                                   *)

LEMMA NotificationParts ==
  ASSUME NEW e \in Notification
  PROVE  /\ e.mt = "notification" /\ e.mt # "response"
         /\ e.session \in Session /\ e.number \in Nat /\ e.read \in Reading
  BY DEF Notification, Rounds

LEMMA ResponseParts ==
  ASSUME NEW e \in Response
  PROVE  /\ e.mt = "response" /\ e.mt # "notification" /\ e \notin Notification
         /\ e.key \in Calls /\ e.ok \in BOOLEAN /\ e.handle \in { "own", "old", "nobody" }
<1>1. /\ e.mt = "response" /\ e.key \in Calls /\ e.ok \in BOOLEAN
      /\ e.handle \in { "own", "old", "nobody" }
  BY DEF Response
<1> QED
  BY <1>1, NotificationParts

LEMMA WiredParts ==
  ASSUME NEW e \in Wired
  PROVE  /\ e \in Notification <=> e.mt = "notification"
         /\ e \in Response <=> e.mt = "response"
         /\ e.mt # "notification" => e.mt = "response"
  BY NotificationParts, ResponseParts DEF Wired

\* A turn reads the notifications from the front.
LEMMA ReadParts ==
  ASSUME NEW w \in Seq(Wired), NEW n \in 0 .. Len(w)
  PROVE  /\ SubSeq(w, 1, n) \in Seq(Wired)
         /\ SubSeq(w, n + 1, Len(w)) \in Seq(Wired)
         /\ Notifications(w) \in Seq(Notification)
         /\ Notifications(SubSeq(w, 1, n)) \in Seq(Notification)
         /\ Notifications(SubSeq(w, 1, n)) \o Notifications(SubSeq(w, n + 1, Len(w)))
              = Notifications(w)
<1>1. PICK a, b : a = SubSeq(w, 1, n) /\ b = SubSeq(w, n + 1, Len(w))
  OBVIOUS
<1>2. a \in Seq(Wired)
  BY <1>1
<1>3. b \in Seq(Wired) /\ a \o b = w
  BY <1>1, DropAt, TakeDrop
<1>4. ASSUME NEW s \in Seq(Wired) PROVE Notifications(s) \in Seq(Notification)
  <2>1. PICK t : t = Selected(s, Notification)
    OBVIOUS
  <2>2. t \in Seq(Wired \cap Notification)
    BY <2>1, SelectedType
  <2>3. t \in Seq(Notification)
    BY ONLY <2>2
  <2> QED
    BY <2>1, <2>3 DEF Notifications
<1>5. Notifications(a \o b) = Notifications(a) \o Notifications(b)
  BY ONLY <1>2, <1>3, SelectedJoin DEF Notifications
<1> QED
  BY <1>1, <1>2, <1>3, <1>4, <1>5

LEMMA SuccessesType ==
  ASSUME NEW s \in Seq(Notification)
  PROVE  Successes(s) \in Seq(Notification)
  BY SelectedType DEF Successes

\* The part of a list that the loop parses is a part from the front.
LEMMA ParsedPart ==
  ASSUME NEW p \in Seq(Notification)
  PROVE  \E n \in 0 .. Len(p) : Parsed(p) = SubSeq(p, 1, n)
<1> DEFINE broken == { i \in 1 .. Len(p) : p[i].read = "raises" }
           Until(n) == (\A i \in broken : n < i) /\ (n = Len(p) \/ n + 1 \in broken)
<1>1. Len(p) \in Nat
  OBVIOUS
<1>2. \E n \in 0 .. Len(p) : Until(n)
  <2>1. CASE broken = {}
    BY <1>1, <2>1
  <2>2. CASE broken # {}
    <3>1. broken \in SUBSET Nat
      OBVIOUS
    <3>2. PICK m \in broken : \A k \in broken : m <= k
      BY <2>2, <3>1, Least
    <3>3. m - 1 \in 0 .. Len(p) /\ (m - 1) + 1 = m
      BY <1>1, <3>2
    <3>4. \A k \in broken : m - 1 < k
      BY <3>1, <3>2
    <3>5. Until(m - 1)
      BY <3>2, <3>3, <3>4
    <3> QED
      BY <3>3, <3>5
  <2> QED
    BY <2>1, <2>2
<1>3. (CHOOSE n \in 0 .. Len(p) : Until(n)) \in 0 .. Len(p)
  BY <1>2
<1>4. Parsed(p) = SubSeq(p, 1, CHOOSE n \in 0 .. Len(p) : Until(n))
  BY DEF Parsed
<1> QED
  BY <1>3, <1>4

LEMMA ParsedType ==
  ASSUME NEW p \in Seq(Notification)
  PROVE  Parsed(p) \in Seq(Notification) /\ Successes(Parsed(p)) \in Seq(Notification)
<1>1. PICK n \in 0 .. Len(p) : Parsed(p) = SubSeq(p, 1, n)
  BY ParsedPart
<1>2. Parsed(p) \in Seq(Notification)
  BY <1>1
<1> QED
  BY <1>2, SuccessesType

LEMMA InitType == Init => TypeOK
<1> SUFFICES ASSUME Init PROVE TypeOK
  OBVIOUS
<1>1. PICK empty : empty = << >> /\ \A S : empty \in Seq(S)
  <2>1. \A S : << >> \in Seq(S)
    OBVIOUS
  <2> QED
    BY ONLY <2>1, Zenon
<1>2. /\ kept = empty /\ counted = empty /\ queue = empty /\ wire = empty
      /\ emitted = empty
  BY <1>1 DEF Init
<1>3. /\ pc = "reset" /\ waiting = FALSE /\ raised = FALSE /\ handle = "none"
      /\ sessions \in [ Session -> { "none", "idle", "active" } ]
      /\ observed = << 0, 0 >> /\ refused = {}
  BY DEF Init
<1>4. sessions \in [ Session -> { "none", "init", "idle", "active" } ]
  BY <1>3
<1>5. observed \in Nat \X Nat
  BY <1>3
<1> QED
  BY ONLY <1>1, <1>2, <1>3, <1>4, <1>5 DEF TypeOK, Calls

LEMMA AnswerType ==
  ASSUME NEW q \in Seq(Calls), q # << >>, NEW ok \in BOOLEAN,
         NEW of \in { "own", "old", "nobody" }
  PROVE  /\ [ mt |-> "response", key |-> Head(q), ok |-> ok, handle |-> of ] \in Response
         /\ Tail(q) \in Seq(Calls)
<1>1. Head(q) \in Calls /\ Tail(q) \in Seq(Calls)
  BY TailAt
<1> QED
  BY <1>1 DEF Response

LEMMA TypeNow ==
  ASSUME TypeOK
  PROVE  /\ wire \in Seq(Wired) /\ kept \in Seq(Notification)
         /\ counted \in Seq(Notification) /\ emitted \in Seq(Notification)
         /\ queue \in Seq(Calls)
         /\ sessions \in [ Session -> { "none", "init", "idle", "active" } ]
         /\ pc \in Calls \cup { "poll", "done" }
         /\ waiting \in BOOLEAN /\ raised \in BOOLEAN
         /\ handle \in Session \cup { "none", "nobody" }
         /\ observed \in Nat \X Nat /\ refused \subseteq Calls
  BY DEF TypeOK, Wired, Response

LEMMA ReportType ==
  ASSUME TypeOK, NEW session \in Session, NEW read \in Reading, Report(session, read)
  PROVE  /\ TypeOK'
         /\ \E round \in Notification :
              /\ round = [ mt |-> "notification", session |-> session,
                           number |-> Len(emitted) + 1, read |-> read ]
              /\ emitted' = Append(emitted, round) /\ wire' = Append(wire, round)
<1>1. PICK round : round = [ mt |-> "notification", session |-> session,
                             number |-> Len(emitted) + 1, read |-> read ]
  OBVIOUS
<1>2. wire \in Seq(Wired) /\ emitted \in Seq(Notification)
  BY TypeNow
<1>3. round \in Notification
  <2>1. Len(emitted) + 1 \in Nat
    BY <1>2
  <2> QED
    BY <1>1, <2>1 DEF Notification, Rounds
<1>4. emitted' = Append(emitted, round) /\ wire' = Append(wire, round)
  BY <1>1 DEF Report
<1>5. emitted' \in Seq(Notification) /\ wire' \in Seq(Wired)
  BY <1>2, <1>3, <1>4, AppendAt DEF Wired
<1>6. TypeOK'
  BY <1>5 DEF TypeOK, Report, program, Wired, Response
<1> QED
  BY <1>1, <1>3, <1>4, <1>6

LEMMA ObeyedType ==
  ASSUME TypeOK, queue # << >>, Obeyed
  PROVE  sessions' \in [ Session -> { "none", "init", "idle", "active" } ]
<1>1. Head(queue) \in Calls
  BY TypeNow, TailAt
<1>2. sessions \in [ Session -> { "none", "init", "idle", "active" } ]
  BY TypeNow
<1>3. CASE Head(queue) = "reset"
  BY <1>2, <1>3 DEF Obeyed
<1>4. CASE Head(queue) = "deinit"
  BY <1>2, <1>4 DEF Obeyed
<1>5. CASE Head(queue) \notin { "reset", "deinit" }
  <2>1. Effect[2] \in { "none", "init", "idle", "active" }
    BY <1>1, <1>5 DEF Effect, Calls
  <2>2. sessions' = [ sessions EXCEPT ![About] = Effect[2] ]
    BY <1>5 DEF Obeyed
  <2> QED
    BY <1>2, <2>1, <2>2
<1> QED
  BY <1>3, <1>4, <1>5

LEMMA ObeyType ==
  ASSUME TypeOK, Obey PROVE TypeOK'
<1>1. queue \in Seq(Calls) /\ queue # << >> /\ wire \in Seq(Wired)
  BY TypeNow DEF Obey
<1>2. Answer(TRUE, "own") \in Response /\ Tail(queue) \in Seq(Calls)
  BY <1>1, AnswerType DEF Answer
<1>3. wire' \in Seq(Wired) /\ queue' \in Seq(Calls)
  BY <1>1, <1>2, AppendAt DEF Obey, Wired
<1>4. sessions' \in [ Session -> { "none", "init", "idle", "active" } ]
  BY <1>1, ObeyedType DEF Obey
<1> QED
  BY <1>3, <1>4 DEF TypeOK, Obey, program, Wired, Response

LEMMA RefuseType ==
  ASSUME TypeOK, Refuse PROVE TypeOK'
<1>1. queue \in Seq(Calls) /\ queue # << >> /\ wire \in Seq(Wired)
  BY TypeNow DEF Refuse
<1>2. PICK of \in { "old", "nobody" } : wire' = Append(wire, Answer(FALSE, of))
  BY DEF Refuse
<1>3. Answer(FALSE, of) \in Response /\ Tail(queue) \in Seq(Calls)
  BY <1>1, AnswerType DEF Answer
<1>4. wire' \in Seq(Wired) /\ queue' \in Seq(Calls)
  BY <1>1, <1>2, <1>3, AppendAt DEF Refuse, Wired
<1> QED
  BY <1>4 DEF TypeOK, Refuse, program, Wired, Response

LEMMA SendType ==
  ASSUME TypeOK, Send PROVE TypeOK'
<1>1. queue' \in Seq(Calls)
  BY TypeNow, AppendAt DEF Send
<1> QED
  BY <1>1 DEF TypeOK, Send

LEMMA LoseType ==
  ASSUME TypeOK, Lose PROVE TypeOK'
<1>1. queue' \in Seq(Calls)
  BY TypeNow, TailAt DEF Lose
<1> QED
  BY <1>1 DEF TypeOK, Lose, program

LEMMA ReadType ==
  ASSUME TypeOK, NEW n \in 0 .. Len(wire), Read(n)
  PROVE  wire' \in Seq(Wired) /\ kept' \in Seq(Notification)
<1>1. wire \in Seq(Wired) /\ kept \in Seq(Notification)
  BY TypeNow
<1>2. /\ SubSeq(wire, n + 1, Len(wire)) \in Seq(Wired)
      /\ Notifications(SubSeq(wire, 1, n)) \in Seq(Notification)
  BY <1>1, ReadParts
<1> QED
  BY <1>1, <1>2, JoinAt DEF Read

LEMMA ReadSomeType ==
  ASSUME TypeOK, ReadSome
  PROVE  wire' \in Seq(Wired) /\ kept' \in Seq(Notification)
<1>1. wire \in Seq(Wired) /\ kept \in Seq(Notification)
  BY TypeNow
<1>2a. PICK n \in 0 .. Len(wire) :
        /\ wire' = SubSeq(wire, n + 1, Len(wire))
        /\ \E m \in 0 .. n : kept' = kept \o Notifications(SubSeq(wire, 1, m))
  BY DEF ReadSome
<1>2. PICK m \in 0 .. n : kept' = kept \o Notifications(SubSeq(wire, 1, m))
  BY <1>2a
<1>3. m \in 0 .. Len(wire)
  BY <1>1, <1>2
<1>4. /\ SubSeq(wire, n + 1, Len(wire)) \in Seq(Wired)
      /\ Notifications(SubSeq(wire, 1, m)) \in Seq(Notification)
  BY <1>1, <1>3, ReadParts
<1> QED
  BY <1>1, <1>2a, <1>2, <1>4, JoinAt

\* Where a call goes on.
LEMMA GoesOn ==
  ASSUME NEW ok \in BOOLEAN, GoOn(ok), pc \in Calls
  PROVE  \/ /\ ~ok /\ pc \in { "setAppConfig", "rangingStart" }
            /\ raised' = TRUE /\ pc' \in { "deinit", "done" }
         \/ /\ ok \/ pc \notin { "setAppConfig", "rangingStart" }
            /\ raised' = raised
            /\ \/ pc = "reset" /\ pc' = "sessionInit"
               \/ pc = "sessionInit" /\ pc' = "setAppConfig"
               \/ pc = "setAppConfig" /\ pc' = "rangingStart"
               \/ pc = "rangingStart" /\ pc' \in { "poll", "rangingStop" }
               \/ pc = "rangingStop" /\ pc' = "deinit"
               \/ pc = "deinit" /\ pc' = "done"
<1>1. CASE ~ok /\ pc \in { "setAppConfig", "rangingStart" }
  BY <1>1 DEF GoOn, Finally
<1>2. CASE ok \/ pc \notin { "setAppConfig", "rangingStart" }
  BY <1>2 DEF GoOn, Calls
<1> QED
  BY <1>1, <1>2

\* What a call that returns has found.
LEMMA ReturnParts ==
  ASSUME TypeOK, Return
  PROVE  \E i \in 1 .. Len(wire), n \in 1 .. Len(wire), ok \in BOOLEAN :
           /\ i <= n /\ i \in Responses /\ wire[i].key = pc
           /\ wire[i] \in Response /\ wire[i].ok = ok
           /\ Read(n)
           /\ refused' = IF ok THEN refused ELSE refused \cup { pc }
           /\ handle' = IF pc = "sessionInit" THEN wire[i].handle ELSE handle
           /\ GoOn(ok)
           /\ pc \in Calls
<1>1. wire \in Seq(Wired) /\ Len(wire) \in Nat
  BY TypeNow
<1>2. PICK i \in 1 .. Len(wire) :
        /\ wire[i].mt = "response" /\ wire[i].key = pc
        /\ \E n \in i .. Len(wire) : Read(n)
        /\ refused' = IF wire[i].ok THEN refused ELSE refused \cup { pc }
        /\ handle' = IF pc = "sessionInit" THEN wire[i].handle ELSE handle
        /\ GoOn(wire[i].ok)
  BY DEF Return
<1>3. wire[i] \in Wired
  BY <1>1
<1>4. wire[i] \in Response
  BY <1>2, <1>3, WiredParts
<1>5. wire[i].ok \in BOOLEAN /\ pc \in Calls
  BY <1>2, <1>4, ResponseParts
<1>6. PICK n \in i .. Len(wire) : Read(n)
  BY <1>2
<1>7. n \in 1 .. Len(wire) /\ i <= n
  BY <1>1
<1>8. PICK ok \in BOOLEAN : ok = wire[i].ok
  BY <1>5
<1>9. /\ refused' = IF ok THEN refused ELSE refused \cup { pc }
      /\ GoOn(ok)
  BY <1>2, <1>8
<1>10. i \in Responses
  BY <1>2 DEF Responses
<1> QED
  BY ONLY <1>2, <1>4, <1>5, <1>6, <1>7, <1>8, <1>9, <1>10, Zenon

LEMMA ReturnType ==
  ASSUME TypeOK, Return PROVE TypeOK'
<1>1. PICK i \in 1 .. Len(wire), n \in 1 .. Len(wire), ok \in BOOLEAN :
        /\ wire[i] \in Response
        /\ Read(n)
        /\ refused' = IF ok THEN refused ELSE refused \cup { pc }
        /\ handle' = IF pc = "sessionInit" THEN wire[i].handle ELSE handle
        /\ GoOn(ok)
        /\ pc \in Calls
  BY ReturnParts
<1>2. n \in 0 .. Len(wire)
  BY <1>1
<1>3. wire' \in Seq(Wired) /\ kept' \in Seq(Notification)
  BY <1>1, <1>2, ReadType
<1>4. handle' \in Session \cup { "none", "nobody" }
  BY <1>1, TypeNow, ResponseParts DEF Session
<1>5. refused' \subseteq Calls
  BY <1>1, TypeNow
<1>6. observed' \in Nat \X Nat
  <2>1. Len(kept') \in Nat
    BY <1>3
  <2> QED
    BY <2>1, TypeNow DEF Return
<1>7. pc' \in Calls \cup { "poll", "done" } /\ raised' \in BOOLEAN
  BY <1>1, TypeNow, GoesOn DEF Calls
<1>8. /\ waiting' = FALSE
      /\ UNCHANGED << counted, queue, sessions, emitted >>
  BY DEF Return, device
<1> QED
  BY ONLY TypeOK, <1>3, <1>4, <1>5, <1>6, <1>7, <1>8 DEF TypeOK, Wired, Response

LEMMA FinallyType ==
  ASSUME pc \in Calls \cup { "poll", "done" } PROVE Finally \in { "deinit", "done" }
  BY DEF Finally

LEMMA RaiseType ==
  ASSUME TypeOK, Raise PROVE TypeOK'
<1>1. wire' \in Seq(Wired) /\ kept' \in Seq(Notification)
  BY ReadSomeType DEF Raise
<1>2. pc' \in Calls \cup { "poll", "done" }
  BY TypeNow, FinallyType DEF Raise, Calls
<1> QED
  BY <1>1, <1>2 DEF TypeOK, Raise, device, Wired, Response

LEMMA PollRaisesType ==
  ASSUME TypeOK, PollRaises PROVE TypeOK'
<1>1. wire' \in Seq(Wired) /\ kept' \in Seq(Notification)
  BY ReadSomeType DEF PollRaises
<1>2. pc' \in Calls \cup { "poll", "done" }
  BY TypeNow, FinallyType DEF PollRaises, Calls
<1> QED
  BY <1>1, <1>2 DEF TypeOK, PollRaises, device, Wired, Response

\* What a turn of the loop has read and made of it.
LEMMA PollParts ==
  ASSUME TypeOK, PollRounds
  PROVE  \E n \in 0 .. Len(wire), pending \in Seq(Notification) :
           /\ Read(n)
           /\ pending = Notifications(SubSeq(wire, 1, n))
           /\ counted' = counted \o Successes(Parsed(pending))
           /\ \/ Parsed(pending) = pending /\ pc' \in { "poll", "rangingStop" }
                   /\ UNCHANGED raised
              \/ pc' = Finally /\ raised' = TRUE
<1>1. PICK n \in 0 .. Len(wire) :
        /\ Read(n)
        /\ counted' = counted \o Successes(Parsed(Pending(n)))
        /\ IF Parsed(Pending(n)) = Pending(n)
           THEN pc' \in { "poll", "rangingStop" } /\ UNCHANGED raised
           ELSE pc' = Finally /\ raised' = TRUE
  BY DEF PollRounds
<1>2. PICK pending : pending = Pending(n) /\ pending = Notifications(SubSeq(wire, 1, n))
  BY DEF Pending
<1>3. pending \in Seq(Notification)
  BY <1>2, TypeNow, ReadParts
<1> QED
  BY <1>1, <1>2, <1>3

LEMMA PollType ==
  ASSUME TypeOK, PollRounds PROVE TypeOK'
<1>1. PICK n \in 0 .. Len(wire), pending \in Seq(Notification) :
        /\ Read(n)
        /\ counted' = counted \o Successes(Parsed(pending))
        /\ \/ pc' \in { "poll", "rangingStop" } /\ UNCHANGED raised
           \/ pc' = Finally /\ raised' = TRUE
  BY PollParts
<1>2. wire' \in Seq(Wired) /\ kept' \in Seq(Notification)
  BY <1>1, ReadType
<1>3. counted' \in Seq(Notification)
  BY <1>1, TypeNow, ParsedType, JoinAt
<1>4. pc' \in Calls \cup { "poll", "done" } /\ raised' \in BOOLEAN
  BY <1>1, TypeNow, FinallyType DEF Calls
<1>5. observed' \in Nat \X Nat
  <2>1. Len(kept') \in Nat
    BY <1>2
  <2> QED
    BY <2>1, TypeNow DEF PollRounds
<1> QED
  BY <1>2, <1>3, <1>4, <1>5 DEF TypeOK, PollRounds, device, Wired, Response

LEMMA StepType == TypeOK /\ [Next]_vars => TypeOK'
<1> SUFFICES ASSUME TypeOK, [Next]_vars PROVE TypeOK'
  OBVIOUS
<1>1. ASSUME NEW session \in Session, NEW read \in Reading, Report(session, read)
      PROVE  TypeOK'
  BY <1>1, ReportType
<1>2. CASE UNCHANGED vars
  BY <1>2 DEF TypeOK, vars, program, device
<1> QED
  BY <1>1, <1>2, ObeyType, RefuseType, LoseType, SendType, ReturnType, RaiseType,
     PollType, PollRaisesType DEF Next

\* The types of all variables.
THEOREM TypeCorrect == Spec => []TypeOK
  BY InitType, StepType, PTL DEF Spec
-----------------------------------------------------------------------------
(* One call at a time.                                                      *)

ResponsesOf(w) == { i \in 1 .. Len(w) : w[i].mt = "response" }

LEMMA AppendResponses ==
  ASSUME NEW w \in Seq(Wired), NEW e \in Wired
  PROVE  /\ Append(w, e) \in Seq(Wired)
         /\ Len(w) \in Nat /\ Len(Append(w, e)) = Len(w) + 1
         /\ \A i \in 1 .. Len(w) : Append(w, e)[i] = w[i]
         /\ Append(w, e)[Len(w) + 1] = e
         /\ e \in Notification => ResponsesOf(Append(w, e)) = ResponsesOf(w)
         /\ e \in Response => ResponsesOf(Append(w, e)) = ResponsesOf(w) \cup { Len(w) + 1 }
<1>1. PICK v : v = Append(w, e)
  OBVIOUS
<1>2. /\ v \in Seq(Wired) /\ Len(w) \in Nat /\ Len(v) = Len(w) + 1
      /\ \A i \in 1 .. Len(w) : v[i] = w[i]
      /\ v[Len(w) + 1] = e
  BY <1>1, AppendAt
<1>3. 1 .. Len(v) = (1 .. Len(w)) \cup { Len(w) + 1 }
  BY <1>2
<1>4. e \in Notification => ResponsesOf(v) = ResponsesOf(w)
  BY <1>2, <1>3, NotificationParts DEF ResponsesOf
<1>5. e \in Response => ResponsesOf(v) = ResponsesOf(w) \cup { Len(w) + 1 }
  BY <1>2, <1>3, ResponseParts DEF ResponsesOf
<1> QED
  BY <1>1, <1>2, <1>4, <1>5

LEMMA DropResponses ==
  ASSUME NEW w \in Seq(Wired), NEW n \in 0 .. Len(w), NEW v, v = SubSeq(w, n + 1, Len(w))
  PROVE  /\ v \in Seq(Wired) /\ Len(v) = Len(w) - n /\ Len(w) \in Nat
         /\ \A i \in 1 .. Len(v) : i + n \in 1 .. Len(w) /\ v[i] = w[i + n]
         /\ \A i \in ResponsesOf(v) : i + n \in ResponsesOf(w)
<1>1. /\ v \in Seq(Wired) /\ Len(v) = Len(w) - n /\ Len(w) \in Nat
      /\ \A i \in 1 .. Len(w) - n : v[i] = w[i + n]
  BY DropAt
<1>2. \A i \in 1 .. Len(v) : i + n \in 1 .. Len(w) /\ v[i] = w[i + n]
  BY <1>1
<1> QED
  BY <1>1, <1>2 DEF ResponsesOf

LEMMA NowResponses ==
  Responses = ResponsesOf(wire) /\ Responses' = ResponsesOf(wire')
  BY DEF Responses, ResponsesOf

LEMMA InitRaised == Init => RaisedInv
  BY DEF Init, RaisedInv

LEMMA StepRaised == TypeOK /\ RaisedInv /\ [Next]_vars => RaisedInv'
<1> SUFFICES ASSUME TypeOK, RaisedInv, [Next]_vars, raised' PROVE pc' \in { "deinit", "done" }
  BY DEF RaisedInv
<1>1. pc \in Calls \cup { "poll", "done" } /\ raised \in BOOLEAN
  BY TypeNow
<1>2. CASE Return
  <2>1. PICK ok \in BOOLEAN : GoOn(ok) /\ pc \in Calls
    BY <1>2, ReturnParts
  <2> QED
    BY <2>1, GoesOn DEF RaisedInv
<1>3. CASE Raise
  BY <1>1, <1>3, FinallyType DEF Raise
<1>4. CASE PollRounds
  <2>1. pc = "poll"
    BY <1>4 DEF PollRounds
  <2>2. ~raised
    BY <2>1 DEF RaisedInv
  <2> QED
    BY <1>1, <1>4, <2>2, PollParts, FinallyType
<1>5. CASE PollRaises
  BY <1>1, <1>5, FinallyType DEF PollRaises
<1>6. CASE UNCHANGED << pc, raised >>
  BY <1>6 DEF RaisedInv
<1> QED
  BY <1>2, <1>3, <1>4, <1>5, <1>6
     DEF Next, Report, Obey, Refuse, Lose, Send, vars, program

\* An exception is never called off.
LEMMA StaysRaised ==
  ASSUME TypeOK, RaisedInv, [Next]_vars, raised
  PROVE  raised'
<1>1. CASE Return
  <2>1. PICK ok \in BOOLEAN : GoOn(ok) /\ pc \in Calls
    BY <1>1, ReturnParts
  <2> QED
    BY <2>1, GoesOn
<1>2. CASE PollRounds
  BY <1>2 DEF PollRounds, RaisedInv
<1> QED
  BY <1>1, <1>2 DEF Next, Report, Obey, Refuse, Lose, Send, Raise, PollRaises, vars, program

LEMMA InitCall == Init => CallInv
<1> SUFFICES ASSUME Init PROVE CallInv
  OBVIOUS
<1>1. Len(wire) = 0
  BY DEF Init
<1> QED
  BY <1>1 DEF Init, CallInv, OneCall, Responses

\* The answer to the call under way is the only response there is.
LEMMA AnswerCall ==
  ASSUME TypeOK, OneCall, queue # << >>, NEW ok \in BOOLEAN,
         NEW of \in { "own", "old", "nobody" },
         wire' = Append(wire, Answer(ok, of)), queue' = Tail(queue),
         UNCHANGED << pc, waiting >>
  PROVE  /\ OneCall'
         /\ waiting /\ pc \in Calls /\ Head(queue) = pc
         /\ Answer(ok, of) \in Response /\ Answer(ok, of).ok = ok
         /\ Responses' = { Len(wire) + 1 }
         /\ wire \in Seq(Wired) /\ Len(wire) \in Nat /\ Len(wire') = Len(wire) + 1
         /\ \A i \in 1 .. Len(wire) : wire'[i] = wire[i]
         /\ wire'[Len(wire) + 1] = Answer(ok, of)
<1>1. waiting /\ pc \in Calls /\ queue = << pc >> /\ Responses = {}
  BY DEF OneCall
<1>2. Head(queue) = pc /\ Tail(queue) = << >>
  BY <1>1
<1>3. wire \in Seq(Wired) /\ queue \in Seq(Calls)
  BY TypeNow
<1>4. /\ Answer(ok, of) \in Response /\ Answer(ok, of).ok = ok
      /\ Answer(ok, of).key = pc
  BY <1>2, <1>3, AnswerType DEF Answer
<1>5. /\ Len(wire) \in Nat /\ Len(wire') = Len(wire) + 1
      /\ \A i \in 1 .. Len(wire) : wire'[i] = wire[i]
      /\ wire'[Len(wire) + 1] = Answer(ok, of)
      /\ Responses' = { Len(wire) + 1 }
  <2>1. Answer(ok, of) \in Wired
    BY <1>4 DEF Wired
  <2> QED
    BY <1>1, <1>3, <1>4, <2>1, AppendResponses, NowResponses
<1>6. OneCall'
  BY <1>1, <1>2, <1>4, <1>5 DEF OneCall
<1> QED
  BY <1>1, <1>2, <1>3, <1>4, <1>5, <1>6

\* A call that returns leaves no response behind.
LEMMA ReturnCall ==
  ASSUME TypeOK, OneCall, Return
  PROVE  OneCall'
<1>1. PICK i \in 1 .. Len(wire), n \in 1 .. Len(wire) :
        i <= n /\ i \in Responses /\ Read(n)
  BY ReturnParts
<1>2. waiting /\ queue = << >> /\ \A j, k \in Responses : j = k
  BY <1>1 DEF Return, OneCall
<1>3. wire \in Seq(Wired) /\ n \in 0 .. Len(wire)
  BY <1>1, TypeNow
<1>4. wire' = SubSeq(wire, n + 1, Len(wire))
  BY <1>1 DEF Read
<1>5. \A j \in Responses' : j \in Nat \ {0} /\ j + n \in Responses
  BY <1>3, <1>4, DropResponses, NowResponses DEF ResponsesOf
<1>6. Responses' = {}
  <2>1. ASSUME NEW j \in Responses' PROVE FALSE
    <3>1. j + n = i /\ j \in Nat \ {0}
      BY <1>1, <1>2, <1>5
    <3> QED
      BY <1>1, <3>1
  <2> QED
    BY <2>1
<1> QED
  BY <1>2, <1>6 DEF Return, OneCall, device

LEMMA StepCall ==
  ASSUME TypeOK, RaisedInv, CallInv, [Next]_vars
  PROVE  CallInv'
<1> SUFFICES ASSUME ~raised' PROVE OneCall'
  BY DEF CallInv
<1>1. ~raised /\ OneCall
  BY StaysRaised DEF CallInv
<1>2. ASSUME NEW session \in Session, NEW read \in Reading, Report(session, read)
      PROVE  OneCall'
  <2>1. PICK round \in Notification : wire' = Append(wire, round)
    BY <1>2, ReportType
  <2>2. wire \in Seq(Wired) /\ round \in Wired
    BY TypeNow DEF Wired
  <2>3. /\ Responses' = Responses
        /\ \A i \in Responses : wire'[i] = wire[i]
    BY <2>1, <2>2, AppendResponses, NowResponses DEF ResponsesOf
  <2> QED
    BY <1>1, <1>2, <2>3 DEF OneCall, Report, program
<1>3. CASE Obey
  BY <1>1, <1>3, AnswerCall DEF Obey, program
<1>4. CASE Refuse
  BY <1>1, <1>4, AnswerCall DEF Refuse, program
<1>5. CASE Lose
  <2>1. waiting /\ pc \in Calls /\ queue = << pc >> /\ Responses = {}
    BY <1>1, <1>5 DEF OneCall, Lose
  <2>2. queue' = << >> /\ Responses' = {}
    BY <1>5, <2>1, NowResponses DEF Lose
  <2> QED
    BY <1>5, <2>1, <2>2 DEF OneCall, Lose, program
<1>6. CASE Send
  <2>1. queue = << >> /\ Responses = {}
    BY <1>1, <1>6 DEF OneCall, Send
  <2>2. queue' = << pc >> /\ Responses' = {}
    BY <1>6, <2>1, NowResponses DEF Send
  <2> QED
    BY <1>6, <2>2 DEF OneCall, Send
<1>7. CASE Return
  BY <1>1, <1>7, ReturnCall
<1>8. CASE Raise \/ PollRaises
  BY <1>8 DEF Raise, PollRaises
<1>9. CASE PollRounds
  <2>1. PICK n \in 0 .. Len(wire) : Read(n)
    BY <1>9, PollParts
  <2>2. ~waiting /\ queue = << >> /\ Responses = {}
    BY <1>1, <1>9 DEF OneCall, PollRounds, Calls
  <2>3. wire' = SubSeq(wire, n + 1, Len(wire)) /\ wire \in Seq(Wired)
    BY <2>1, TypeNow DEF Read
  <2>4. Responses' = {}
    BY <2>2, <2>3, DropResponses, NowResponses
  <2> QED
    BY <1>9, <2>2, <2>4 DEF OneCall, PollRounds, device
<1>10. CASE UNCHANGED vars
  <2>1. Responses' = Responses
    BY <1>10, NowResponses DEF vars
  <2> QED
    BY <1>1, <1>10, <2>1 DEF OneCall, vars, program, device
<1> QED
  BY <1>2, <1>3, <1>4, <1>5, <1>6, <1>7, <1>8, <1>9, <1>10 DEF Next
-----------------------------------------------------------------------------
(* The rounds kept and counted.                                             *)

LEMMA NotificationsAppend ==
  ASSUME NEW w \in Seq(Wired), NEW e \in Wired
  PROVE  /\ Notifications(w) \in Seq(Notification)
         /\ Notifications(Append(w, e)) =
              IF e \in Notification THEN Append(Notifications(w), e) ELSE Notifications(w)
<1>1. Len(w) \in 0 .. Len(w)
  OBVIOUS
<1> QED
  BY <1>1, ReadParts, SelectedAppend DEF Notifications

\* What is read is kept.
LEMMA ReadKeeps ==
  ASSUME TypeOK, NEW n \in 0 .. Len(wire), Read(n)
  PROVE  kept' \o Notifications(wire') = kept \o Notifications(wire)
<1>1. PICK k, a, b, c : /\ k = kept
                        /\ a = Notifications(SubSeq(wire, 1, n))
                        /\ b = Notifications(SubSeq(wire, n + 1, Len(wire)))
                        /\ c = Notifications(wire)
  OBVIOUS
<1>2. k \in Seq(Notification) /\ wire \in Seq(Wired)
  BY <1>1, TypeNow
<1>3. a \in Seq(Notification) /\ a \o b = c
  BY <1>1, <1>2, ReadParts
<1>4. b \in Seq(Notification)
  <2>1. PICK v : v = SubSeq(wire, n + 1, Len(wire))
    OBVIOUS
  <2>2. v \in Seq(Wired) /\ 0 \in 0 .. Len(v)
    BY <1>2, <2>1, DropAt
  <2> QED
    BY <1>1, <2>1, <2>2, ReadParts
<1>5. (k \o a) \o b = k \o (a \o b)
  <2>1. a \in Seq(Notification) /\ k \in Seq(Notification)
    BY <1>2, <1>3
  <2> QED
    BY ONLY <1>4, <2>1, JoinAssociates
<1>6. kept' = k \o a /\ Notifications(wire') = b
  BY <1>1 DEF Read
<1> QED
  BY ONLY <1>1, <1>3, <1>5, <1>6

LEMMA InitStream == Init => StreamInv
<1> SUFFICES ASSUME Init PROVE StreamInv
  OBVIOUS
<1>1. << >> \o << >> = << >> /\ Len(<< >>) = 0
  OBVIOUS
<1> QED
  BY <1>1, SelectedEmpty DEF Init, StreamInv, Notifications

LEMMA ReportStream ==
  ASSUME TypeOK, StreamInv, NEW session \in Session, NEW read \in Reading,
         Report(session, read)
  PROVE  StreamInv'
<1>1. PICK round \in Notification :
        /\ round = [ mt |-> "notification", session |-> session,
                     number |-> Len(emitted) + 1, read |-> read ]
        /\ emitted' = Append(emitted, round) /\ wire' = Append(wire, round)
  BY ReportType
<1>2. emitted \in Seq(Notification) /\ wire \in Seq(Wired) /\ kept \in Seq(Notification)
  BY TypeNow
<1>3. /\ Len(emitted) \in Nat /\ Len(emitted') = Len(emitted) + 1
      /\ \A i \in 1 .. Len(emitted) : emitted'[i] = emitted[i]
      /\ emitted'[Len(emitted) + 1] = round
  BY <1>1, <1>2, AppendAt
<1>4. round.number = Len(emitted) + 1
  BY <1>1
<1>5. ASSUME NEW i \in 1 .. Len(emitted') PROVE emitted'[i].number = i
  <2>1. CASE i = Len(emitted) + 1
    BY <1>3, <1>4, <2>1
  <2>2. CASE i # Len(emitted) + 1
    <3>1. i \in 1 .. Len(emitted)
      BY <1>3, <2>2
    <3> QED
      BY <1>3, <3>1 DEF StreamInv
  <2> QED
    BY <2>1, <2>2
<1>6. ASSUME ~raised PROVE kept \o Notifications(wire') = emitted'
  <2>1. PICK k, w : k = kept /\ w = Notifications(wire)
    OBVIOUS
  <2>2. /\ Notifications(wire') = Append(w, round)
        /\ k \in Seq(Notification) /\ w \in Seq(Notification)
    BY <1>1, <1>2, <2>1, NotificationsAppend DEF Wired
  <2>3. k \o Append(w, round) = Append(k \o w, round)
    BY ONLY <2>2, round \in Notification, JoinAppend
  <2> QED
    BY <1>1, <1>6, <2>1, <2>2, <2>3 DEF StreamInv
<1> QED
  BY <1>5, <1>6 DEF StreamInv, Report, program

LEMMA AnswerStream ==
  ASSUME TypeOK, queue # << >>, NEW ok \in BOOLEAN, NEW of \in { "own", "old", "nobody" },
         wire' = Append(wire, Answer(ok, of))
  PROVE  Notifications(wire') = Notifications(wire)
<1>1. Answer(ok, of) \in Response
  BY TypeNow, AnswerType DEF Answer
<1> QED
  BY <1>1, TypeNow, NotificationsAppend, ResponseParts DEF Wired

LEMMA StepStream ==
  ASSUME TypeOK, RaisedInv, StreamInv, [Next]_vars
  PROVE  StreamInv'
<1>1. ASSUME NEW session \in Session, NEW read \in Reading, Report(session, read)
      PROVE  StreamInv'
  BY <1>1, ReportStream
<1>2. ASSUME emitted' = emitted,
             ~raised' => kept' \o Notifications(wire') = kept \o Notifications(wire)
      PROVE  StreamInv'
  BY <1>2, StaysRaised DEF StreamInv
<1>3. CASE Obey
  BY <1>2, <1>3, AnswerStream DEF Obey, program
<1>4. CASE Refuse
  <2>1. PICK of \in { "old", "nobody" } : wire' = Append(wire, Answer(FALSE, of))
    BY <1>4 DEF Refuse
  <2> QED
    BY <1>2, <1>4, <2>1, AnswerStream DEF Refuse, program
<1>5. CASE Lose \/ Send
  BY <1>2, <1>5 DEF Lose, Send, program
<1>6. CASE Return
  <2>1. PICK n \in 1 .. Len(wire) : Read(n)
    BY <1>6, ReturnParts
  <2>2. n \in 0 .. Len(wire)
    OBVIOUS
  <2> QED
    BY <1>2, <1>6, <2>1, <2>2, ReadKeeps DEF Return, device
<1>7. CASE Raise \/ PollRaises
  BY <1>2, <1>7 DEF Raise, PollRaises, device
<1>8. CASE PollRounds
  BY <1>2, <1>8, PollParts, ReadKeeps DEF PollRounds, device
<1>9. CASE UNCHANGED vars
  BY <1>2, <1>9 DEF vars, program, device
<1> QED
  BY <1>1, <1>3, <1>4, <1>5, <1>6, <1>7, <1>8, <1>9 DEF Next

\* What was counted are the successes of a part of the rounds.
PartCounted(c, rounds) ==
  \E a, b \in 0 .. Len(rounds) : a <= b /\ c = Successes(SubSeq(rounds, a + 1, b))

LEMMA PartCountedOn ==
  ASSUME NEW rounds \in Seq(Notification), NEW round \in Notification, NEW c,
         PartCounted(c, rounds)
  PROVE  PartCounted(c, Append(rounds, round))
<1>1. PICK a \in 0 .. Len(rounds), b \in 0 .. Len(rounds) :
        a <= b /\ c = Successes(SubSeq(rounds, a + 1, b))
  BY DEF PartCounted
<1>2. PICK all : all = Append(rounds, round)
  OBVIOUS
<1>3. << round >> \in Seq(Notification) /\ all = rounds \o << round >>
  BY <1>2
<1>4. /\ Len(all) = Len(rounds) + 1 /\ Len(rounds) \in Nat
  BY <1>2, AppendAt
<1>5. a \in Nat /\ b \in Nat /\ b <= Len(rounds)
  BY <1>4
<1>6. SubSeq(all, a + 1, b) = SubSeq(rounds, a + 1, b)
  BY ONLY <1>1, <1>3, <1>5, rounds \in Seq(Notification), SliceWithin
<1>7. a \in 0 .. Len(all) /\ b \in 0 .. Len(all)
  BY <1>4
<1> QED
  BY <1>1, <1>2, <1>6, <1>7 DEF PartCounted

\* A turn of the loop counts the successes of the next part.
LEMMA NextPart ==
  ASSUME NEW k \in Seq(Notification), NEW p \in Seq(Notification), NEW r \in Seq(Notification),
         NEW all, InThree(all, k, p, r), NEW a \in 0 .. Len(k),
         NEW c, c = Successes(SubSeq(k, a + 1, Len(k))) \o Successes(Parsed(p))
  PROVE  /\ PartCounted(c, all)
         /\ Parsed(p) = p => c = Successes(SubSeq(k \o p, a + 1, Len(k \o p)))
<1>1. PICK m \in 0 .. Len(p) : Parsed(p) = SubSeq(p, 1, m)
  BY ParsedPart
<1>2. PICK x, y : x = SubSeq(k, a + 1, Len(k)) /\ y = Parsed(p)
  OBVIOUS
<1>3. x \in Seq(Notification) /\ y \in Seq(Notification)
  BY <1>2, DropAt, ParsedType
<1>4. c = Successes(x \o y)
  BY ONLY <1>2, <1>3, SelectedJoin, c = Successes(SubSeq(k, a + 1, Len(k))) \o Successes(Parsed(p))
     DEF Successes
<1>5. /\ SubSeq(all, a + 1, Len(k) + m) = x \o y
      /\ Len(k) + m \in 0 .. Len(all) /\ a \in 0 .. Len(all) /\ a <= Len(k) + m
  <2>1. /\ SubSeq(all, a + 1, Len(k) + m) = SubSeq(k, a + 1, Len(k)) \o SubSeq(p, 1, m)
        /\ Len(k) + m \in 0 .. Len(all) /\ a \in 0 .. Len(all) /\ a <= Len(k) + m
    BY ONLY InThree(all, k, p, r), k \in Seq(Notification), p \in Seq(Notification),
       r \in Seq(Notification), a \in 0 .. Len(k), m \in 0 .. Len(p), SliceAcross
  <2> QED
    BY ONLY <1>1, <1>2, <2>1
<1>6. PartCounted(c, all)
  BY <1>4, <1>5 DEF PartCounted
<1>7. ASSUME Parsed(p) = p PROVE c = Successes(SubSeq(k \o p, a + 1, Len(k \o p)))
  <2>1. PICK u : u = k \o p
    OBVIOUS
  <2>2. u \in Seq(Notification) /\ Len(u) = Len(k) + Len(p) /\ Len(p) \in Nat
    BY <2>1, JoinAt
  <2>3. PICK none : none = << >> /\ none \in Seq(Notification) /\ InThree(u, k, p, none)
    <3>1. u \o << >> = u
      BY ONLY <2>2, JoinEmpty
    <3>2. << >> \in Seq(Notification)
      OBVIOUS
    <3> QED
      BY <2>1, <3>1, <3>2 DEF InThree
  <2>4. Len(p) \in 0 .. Len(p) /\ SubSeq(p, 1, Len(p)) = p
    BY <2>2
  <2>5. SubSeq(u, a + 1, Len(k) + Len(p)) = SubSeq(k, a + 1, Len(k)) \o SubSeq(p, 1, Len(p))
    <3>1. PICK m1 \in 0 .. Len(p) : m1 = Len(p)
      BY <2>4
    <3>2. PICK N : N = Notification
      OBVIOUS
    <3>3. /\ k \in Seq(N) /\ p \in Seq(N) /\ none \in Seq(N) /\ InThree(u, k, p, none)
          /\ a \in 0 .. Len(k) /\ m1 \in 0 .. Len(p)
      BY <2>3, <3>1, <3>2
    <3>4. /\ SubSeq(u, a + 1, Len(k) + m1) = SubSeq(k, a + 1, Len(k)) \o SubSeq(p, 1, m1)
          /\ Len(k) + m1 \in 0 .. Len(u) /\ a \in 0 .. Len(u) /\ a <= Len(k) + m1
      BY ONLY <3>3, SliceAcross
    <3> QED
      BY ONLY <3>1, <3>4
  <2>6. SubSeq(u, a + 1, Len(u)) = x \o y
    BY ONLY <1>2, <1>7, <2>2, <2>4, <2>5
  <2> QED
    BY <1>4, <2>1, <2>6
<1> QED
  BY <1>6, <1>7

LEMMA EmptySlice ==
  ASSUME NEW s \in Seq(Notification)
  PROVE  Successes(SubSeq(s, Len(s) + 1, Len(s))) = << >>
<1>1. SubSeq(s, Len(s) + 1, Len(s)) = << >>
  <2>1. Len(s) \in 0 .. Len(s) /\ Len(s) - Len(s) = 0
    OBVIOUS
  <2>2. /\ SubSeq(s, Len(s) + 1, Len(s)) \in Seq(Notification)
        /\ Len(SubSeq(s, Len(s) + 1, Len(s))) = 0
    BY <2>1, DropAt
  <2> QED
    BY <2>2, NoItems
<1> QED
  BY <1>1, SelectedEmpty DEF Successes

LEMMA InitCount == Init => CountInv
<1> SUFFICES ASSUME Init PROVE CountInv
  OBVIOUS
<1>1. << >> \in Seq(Notification) /\ Len(<< >>) = 0
  OBVIOUS
<1>2. Successes(SubSeq(<< >>, 0 + 1, 0)) = << >>
  BY <1>1, EmptySlice
<1>3. emitted = << >> /\ kept = << >> /\ counted = << >> /\ observed = << 0, 0 >>
      /\ pc = "reset"
  BY DEF Init
<1>4. observed[1] = 0 /\ observed[2] = 0 /\ Len(emitted) = 0 /\ Len(kept) = 0
  BY <1>1, <1>3
<1>5. 0 \in 0 .. Len(emitted) /\ 0 <= 0
  BY <1>4
<1>6. \E a, b \in 0 .. Len(emitted) :
        a <= b /\ counted = Successes(SubSeq(emitted, a + 1, b))
  BY <1>2, <1>3, <1>5
<1>7. /\ observed[1] <= observed[2] /\ observed[2] <= Len(kept)
      /\ counted = Successes(SubSeq(kept, observed[1] + 1, observed[2]))
  BY <1>2, <1>3, <1>4
<1> QED
  BY <1>3, <1>4, <1>6, <1>7 DEF CountInv

\* CountInv without its first part.
Counting ==
  /\ observed[1] <= observed[2] /\ observed[2] <= Len(kept)
  /\ counted = Successes(SubSeq(kept, observed[1] + 1, observed[2]))
  /\ pc = "poll" => observed[2] = Len(kept)
  /\ pc \in { "reset", "sessionInit", "setAppConfig", "rangingStart" } => counted = << >>

LEMMA CountParts == CountInv <=> PartCounted(counted, emitted) /\ (~raised => Counting)
  BY DEF CountInv, PartCounted, Counting

LEMMA ReturnCount ==
  ASSUME TypeOK, Return, Counting, ~raised
  PROVE  ~raised' => Counting'
<1> SUFFICES ASSUME ~raised' PROVE Counting'
  OBVIOUS
<1>1. PICK n \in 1 .. Len(wire), ok \in BOOLEAN : Read(n) /\ GoOn(ok) /\ pc \in Calls
  BY ReturnParts
<1>2. n \in 0 .. Len(wire) /\ counted' = counted
  BY DEF Return
<1>3. /\ kept \in Seq(Notification) /\ kept' \in Seq(Notification)
      /\ observed \in Nat \X Nat
  BY <1>1, <1>2, TypeNow, ReadType
<1>4. CASE pc = "rangingStart"
  <2>1. observed' = << Len(kept'), Len(kept') >> /\ Len(kept') \in Nat /\ counted = << >>
    BY <1>3, <1>4 DEF Return, Counting
  <2>2. observed'[1] = Len(kept') /\ observed'[2] = Len(kept')
    BY <2>1
  <2>3. Successes(SubSeq(kept', observed'[1] + 1, observed'[2])) = << >>
    BY <1>3, <2>2, EmptySlice
  <2> QED
    BY <1>2, <2>1, <2>2, <2>3 DEF Counting
<1>5. CASE pc # "rangingStart"
  <2>1. observed' = observed
    BY <1>5 DEF Return
  <2>2. PICK a \in Nat, b \in Nat : a = observed[1] /\ b = observed[2]
    BY <1>3
  <2>3. a <= b /\ b <= Len(kept)
    BY <2>2 DEF Counting
  <2>4. PICK x : x = Notifications(SubSeq(wire, 1, n))
    OBVIOUS
  <2>5. x \in Seq(Notification) /\ kept' = kept \o x
    BY <1>1, <1>2, <2>4, TypeNow, ReadParts DEF Read
  <2>6. SubSeq(kept', a + 1, b) = SubSeq(kept, a + 1, b)
    BY ONLY <1>3, <2>3, <2>5, a \in Nat, b \in Nat, SliceWithin
  <2>7. b <= Len(kept')
    <3>1. Len(kept') = Len(kept) + Len(x) /\ Len(x) \in Nat /\ Len(kept) \in Nat
      BY <1>3, <2>5, JoinAt
    <3> QED
      BY <2>3, <3>1
  <2>8. /\ pc' # "poll"
        /\ pc' \in { "reset", "sessionInit", "setAppConfig", "rangingStart" } =>
             pc \in { "reset", "sessionInit", "setAppConfig", "rangingStart" }
    BY <1>1, <1>5, GoesOn
  <2> QED
    BY <1>2, <2>1, <2>2, <2>3, <2>6, <2>7, <2>8 DEF Counting
<1> QED
  BY <1>4, <1>5

LEMMA PollCount ==
  ASSUME TypeOK, RaisedInv, StreamInv, PollRounds, Counting, ~raised
  PROVE  PartCounted(counted', emitted') /\ (~raised' => Counting')
<1>1. PICK n \in 0 .. Len(wire), pending \in Seq(Notification) :
        /\ Read(n)
        /\ pending = Notifications(SubSeq(wire, 1, n))
        /\ counted' = counted \o Successes(Parsed(pending))
        /\ \/ Parsed(pending) = pending /\ pc' \in { "poll", "rangingStop" }
                /\ UNCHANGED raised
           \/ pc' = Finally /\ raised' = TRUE
  BY PollParts
<1>2. PICK k, r, a : /\ k = kept /\ r = Notifications(wire') /\ a = observed[1]
  OBVIOUS
<1>3. /\ k \in Seq(Notification) /\ kept' = k \o pending
      /\ a \in Nat /\ observed[2] = Len(k) /\ a <= observed[2]
      /\ counted = Successes(SubSeq(k, a + 1, Len(k)))
      /\ Len(k) \in Nat
  BY <1>1, <1>2, TypeNow DEF Read, PollRounds, Counting
<1>4. r \in Seq(Notification)
  <2>1. wire' \in Seq(Wired)
    BY <1>1, ReadType
  <2>2. 0 \in 0 .. Len(wire')
    BY <2>1
  <2> QED
    BY <1>2, <2>1, <2>2, ReadParts
<1>5. emitted = (k \o pending) \o r
  BY <1>1, <1>2, <1>3, ReadKeeps DEF StreamInv
<1>6. a \in 0 .. Len(k)
  BY <1>3
<1>7. /\ PartCounted(counted', emitted)
      /\ Parsed(pending) = pending =>
           counted' = Successes(SubSeq(k \o pending, a + 1, Len(k \o pending)))
  <2>1. PICK c, all : c = counted' /\ all = emitted
    OBVIOUS
  <2>2. c = Successes(SubSeq(k, a + 1, Len(k))) \o Successes(Parsed(pending))
    BY <1>1, <1>3, <2>1
  <2>3. InThree(all, k, pending, r)
    BY <1>5, <2>1 DEF InThree
  <2>4. k \in Seq(Notification)
    BY <1>3
  <2>5. /\ PartCounted(c, all)
        /\ Parsed(pending) = pending =>
             c = Successes(SubSeq(k \o pending, a + 1, Len(k \o pending)))
    BY ONLY <1>4, <1>6, <2>2, <2>3, <2>4, pending \in Seq(Notification), NextPart
  <2> QED
    BY <2>1, <2>5
<1>8. /\ emitted' = emitted
      /\ observed' = << a, Len(kept') >>
  BY <1>2 DEF PollRounds, device
<1>9. ASSUME ~raised' PROVE Counting'
  <2>1. counted' = Successes(SubSeq(kept', a + 1, Len(kept')))
    BY <1>1, <1>3, <1>7, <1>9
  <2>2. observed'[1] = a /\ observed'[2] = Len(kept')
    BY <1>8
  <2>3. a <= Len(kept') /\ Len(kept') <= Len(kept')
    <3>1. Len(kept') = Len(k) + Len(pending) /\ Len(pending) \in Nat
      BY <1>3, JoinAt
    <3> QED
      BY <1>3, <3>1
  <2>4. pc' \in { "poll", "rangingStop" }
    BY <1>1, <1>9
  <2> QED
    BY <2>1, <2>2, <2>3, <2>4 DEF Counting
<1> QED
  BY <1>7, <1>8, <1>9

LEMMA StepCount ==
  ASSUME TypeOK, RaisedInv, StreamInv, CountInv, [Next]_vars
  PROVE  CountInv'
<1>1. PartCounted(counted, emitted) /\ (~raised => Counting)
  BY CountParts
<1> DEFINE Goal == PartCounted(counted', emitted') /\ (~raised' => Counting')
<1>2. Goal => CountInv'
  BY DEF CountInv, PartCounted, Counting
<1> HIDE DEF Goal
<1>3. ~raised' => ~raised
  BY StaysRaised
<1>4. ASSUME UNCHANGED << counted, emitted >>, ~raised' => Counting' PROVE Goal
  BY <1>1, <1>4 DEF Goal
<1>5. ASSUME UNCHANGED << counted, observed, kept, pc >> PROVE ~raised' => Counting'
  BY <1>1, <1>3, <1>5 DEF Counting
<1>6. ASSUME NEW session \in Session, NEW read \in Reading, Report(session, read)
      PROVE  Goal
  <2>1. PICK round \in Notification : emitted' = Append(emitted, round)
    BY <1>6, ReportType
  <2>2. counted' = counted
    BY <1>6 DEF Report, program
  <2>3. PartCounted(counted', emitted')
    BY <1>1, <2>1, <2>2, TypeNow, PartCountedOn
  <2> QED
    BY <1>5, <1>6, <2>3 DEF Report, program, Goal
<1>7. ASSUME Obey \/ Refuse \/ Lose \/ Send PROVE Goal
  BY <1>4, <1>5, <1>7 DEF Obey, Refuse, Lose, Send, program
<1>8. ASSUME Return PROVE Goal
  <2>1. ~raised' => Counting'
    BY <1>1, <1>3, <1>8, ReturnCount
  <2> QED
    BY <1>4, <1>8, <2>1 DEF Return, device
<1>9. ASSUME Raise \/ PollRaises PROVE Goal
  BY <1>4, <1>9 DEF Raise, PollRaises, device
<1>10. ASSUME PollRounds PROVE Goal
  <2>1. ~raised
    BY <1>10 DEF PollRounds, RaisedInv
  <2> QED
    BY <1>1, <1>10, <2>1, PollCount DEF Goal
<1>11. ASSUME UNCHANGED vars PROVE Goal
  BY <1>4, <1>5, <1>11 DEF vars, program, device
<1> QED
  BY <1>2, <1>6, <1>7, <1>8, <1>9, <1>10, <1>11 DEF Next

-----------------------------------------------------------------------------
(* Whose rounds are still to be read.                                       *)

NoneBehind(w, session, i) ==
  \A j \in i + 1 .. Len(w) : w[j].mt = "notification" => w[j].session # session

LEMMA NoneNow ==
  ASSUME NEW session, NEW i
  PROVE  /\ NoneAfter(session, i) <=> NoneBehind(wire, session, i)
         /\ NoneAfter(session, i)' <=> NoneBehind(wire', session, i)
  BY DEF NoneAfter, NoneBehind

LEMMA NoneAppend ==
  ASSUME NEW w \in Seq(Wired), NEW e \in Wired, NEW session, NEW i \in 0 .. Len(w),
         NoneBehind(w, session, i), e.mt = "notification" => e.session # session
  PROVE  NoneBehind(Append(w, e), session, i)
<1>1. PICK v : v = Append(w, e)
  OBVIOUS
<1>2. /\ Len(w) \in Nat /\ Len(v) = Len(w) + 1
      /\ \A j \in 1 .. Len(w) : v[j] = w[j]
      /\ v[Len(w) + 1] = e
  BY <1>1, AppendAt
<1>3. ASSUME NEW j \in i + 1 .. Len(v), v[j].mt = "notification"
      PROVE  v[j].session # session
  <2>1. CASE j = Len(w) + 1
    BY <1>2, <1>3, <2>1
  <2>2. CASE j # Len(w) + 1
    <3>1. j \in i + 1 .. Len(w) /\ j \in 1 .. Len(w)
      BY <1>2, <2>2
    <3> QED
      BY <1>2, <1>3, <3>1 DEF NoneBehind
  <2> QED
    BY <2>1, <2>2
<1> QED
  BY <1>1, <1>3 DEF NoneBehind

LEMMA NoneAtEnd ==
  ASSUME NEW w \in Seq(Wired), NEW session
  PROVE  NoneBehind(w, session, Len(w))
<1>1. Len(w) \in Nat
  OBVIOUS
<1>2. Len(w) + 1 .. Len(w) = {}
  BY <1>1
<1> QED
  BY <1>2 DEF NoneBehind

LEMMA NoneDrop ==
  ASSUME NEW w \in Seq(Wired), NEW n \in 0 .. Len(w), NEW v, v = SubSeq(w, n + 1, Len(w)),
         NEW session, NEW i \in 0 .. n, NoneBehind(w, session, i)
  PROVE  NoneBehind(v, session, 0)
<1>1. /\ Len(v) = Len(w) - n /\ Len(w) \in Nat
      /\ \A j \in 1 .. Len(v) : j + n \in 1 .. Len(w) /\ v[j] = w[j + n]
  BY DropResponses
<1>2. ASSUME NEW j \in 0 + 1 .. Len(v), v[j].mt = "notification"
      PROVE  v[j].session # session
  <2>1. j \in 1 .. Len(v) /\ j + n \in i + 1 .. Len(w)
    BY <1>1
  <2> QED
    BY <1>1, <1>2, <2>1 DEF NoneBehind
<1> QED
  BY <1>2 DEF NoneBehind

\* The parts of SessionInv, without its hypotheses.
Sessions ==
  /\ pc = "reset" => \A i \in Responses : wire[i].ok => Gone(i)
  /\ pc # "reset" => Gone(0)
  /\ pc = "setAppConfig" => \A i \in Responses : wire[i].ok => handle = "own"
  /\ pc \in { "rangingStart", "poll", "rangingStop", "deinit", "done" } => handle = "own"
  /\ pc \in { "rangingStop", "deinit" } => \A i \in Responses : wire[i].ok => Over(i)
  /\ pc \in { "deinit", "done" } => "rangingStop" \in refused \/ Over(0)
  /\ pc = "done" => "deinit" \in refused \/ Over(0)

LEMMA SessionParts == SessionInv <=> (~raised /\ "reset" \notin refused => Sessions)
  BY DEF SessionInv, Sessions

LEMMA InitSession == Init => SessionInv
<1> SUFFICES ASSUME Init PROVE Sessions
  BY SessionParts
<1>1. Len(wire) = 0
  BY DEF Init
<1>2. Responses = {}
  BY <1>1 DEF Responses
<1> QED
  BY <1>2 DEF Init, Sessions

\* What is sent by others leaves a session over or gone.
LEMMA AppendQuiet ==
  ASSUME TypeOK, NEW e \in Wired, wire' = Append(wire, e), NEW i \in 0 .. Len(wire)
  PROVE  /\ /\ Over(i) /\ sessions'["own"] # "active"
            /\ e.mt = "notification" => e.session # "own"
            => Over(i)'
         /\ /\ Gone(i) /\ sessions'["old"] = "none"
            /\ e.mt = "notification" => e.session # "old"
            => Gone(i)'
<1>1. wire \in Seq(Wired)
  BY TypeNow
<1>2. ASSUME NEW session, NoneBehind(wire, session, i), e.mt = "notification" => e.session # session
      PROVE  NoneBehind(wire', session, i)
  BY <1>1, <1>2, NoneAppend
<1> QED
  BY <1>2, NoneNow DEF Over, Gone

\* So does what is read.
LEMMA ReadQuiet ==
  ASSUME TypeOK, NEW n \in 0 .. Len(wire), Read(n), NEW i \in 0 .. n, UNCHANGED sessions
  PROVE  /\ Over(i) => Over(0)'
         /\ Gone(i) => Gone(0)'
<1>1. wire \in Seq(Wired) /\ wire' = SubSeq(wire, n + 1, Len(wire))
  BY TypeNow DEF Read
<1>2. ASSUME NEW session, NoneBehind(wire, session, i)
      PROVE  NoneBehind(wire', session, 0)
  BY <1>1, <1>2, NoneDrop
<1> QED
  BY <1>2, NoneNow DEF Over, Gone

LEMMA ReportSessions ==
  ASSUME TypeOK, Sessions, NEW session \in Session, NEW read \in Reading,
         Report(session, read)
  PROVE  Sessions'
<1>1. PICK round \in Notification :
        /\ round = [ mt |-> "notification", session |-> session,
                     number |-> Len(emitted) + 1, read |-> read ]
        /\ wire' = Append(wire, round)
  BY ReportType
<1>2. /\ round.session = session /\ sessions[session] = "active"
      /\ UNCHANGED << pc, handle, refused, sessions >>
  BY <1>1 DEF Report, program
<1>3. wire \in Seq(Wired) /\ round \in Wired
  BY TypeNow DEF Wired
<1>4. /\ Responses' = Responses
      /\ \A i \in Responses : wire'[i] = wire[i] /\ i \in 0 .. Len(wire)
      /\ 0 \in 0 .. Len(wire)
  BY <1>1, <1>3, AppendResponses, NowResponses DEF ResponsesOf
<1>5. ASSUME NEW i \in 0 .. Len(wire)
      PROVE  (Over(i) => Over(i)') /\ (Gone(i) => Gone(i)')
  <2>1. Over(i) => session # "own"
    BY <1>2 DEF Over
  <2>2. Gone(i) => session # "old"
    BY <1>2 DEF Gone
  <2>3. /\ Over(i) => sessions'["own"] # "active"
        /\ Gone(i) => sessions'["old"] = "none"
    BY <1>2 DEF Over, Gone
  <2> QED
    BY <1>1, <1>2, <1>3, <2>1, <2>2, <2>3, AppendQuiet
<1> QED
  BY <1>2, <1>4, <1>5 DEF Sessions

\* What obeying does to the sessions.
LEMMA ObeySessions ==
  ASSUME TypeOK, Sessions, OneCall, Obey
  PROVE  Sessions'
<1>1. /\ queue # << >> /\ wire' = Append(wire, Answer(TRUE, "own")) /\ queue' = Tail(queue)
      /\ UNCHANGED << pc, waiting, handle, refused >> /\ Obeyed
  BY DEF Obey, program
<1>2. PICK e : e = Answer(TRUE, "own")
  OBVIOUS
<1>3. /\ pc \in Calls /\ Head(queue) = pc
      /\ e \in Response /\ wire' = Append(wire, e)
      /\ Responses' = { Len(wire) + 1 }
      /\ wire \in Seq(Wired) /\ Len(wire) \in Nat /\ Len(wire') = Len(wire) + 1
  BY <1>1, <1>2, AnswerCall
<1>4. e \in Wired /\ e.mt # "notification" /\ 0 \in 0 .. Len(wire)
  BY <1>3, ResponseParts DEF Wired
<1>5. sessions \in [ Session -> { "none", "init", "idle", "active" } ]
  BY TypeNow
<1>6. PICK last : last = Len(wire')
  OBVIOUS
<1>7. /\ NoneBehind(wire', "own", last) /\ NoneBehind(wire', "old", last)
      /\ Responses' = { last }
  <2>1. wire' \in Seq(Wired)
    BY <1>3, <1>4, AppendAt
  <2> QED
    BY <1>3, <1>6, <2>1, NoneAtEnd
<1>8. CASE pc = "reset"
  <2>1. sessions'["old"] = "none"
    BY <1>1, <1>3, <1>8 DEF Obeyed, Session
  <2>2. Gone(last)'
    BY <1>7, <2>1, NoneNow DEF Gone
  <2> QED
    BY <1>1, <1>8, <1>7, <2>2 DEF Sessions
<1>9. CASE pc # "reset"
  <2>1. Gone(0) /\ sessions["old"] = "none"
    BY <1>9 DEF Sessions, Gone
  <2>2. sessions'["old"] = "none" /\ (pc = "setAppConfig" => handle = "own")
    <3>1. CASE pc = "deinit"
      BY <1>1, <1>3, <1>5, <2>1, <3>1 DEF Obeyed, Session, Sessions
    <3>2. CASE pc # "deinit"
      <4>1. /\ About \in Session /\ sessions[About] \in Effect[1]
            /\ sessions' = [ sessions EXCEPT ![About] = Effect[2] ]
        BY <1>1, <1>3, <1>9, <3>2 DEF Obeyed
      <4>2. "none" \notin Effect[1] \/ pc = "sessionInit"
        BY <1>3, <1>9, <3>2 DEF Effect, Calls
      <4>3. About = "own"
        <5>1. CASE pc = "sessionInit"
          BY <1>3, <5>1 DEF About
        <5>2. CASE pc # "sessionInit"
          BY <2>1, <4>1, <4>2, <5>2 DEF Session
        <5> QED
          BY <5>1, <5>2
      <4>4. pc = "setAppConfig" => handle = "own"
        BY <1>3, <4>3 DEF About
      <4> QED
        BY <1>5, <2>1, <4>1, <4>3, <4>4 DEF Session
    <3> QED
      BY <3>1, <3>2
  <2>3. Gone(0)'
    BY <1>3, <1>4, <2>1, <2>2, AppendQuiet
  <2>4. pc \in { "rangingStop", "deinit" } => sessions'["own"] # "active"
    <3>1. CASE pc = "rangingStop"
      <4>1. About = "own"
        BY <1>3, <3>1 DEF About, Sessions
      <4>2. Effect[2] = "idle"
        BY <1>3, <3>1 DEF Effect
      <4> QED
        BY <1>1, <1>3, <1>5, <3>1, <4>1, <4>2 DEF Obeyed, Session
    <3>2. CASE pc = "deinit"
      BY <1>1, <1>3, <1>5, <3>2 DEF Obeyed, Session, Sessions
    <3> QED
      BY <3>1, <3>2
  <2>5. pc \in { "rangingStop", "deinit" } => Over(last)'
    BY <1>7, <2>4, NoneNow DEF Over
  <2>6. pc = "deinit" /\ Over(0) => Over(0)'
    BY <1>3, <1>4, <2>4, AppendQuiet
  <2> QED
    BY <1>1, <1>3, <1>9, <1>7, <2>2, <2>3, <2>5, <2>6 DEF Sessions, Calls
<1> QED
  BY <1>8, <1>9

LEMMA RefuseSessions ==
  ASSUME TypeOK, Sessions, OneCall, Refuse
  PROVE  Sessions'
<1>1. PICK of \in { "old", "nobody" } : wire' = Append(wire, Answer(FALSE, of))
  BY DEF Refuse
<1>2. /\ queue # << >> /\ queue' = Tail(queue)
      /\ UNCHANGED << pc, waiting, handle, refused, sessions >>
  BY DEF Refuse, program
<1>3. PICK e : e = Answer(FALSE, of)
  OBVIOUS
<1>4. /\ pc \in Calls /\ e \in Response /\ wire' = Append(wire, e) /\ e.ok = FALSE
      /\ Responses' = { Len(wire) + 1 } /\ wire'[Len(wire) + 1] = e
      /\ wire \in Seq(Wired) /\ Len(wire) \in Nat
  <2>1. of \in { "own", "old", "nobody" } /\ FALSE \in BOOLEAN
    OBVIOUS
  <2> QED
    BY <1>1, <1>2, <1>3, <2>1, AnswerCall
<1>5. e \in Wired /\ e.mt # "notification" /\ 0 \in 0 .. Len(wire)
  BY <1>4, ResponseParts DEF Wired
<1>6. (Over(0) => Over(0)') /\ (Gone(0) => Gone(0)')
  <2>1. /\ Over(0) => sessions'["own"] # "active"
        /\ Gone(0) => sessions'["old"] = "none"
    BY <1>2 DEF Over, Gone
  <2> QED
    BY <1>4, <1>5, <2>1, AppendQuiet
<1>7. \A i \in Responses' : ~wire'[i].ok
  BY <1>4
<1> QED
  BY <1>2, <1>6, <1>7 DEF Sessions

LEMMA ReturnSessions ==
  ASSUME TypeOK, SessionInv, OneCall, Return, ~raised, ~raised', "reset" \notin refused'
  PROVE  Sessions'
<1>1. PICK i \in 1 .. Len(wire), n \in 1 .. Len(wire), ok \in BOOLEAN :
        /\ i <= n /\ i \in Responses /\ wire[i].ok = ok
        /\ Read(n)
        /\ refused' = IF ok THEN refused ELSE refused \cup { pc }
        /\ handle' = IF pc = "sessionInit" THEN wire[i].handle ELSE handle
        /\ GoOn(ok) /\ pc \in Calls
  BY ReturnParts
<1>2. "reset" \notin refused /\ Sessions
  BY <1>1, SessionParts
<1>3. UNCHANGED sessions /\ Responses' = {}
  BY ReturnCall DEF Return, device, OneCall
<1>4. n \in 0 .. Len(wire) /\ i \in 0 .. n /\ 0 \in 0 .. n
  BY <1>1
<1>5. /\ Over(i) => Over(0)'
      /\ Gone(i) => Gone(0)'
      /\ Over(0) => Over(0)'
      /\ Gone(0) => Gone(0)'
  BY <1>1, <1>3, <1>4, ReadQuiet
<1>6. /\ ok \/ pc \notin { "setAppConfig", "rangingStart" }
      /\ \/ pc = "reset" /\ pc' = "sessionInit"
         \/ pc = "sessionInit" /\ pc' = "setAppConfig"
         \/ pc = "setAppConfig" /\ pc' = "rangingStart"
         \/ pc = "rangingStart" /\ pc' \in { "poll", "rangingStop" }
         \/ pc = "rangingStop" /\ pc' = "deinit"
         \/ pc = "deinit" /\ pc' = "done"
  BY <1>1, GoesOn
<1>7. Gone(0)'
  BY <1>1, <1>2, <1>5, <1>6 DEF Sessions
<1>8. ok \/ pc \in refused'
  BY <1>1
<1>9. pc # "sessionInit" => handle' = handle
  BY <1>1
<1>10. refused \subseteq refused'
  BY <1>1
<1>11. CASE pc \in { "reset", "sessionInit" }
  BY <1>3, <1>6, <1>7, <1>11 DEF Sessions
<1>12. CASE pc \in { "setAppConfig", "rangingStart" }
  <2>1. handle' = "own"
    BY <1>1, <1>2, <1>6, <1>9, <1>12 DEF Sessions
  <2> QED
    BY <1>3, <1>6, <1>7, <1>12, <2>1 DEF Sessions
<1>13. CASE pc \in { "rangingStop", "deinit" }
  <2>1. handle' = "own"
    BY <1>2, <1>9, <1>13 DEF Sessions
  <2>2. pc \in refused' \/ Over(0)'
    BY <1>1, <1>2, <1>5, <1>8, <1>13 DEF Sessions
  <2>3. pc = "deinit" => "rangingStop" \in refused' \/ Over(0)'
    BY <1>2, <1>5, <1>10 DEF Sessions
  <2> QED
    BY <1>3, <1>6, <1>7, <1>13, <2>1, <2>2, <2>3 DEF Sessions
<1> QED
  BY <1>1, <1>11, <1>12, <1>13 DEF Calls

LEMMA PollSessions ==
  ASSUME TypeOK, Sessions, OneCall, PollRounds, ~raised'
  PROVE  Sessions'
<1>1. PICK n \in 0 .. Len(wire), pending \in Seq(Notification) :
        /\ Read(n)
        /\ \/ Parsed(pending) = pending /\ pc' \in { "poll", "rangingStop" }
                /\ UNCHANGED raised
           \/ pc' = Finally /\ raised' = TRUE
  BY PollParts
<1>2. /\ pc = "poll" /\ UNCHANGED << waiting, handle, refused, sessions >>
      /\ pc' \in { "poll", "rangingStop" }
  BY <1>1 DEF PollRounds, device
<1>3. Responses = {}
  BY <1>2 DEF OneCall, Calls
<1>4. wire \in Seq(Wired) /\ wire' = SubSeq(wire, n + 1, Len(wire))
  BY <1>1, TypeNow DEF Read
<1>5. Responses' = {}
  BY <1>3, <1>4, DropResponses, NowResponses
<1>6. Gone(0)'
  <2>1. 0 \in 0 .. n
    OBVIOUS
  <2> QED
    BY <1>1, <1>2, <2>1, ReadQuiet DEF Sessions
<1> QED
  BY <1>2, <1>5, <1>6 DEF Sessions

LEMMA StepSession ==
  ASSUME TypeOK, RaisedInv, CallInv, SessionInv, [Next]_vars
  PROVE  SessionInv'
<1> SUFFICES ASSUME ~raised', "reset" \notin refused' PROVE Sessions'
  BY DEF SessionInv, Sessions
<1>1. ~raised /\ OneCall
  BY StaysRaised DEF CallInv
<1>2. ASSUME UNCHANGED refused PROVE Sessions
  BY <1>1, <1>2, SessionParts
<1>3. ASSUME NEW session \in Session, NEW read \in Reading, Report(session, read)
      PROVE  Sessions'
  BY <1>2, <1>3, ReportSessions DEF Report
<1>4. CASE Obey
  BY <1>1, <1>2, <1>4, ObeySessions DEF Obey
<1>5. CASE Refuse
  BY <1>1, <1>2, <1>5, RefuseSessions DEF Refuse
<1>6. ASSUME UNCHANGED << pc, handle, sessions, wire, refused >> PROVE Sessions'
  <2>1. Responses' = Responses /\ Sessions
    BY <1>2, <1>6, NowResponses
  <2>2. ASSUME NEW i PROVE Over(i)' = Over(i) /\ Gone(i)' = Gone(i)
    BY <1>6 DEF Over, Gone, NoneAfter
  <2> QED
    BY <1>6, <2>1, <2>2 DEF Sessions
<1>7. CASE Lose \/ Send \/ UNCHANGED vars
  BY <1>6, <1>7 DEF Lose, Send, vars, program, device
<1>8. CASE Return
  BY <1>1, <1>8, ReturnSessions
<1>9. CASE Raise \/ PollRaises
  BY <1>9 DEF Raise, PollRaises
<1>10. CASE PollRounds
  BY <1>1, <1>2, <1>10, PollSessions DEF PollRounds
<1> QED
  BY <1>3, <1>4, <1>5, <1>7, <1>8, <1>9, <1>10 DEF Next

-----------------------------------------------------------------------------
(* The measurements counted.                                                *)

\* The session of a run that has come to poll has all the rounds to be read.
LEMMA PollOwn ==
  ASSUME TypeOK, RaisedInv, SessionInv, PollRounds, "reset" \notin refused,
         NEW n \in 0 .. Len(wire), NEW pending, pending = Notifications(SubSeq(wire, 1, n)),
         NEW new, new = Successes(Parsed(pending)), NEW i \in 1 .. Len(new)
  PROVE  new[i].session = handle
<1>1. ~raised /\ pc = "poll"
  BY DEF PollRounds, RaisedInv
<1>2. Gone(0) /\ handle = "own"
  BY <1>1, SessionParts DEF Sessions
<1>3. wire \in Seq(Wired)
  BY TypeNow
<1>4. PICK w : w = SubSeq(wire, 1, n)
  OBVIOUS
<1>5. /\ w \in Seq(Wired) /\ \A j \in 1 .. Len(w) : j \in 1 .. Len(wire) /\ w[j] = wire[j]
  BY <1>3, <1>4
<1>6. pending \in Seq(Notification) /\ pending = Selected(w, Notification)
  BY <1>3, <1>4, ReadParts DEF Notifications
<1>7. PICK m \in 0 .. Len(pending) : Parsed(pending) = SubSeq(pending, 1, m)
  BY <1>6, ParsedPart
<1>8. PICK p : p = Parsed(pending)
  OBVIOUS
<1>9. /\ p \in Seq(Notification)
      /\ \A j \in 1 .. Len(p) : j \in 1 .. Len(pending) /\ p[j] = pending[j]
  BY <1>6, <1>7, <1>8
<1>10. PICK j \in 1 .. Len(p) : new[i] = p[j]
  <2>1. new = Selected(p, Rounds(Session, { "success" }))
    BY <1>8 DEF Successes
  <2> QED
    BY <1>9, <2>1, SelectedFrom
<1>11. PICK k \in 1 .. Len(w) : pending[j] = w[k] /\ pending[j] \in Notification
  <2>1. j \in 1 .. Len(Selected(w, Notification))
    BY <1>6, <1>9
  <2> QED
    BY <1>5, <1>6, <2>1, SelectedFrom
<1>12. PICK e : e = new[i]
  OBVIOUS
<1>13. e = wire[k] /\ k \in 1 .. Len(wire) /\ e \in Notification
  BY <1>5, <1>9, <1>10, <1>11, <1>12
<1>14. e.mt = "notification" /\ e.session \in Session
  BY <1>13, NotificationParts
<1>15. e.session # "old"
  BY <1>2, <1>13, <1>14 DEF Gone, NoneAfter
<1> QED
  BY <1>2, <1>12, <1>14, <1>15 DEF Session

LEMMA StepOwn ==
  ASSUME TypeOK, RaisedInv, CountInv, SessionInv, OwnInv, [Next]_vars
  PROVE  OwnInv'
<1>1. CASE Return
  <2>1. PICK i \in 1 .. Len(wire), ok \in BOOLEAN :
          /\ refused' = IF ok THEN refused ELSE refused \cup { pc }
          /\ handle' = IF pc = "sessionInit" THEN wire[i].handle ELSE handle
    BY <1>1, ReturnParts
  <2>2. counted' = counted /\ refused \subseteq refused'
    BY <1>1, <2>1 DEF Return
  <2>3. CASE pc = "sessionInit"
    <3>1. ~raised
      BY <2>3 DEF RaisedInv
    <3>2. counted = << >>
      BY <2>3, <3>1 DEF CountInv
    <3>3. Len(counted') = 0
      BY <2>2, <3>2
    <3> QED
      BY <3>3 DEF OwnInv
  <2>4. CASE pc # "sessionInit"
    <3>1. handle' = handle
      BY <2>1, <2>4
    <3> QED
      BY <2>2, <3>1 DEF OwnInv
  <2> QED
    BY <2>3, <2>4
<1>2. CASE PollRounds
  <2>1. PICK n \in 0 .. Len(wire), pending \in Seq(Notification) :
          /\ pending = Notifications(SubSeq(wire, 1, n))
          /\ counted' = counted \o Successes(Parsed(pending))
    BY <1>2, PollParts
  <2>2. UNCHANGED << handle, refused >>
    BY <1>2 DEF PollRounds
  <2>3. PICK c, new : c = counted /\ new = Successes(Parsed(pending))
    OBVIOUS
  <2>4. c \in Seq(Notification) /\ new \in Seq(Notification) /\ counted' = c \o new
    BY <2>1, <2>3, TypeNow, ParsedType
  <2>5. PICK d : d = c \o new
    OBVIOUS
  <2>6. /\ Len(c) \in Nat /\ Len(new) \in Nat /\ Len(d) = Len(c) + Len(new)
        /\ \A i \in 1 .. Len(c) : d[i] = c[i]
        /\ \A i \in 1 .. Len(new) : d[Len(c) + i] = new[i]
    BY <2>4, <2>5, JoinAt
  <2>7. ASSUME NEW i \in 1 .. Len(d), "reset" \notin refused PROVE d[i].session = handle
    <3>1. CASE i <= Len(c)
      <4>1. i \in 1 .. Len(c)
        BY <2>6, <3>1
      <4> QED
        BY <2>3, <2>6, <2>7, <4>1 DEF OwnInv
    <3>2. CASE ~(i <= Len(c))
      <4>1. PICK j \in 1 .. Len(new) : i = Len(c) + j
        <5>1. i - Len(c) \in 1 .. Len(new) /\ i = Len(c) + (i - Len(c))
          BY <2>6, <3>2
        <5> QED
          BY <5>1
      <4>2. d[i] = new[j]
        BY <2>6, <4>1
      <4>3. new[j].session = handle
        BY <1>2, <2>1, <2>3, <2>7, <4>1, PollOwn
      <4> QED
        BY <4>2, <4>3
    <3> QED
      BY <3>1, <3>2
  <2> QED
    BY <2>2, <2>4, <2>5, <2>7 DEF OwnInv
<1>3. CASE UNCHANGED << counted, handle, refused >>
  BY <1>3 DEF OwnInv
<1> QED
  BY <1>1, <1>2, <1>3
     DEF Next, Report, Obey, Refuse, Lose, Send, Raise, PollRaises, vars, program, device

\* The inductive invariant holds, whatever the device reports, refuses or loses.
THEOREM SafeInvariant == Spec => []SafeInv
<1>1. Init => SafeInv
  <2>1. Init => OwnInv
    <3>1. Init => Len(counted) = 0
      BY DEF Init
    <3> QED
      BY <3>1 DEF OwnInv
  <2> QED
    BY <2>1, InitType, InitRaised, InitCall, InitStream, InitCount, InitSession DEF SafeInv
<1>2. SafeInv /\ [Next]_vars => SafeInv'
  BY StepType, StepRaised, StepCall, StepStream, StepCount, StepSession, StepOwn DEF SafeInv
<1> QED
  BY <1>1, <1>2, PTL DEF Spec

\* The numbers of the rounds counted.
LEMMA CountedInOrder ==
  ASSUME NEW rounds \in Seq(Notification), NEW c, PartCounted(c, rounds),
         \A i \in 1 .. Len(rounds) : rounds[i].number = i
  PROVE  /\ c \in Seq(Notification)
         /\ \A i \in 1 .. Len(c) :
              /\ c[i] \in ToSet(rounds) /\ c[i].read = "success"
              /\ \A j \in 1 .. i - 1 : c[j].number < c[i].number
<1>1. PICK a \in 0 .. Len(rounds), b \in 0 .. Len(rounds) :
        a <= b /\ c = Successes(SubSeq(rounds, a + 1, b))
  BY DEF PartCounted
<1>2. PICK part : part = SubSeq(rounds, a + 1, b)
  OBVIOUS
<1>3. /\ part \in Seq(Notification) /\ Len(rounds) \in Nat /\ Len(part) = b - a
      /\ a \in Nat /\ b \in Nat
      /\ \A i \in 1 .. b - a : part[i] = rounds[i + a]
  <2>1. a \in Nat /\ b \in Nat /\ b <= Len(rounds) /\ Len(rounds) \in Nat
    BY <1>1
  <2> QED
    BY <1>1, <1>2, <2>1, SliceAt
<1>4. \A i \in 1 .. Len(part) : /\ i + a \in 1 .. Len(rounds)
                                /\ part[i] = rounds[i + a] /\ part[i].number = i + a
  BY <1>3
<1>5. c = Selected(part, Rounds(Session, { "success" }))
  BY <1>1, <1>2 DEF Successes
<1>6. /\ c \in Seq(Notification) /\ SelectedOf(c, part)
  BY <1>3, <1>5, SelectedType, SelectedItems
<1>7. ASSUME NEW i \in 1 .. Len(c)
      PROVE  c[i] \in ToSet(rounds) /\ c[i].read = "success"
  <2>1. PICK j \in 1 .. Len(part) : c[i] = part[j]
    BY <1>6 DEF SelectedOf
  <2>2. c[i] \in Rounds(Session, { "success" })
    BY <1>3, <1>5, SelectedFrom
  <2>3. c[i].read = "success"
    BY <2>2 DEF Rounds
  <2>4. DOMAIN rounds = 1 .. Len(rounds)
    OBVIOUS
  <2> QED
    BY <1>4, <2>1, <2>3, <2>4 DEF ToSet
<1>8. ASSUME NEW i \in 1 .. Len(c), NEW j \in 1 .. i - 1
      PROVE  c[j].number < c[i].number
  <2>1. i \in Nat /\ j \in 1 .. Len(c) /\ j < i
    BY <1>6
  <2>2. PICK p \in 1 .. Len(part), q \in 1 .. Len(part) :
          c[j] = part[p] /\ c[i] = part[q] /\ p < q
    BY <1>6, <2>1 DEF SelectedOf
  <2> QED
    BY <1>3, <1>4, <2>2
<1> QED
  BY <1>6, <1>7, <1>8

\* What run_mixed_ranging counts are measurements of its own session, each once,
\* whatever the device reports, answers, refuses or loses, and however its
\* messages are batched.
THEOREM CountsOwn == Spec => []CountsOwnMeasurements
<1>1. SafeInv => CountsOwnMeasurements
  <2> SUFFICES ASSUME SafeInv PROVE CountsOwnMeasurements
    OBVIOUS
  <2>1. /\ emitted \in Seq(Notification) /\ PartCounted(counted, emitted)
        /\ \A i \in 1 .. Len(emitted) : emitted[i].number = i
    BY TypeNow, CountParts DEF SafeInv, StreamInv
  <2>2. \A i \in 1 .. Len(counted) :
          /\ counted[i] \in ToSet(emitted) /\ counted[i].read = "success"
          /\ \A j \in 1 .. i - 1 : counted[j].number < counted[i].number
    BY <2>1, CountedInOrder
  <2> QED
    BY <2>2 DEF SafeInv, OwnInv, CountsOwnMeasurements
<1> QED
  BY <1>1, SafeInvariant, PTL

\* A run that returns has kept every round of its session, and its result has
\* every success among those read after the loop began.
THEOREM EveryRound == Spec => []EveryRoundAccountedFor
<1>1. SafeInv => EveryRoundAccountedFor
  <2> SUFFICES ASSUME SafeInv, pc = "done", ~raised, "reset" \notin refused,
                      ~({ "rangingStop", "deinit" } \subseteq refused)
               PROVE  LET ofThisRun == Rounds({ handle }, Reading)
                      IN /\ Selected(kept, ofThisRun) = Selected(emitted, ofThisRun)
                         /\ counted = Successes(SubSeq(kept, observed[1] + 1, observed[2]))
    BY DEF EveryRoundAccountedFor
  <2> DEFINE ofThisRun == Rounds({ handle }, Reading)
  <2>1. handle = "own" /\ Over(0)
    BY SessionParts DEF SafeInv, Sessions
  <2>2. PICK k, r : k = kept /\ r = Notifications(wire)
    OBVIOUS
  <2>3. /\ wire \in Seq(Wired) /\ k \in Seq(Notification) /\ emitted = k \o r
    BY <2>2, TypeNow DEF SafeInv, StreamInv
  <2>4. r \in Seq(Notification) /\ r = Selected(wire, Notification)
    <3>1. 0 \in 0 .. Len(wire)
      BY <2>3
    <3> QED
      BY <2>2, <2>3, <3>1, ReadParts DEF Notifications
  <2>5. ASSUME NEW i \in 1 .. Len(r) PROVE r[i] \notin ofThisRun
    <3>1. PICK e : e = r[i]
      OBVIOUS
    <3>2. PICK j \in 1 .. Len(wire) : e = wire[j] /\ e \in Notification
      <4>1. i \in 1 .. Len(Selected(wire, Notification))
        BY <2>4
      <4> QED
        BY ONLY <2>3, <2>4, <3>1, <4>1, SelectedFrom
    <3>3. e.session # "own"
      BY <2>1, <3>2, NotificationParts DEF Over, NoneAfter
    <3> QED
      BY <2>1, <3>1, <3>2, <3>3 DEF Rounds
  <2>6. Selected(r, ofThisRun) = << >>
    <3> HIDE DEF ofThisRun
    <3> QED
      BY <2>4, <2>5, SelectedNone
  <2>7. Selected(k \o r, ofThisRun) = Selected(k, ofThisRun) \o Selected(r, ofThisRun)
    <3> HIDE DEF ofThisRun
    <3> QED
      BY ONLY <2>3, <2>4, SelectedJoin
  <2>8. Selected(k, ofThisRun) \o << >> = Selected(k, ofThisRun)
    <3> HIDE DEF ofThisRun
    <3>1. PICK t : t = Selected(k, ofThisRun)
      OBVIOUS
    <3>2. t \in Seq(Notification)
      BY <2>3, <3>1, SelectedType
    <3>3. t \o << >> = t
      BY ONLY <3>2, JoinEmpty
    <3> QED
      BY <3>1, <3>3
  <2>9. counted = Successes(SubSeq(kept, observed[1] + 1, observed[2]))
    BY DEF SafeInv, CountInv
  <2> QED
    BY <2>2, <2>3, <2>6, <2>7, <2>8, <2>9
<1> QED
  BY <1>1, SafeInvariant, PTL
=============================================================================
