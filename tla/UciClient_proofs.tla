-------------------------- MODULE UciClient_proofs --------------------------
(***************************************************************************)
(* Proofs about UciClient, for every set of keys and every bound.          *)
(***************************************************************************)
EXTENDS UciClientInvariant, SequenceFacts

-----------------------------------------------------------------------------
(* Order in a sequence.                                                     *)

LEMMA OrderedAppend ==
  ASSUME NEW S, NEW s \in Seq(S), NEW e \in S, NEW mt,
         Ordered(s, mt), e.mt = mt => AllBefore(s, mt, e.id)
  PROVE  Ordered(Append(s, e), mt)
<1> DEFINE t == Append(s, e)
<1>1. /\ Len(s) \in Nat
      /\ Len(t) = Len(s) + 1
      /\ \A i \in 1 .. Len(s) : t[i] = s[i]
      /\ t[Len(s) + 1] = e
  BY AppendAt
<1> HIDE DEF t
<1>2. SUFFICES ASSUME NEW i \in 1 .. Len(t), NEW j \in 1 .. Len(t),
                      i < j, t[i].mt = mt, t[j].mt = mt
               PROVE  t[i].id < t[j].id
  BY DEF Ordered, t
<1>3. i \in 1 .. Len(s) /\ t[i] = s[i]
  BY <1>1, <1>2
<1>4. CASE j \in 1 .. Len(s)
  BY <1>1, <1>2, <1>3, <1>4 DEF Ordered
<1>5. CASE j = Len(s) + 1
  BY <1>1, <1>2, <1>3, <1>5 DEF AllBefore
<1> QED
  BY <1>1, <1>4, <1>5

LEMMA OrderedDrop ==
  ASSUME NEW S, NEW s \in Seq(S), NEW k \in 0 .. Len(s), NEW mt, Ordered(s, mt)
  PROVE  Ordered(SubSeq(s, k + 1, Len(s)), mt)
  BY DropAt DEF Ordered

LEMMA AllAfterAppend ==
  ASSUME NEW S, NEW s \in Seq(S), NEW e \in S, NEW mt, NEW n,
         AllAfter(s, mt, n), e.mt = mt => n < e.id
  PROVE  AllAfter(Append(s, e), mt, n)
  BY AppendAt DEF AllAfter

LEMMA AllAfterDrop ==
  ASSUME NEW S, NEW s \in Seq(S), NEW k \in 0 .. Len(s), NEW mt, NEW n,
         AllAfter(s, mt, n)
  PROVE  AllAfter(SubSeq(s, k + 1, Len(s)), mt, n)
  BY DropAt DEF AllAfter

\* The first item of an ordered sequence has the smallest number.
LEMMA HeadFirst ==
  ASSUME NEW S, NEW s \in Seq(S), s # << >>, NEW mt,
         Ordered(s, mt), Head(s).mt = mt
  PROVE  AllAfter(Tail(s), mt, Head(s).id)
  BY TailAt DEF Ordered, AllAfter

-----------------------------------------------------------------------------
(* The initial state.                                                       *)

LEMMA InitSafe == Init => SafeInv
<1> SUFFICES ASSUME Init PROVE SafeInv
  OBVIOUS
<1> USE DEF Init
<1>1. TypeOK
  <2> DEFINE empty == << >>
  <2>1. \A S : empty \in Seq(S)
    OBVIOUS
  <2> QED
    BY <2>1 DEF TypeOK
<1>2. CallsInv
  BY DEF CallsInv, Waiting
<1>3. OutstandingInv
  BY DEF OutstandingInv, OwedSent, OwedInOrder, WireAnswers, ResponsesInOrder,
         WireBeforeOwed, Ordered
<1>4. ReturnedInv /\ HeldInv
  BY DEF ReturnedInv, ReturnedGood, ReturnedBeforeWire, ReturnedBeforeOwed,
         ReturnedInOrder, HeldInv, HeldGood, HeldBeforeWire, HeldBeforeOwed,
         HeldLast, Holding, Waiting, Ordered
<1>5. EmittedInv
  BY DEF EmittedInv, EmittedNumbered, WireEmitted, WireNotificationsInOrder,
         KeptEmitted, KeptBeforeWire, NotificationsInOrder, Ordered
<1> QED
  BY <1>1, <1>2, <1>3, <1>4, <1>5 DEF SafeInv

-----------------------------------------------------------------------------
(* Items leave the wire at its head, or none does.                          *)

\* What is true of all that is on the wire stays true of the rest of it.
LEMMA RestOfWire ==
  ASSUME SafeInv, NEW k \in 0 .. Len(wire),
         wire' = SubSeq(wire, k + 1, Len(wire)),
         UNCHANGED << commands, outcomes, unanswered >>
  PROVE  OutstandingInv' /\ ReturnedInv'
<1> USE DEF SafeInv, OutstandingInv, ReturnedInv
<1>1. /\ wire \in Seq(Item)
      /\ Len(wire) \in Nat
      /\ Len(wire') = Len(wire) - k
      /\ \A i \in 1 .. Len(wire) - k : wire'[i] = wire[i + k]
  BY DropAt DEF TypeOK
<1>2. \A i \in 1 .. Len(wire') : i + k \in 1 .. Len(wire) /\ wire'[i] = wire[i + k]
  BY <1>1
<1>3. OwedSent' /\ OwedInOrder'
  BY DEF OwedSent, OwedInOrder, ExcusedIfLate, Excused
<1>4. WireAnswers'
  BY <1>2 DEF WireAnswers, ExcusedIfLate, Excused
<1>5. ResponsesInOrder'
  BY <1>1, OrderedDrop DEF ResponsesInOrder
<1>6. WireBeforeOwed'
  BY <1>2 DEF WireBeforeOwed, BeforeOwed
<1>7. ReturnedGood' /\ ReturnedBeforeOwed' /\ ReturnedInOrder'
  BY DEF ReturnedGood, GoodFor, Excused, ReturnedBeforeOwed, BeforeOwed,
         ReturnedInOrder, Ordered
<1>8. ReturnedBeforeWire'
  <2> SUFFICES ASSUME NEW i \in 1 .. Len(outcomes), IsResponse(outcomes[i])
               PROVE  AllAfter(wire', "response", outcomes[i].id)
    BY DEF ReturnedBeforeWire, BeforeWire
  <2>1. AllAfter(wire, "response", outcomes[i].id)
    BY DEF ReturnedBeforeWire, BeforeWire
  <2> QED
    BY <1>1, <2>1, AllAfterDrop
<1> QED
  BY <1>3, <1>4, <1>5, <1>6, <1>7, <1>8

LEMMA RestOfWireHeld ==
  ASSUME SafeInv, NEW k \in 0 .. Len(wire),
         wire' = SubSeq(wire, k + 1, Len(wire)),
         UNCHANGED << commands, outcomes, unanswered, response >>,
         Holding' => Holding
  PROVE  HeldInv'
<1> USE DEF SafeInv, HeldInv
<1>1. wire \in Seq(Item)
  BY DEF TypeOK
<1>2. HeldGood' /\ HeldBeforeOwed' /\ HeldLast'
  BY DEF HeldGood, GoodFor, Excused, HeldBeforeOwed, BeforeOwed, HeldLast, AllBefore
<1>3. HeldBeforeWire'
  BY <1>1, AllAfterDrop DEF HeldBeforeWire, BeforeWire
<1> QED
  BY <1>2, <1>3

LEMMA RestOfWireEmitted ==
  ASSUME SafeInv, NEW k \in 0 .. Len(wire),
         wire' = SubSeq(wire, k + 1, Len(wire)),
         UNCHANGED << notifications, emitted >>
  PROVE  EmittedInv'
<1> USE DEF SafeInv, EmittedInv
<1>1. /\ wire \in Seq(Item)
      /\ Len(wire) \in Nat
      /\ Len(wire') = Len(wire) - k
      /\ \A i \in 1 .. Len(wire) - k : wire'[i] = wire[i + k]
  BY DropAt DEF TypeOK
<1>2. \A i \in 1 .. Len(wire') : i + k \in 1 .. Len(wire) /\ wire'[i] = wire[i + k]
  BY <1>1
<1>3. EmittedNumbered' /\ KeptEmitted' /\ NotificationsInOrder'
  BY DEF EmittedNumbered, KeptEmitted, NotificationsInOrder
<1>4. WireEmitted'
  BY <1>2 DEF WireEmitted
<1>5. WireNotificationsInOrder'
  BY <1>1, OrderedDrop DEF WireNotificationsInOrder
<1>6. KeptBeforeWire'
  <2> SUFFICES ASSUME NEW i \in 1 .. Len(notifications)
               PROVE  AllAfter(wire', "notification", notifications[i].id)
    BY DEF KeptBeforeWire
  <2>1. AllAfter(wire, "notification", notifications[i].id)
    BY DEF KeptBeforeWire
  <2> QED
    BY <1>1, <2>1, AllAfterDrop
<1> QED
  BY <1>3, <1>4, <1>5, <1>6

-----------------------------------------------------------------------------
(* A call that ends.                                                        *)

\* What excuses a late response is never taken back.
LEMMA ExcusedStays ==
  ASSUME SafeInv, NEW outcome \in Item \cup GaveUp, NEW id, Excused(id),
         outcomes' = Append(outcomes, outcome), commands' = commands
  PROVE  Excused(id)'
<1>1. /\ outcomes \in Seq(Item \cup GaveUp)
      /\ Len(outcomes') = Len(outcomes) + 1
      /\ \A i \in 1 .. Len(outcomes) : outcomes'[i] = outcomes[i]
      /\ Len(outcomes) \in Nat
  BY AppendAt DEF SafeInv, TypeOK
<1>2. PICK j \in 1 .. id : /\ j <= Len(outcomes)
                           /\ commands[j] = commands[id]
                           /\ outcomes[j] \in GaveUp
  BY DEF Excused
<1>3. j <= Len(outcomes') /\ outcomes'[j] = outcomes[j]
  BY <1>1, <1>2
<1> QED
  BY <1>2, <1>3 DEF Excused

\* A response that arrives for the command whose call ends now is excused, by
\* this call if it gives up, by an earlier one if an older response is taken
\* in its place.
LEMMA FinishExcuses ==
  ASSUME SafeInv, Waiting, NEW outcome \in Item \cup GaveUp,
         outcomes' = Append(outcomes, outcome), commands' = commands,
         outcome \in GaveUp \/ (outcome = response /\ Holding /\ response.id < Len(commands))
  PROVE  Excused(Len(commands))'
<1> DEFINE c == Len(commands)
<1>1. /\ outcomes \in Seq(Item \cup GaveUp)
      /\ commands \in Seq(Key)
      /\ Len(outcomes') = Len(outcomes) + 1
      /\ \A i \in 1 .. Len(outcomes) : outcomes'[i] = outcomes[i]
      /\ outcomes'[Len(outcomes) + 1] = outcome
      /\ Len(outcomes) + 1 = c
      /\ c \in Nat \ {0}
      /\ Len(outcomes) \in Nat
  BY AppendAt DEF SafeInv, TypeOK, CallsInv
<1>2. CASE outcome \in GaveUp
  <2>1. c \in 1 .. c /\ c <= Len(outcomes') /\ outcomes'[c] \in GaveUp
    BY <1>1, <1>2
  <2> QED
    BY <2>1 DEF Excused
<1>3. CASE outcome = response /\ Holding /\ response.id < Len(commands)
  <2>1. /\ response.id \in 1 .. c
        /\ commands[response.id] = commands[c]
        /\ Excused(response.id)
    BY <1>3 DEF SafeInv, HeldInv, HeldGood, GoodFor
  <2>2. PICK j \in 1 .. response.id : /\ j <= Len(outcomes)
                                      /\ commands[j] = commands[response.id]
                                      /\ outcomes[j] \in GaveUp
    BY <2>1 DEF Excused
  <2>3. j \in 1 .. c /\ j <= Len(outcomes') /\ outcomes'[j] = outcomes[j]
    BY <1>1, <2>1, <2>2
  <2> QED
    BY <2>1, <2>2, <2>3 DEF Excused
<1> QED
  BY <1>2, <1>3

LEMMA FinishSafe ==
  ASSUME SafeInv, Waiting, NEW outcome \in Item \cup GaveUp,
         NEW k \in 0 .. Len(wire), wire' = SubSeq(wire, k + 1, Len(wire)),
         outcomes' = Append(outcomes, outcome), UNCHANGED << commands, unanswered >>,
         outcome \in GaveUp \/ (outcome = response /\ Holding)
  PROVE  OutstandingInv' /\ ReturnedInv'
<1> USE DEF OutstandingInv, ReturnedInv
<1> DEFINE c == Len(commands)
<1>1. /\ wire \in Seq(Item)
      /\ Len(wire) \in Nat
      /\ Len(wire') = Len(wire) - k
      /\ \A i \in 1 .. Len(wire) - k : wire'[i] = wire[i + k]
  BY DropAt DEF SafeInv, TypeOK
<1>2. \A i \in 1 .. Len(wire') : i + k \in 1 .. Len(wire) /\ wire'[i] = wire[i + k]
  BY <1>1
<1>3. /\ outcomes \in Seq(Item \cup GaveUp)
      /\ commands \in Seq(Key)
      /\ unanswered \in Seq(Nat)
      /\ Len(outcomes') = Len(outcomes) + 1
      /\ \A i \in 1 .. Len(outcomes) : outcomes'[i] = outcomes[i]
      /\ outcomes'[Len(outcomes) + 1] = outcome
      /\ Len(outcomes) + 1 = c
      /\ c \in Nat \ {0}
      /\ Len(outcomes) \in Nat
  BY AppendAt DEF SafeInv, TypeOK, CallsInv
<1>4. ASSUME NEW id \in 1 .. c, ExcusedIfLate(id), Holding => response.id < id
      PROVE  ExcusedIfLate(id)'
  <2> SUFFICES ASSUME id <= Len(outcomes') PROVE Excused(id)'
    BY DEF ExcusedIfLate
  <2>1. CASE id <= Len(outcomes)
    <3>1. Excused(id)
      BY <1>4, <2>1 DEF ExcusedIfLate
    <3> QED
      BY <3>1, ExcusedStays
  <2>2. CASE id = c
    <3>1. outcome \in GaveUp \/ (outcome = response /\ Holding /\ response.id < Len(commands))
      BY <1>4, <2>2
    <3>2. Excused(Len(commands))'
      BY <3>1, FinishExcuses
    <3> QED
      BY <2>2, <3>2 DEF Excused
  <2> QED
    BY <1>3, <2>1, <2>2
<1>5. OwedSent' /\ OwedInOrder'
  <2>1. ASSUME NEW i \in 1 .. Len(unanswered)
        PROVE  unanswered[i] \in 1 .. c /\ ExcusedIfLate(unanswered[i])'
    <3>1. unanswered[i] \in 1 .. c /\ ExcusedIfLate(unanswered[i])
      BY DEF SafeInv, OwedSent
    <3>2. Holding => response.id < unanswered[i]
      BY DEF SafeInv, HeldInv, HeldBeforeOwed, BeforeOwed
    <3> QED
      BY <1>4, <3>1, <3>2
  <2>2. OwedInOrder'
    BY DEF SafeInv, OwedInOrder
  <2> QED
    BY <2>1, <2>2 DEF OwedSent, ExcusedIfLate, Excused
<1>6. WireAnswers'
  <2>1. ASSUME NEW i \in 1 .. Len(wire), NEW item, item = wire[i], IsResponse(item)
        PROVE  /\ item.id \in 1 .. c
               /\ item.key = commands[item.id]
               /\ ExcusedIfLate(item.id)'
    <3>1. /\ item.id \in 1 .. c
          /\ item.key = commands[item.id]
          /\ ExcusedIfLate(item.id)
      BY <2>1 DEF SafeInv, WireAnswers
    <3>2. Holding => response.id < item.id
      BY <2>1 DEF SafeInv, HeldInv, HeldBeforeWire, BeforeWire, AllAfter, IsResponse
    <3> QED
      BY <1>4, <3>1, <3>2
  <2> QED
    BY <1>2, <2>1 DEF WireAnswers, ExcusedIfLate, Excused
<1>7. ResponsesInOrder'
  BY <1>1, OrderedDrop DEF SafeInv, ResponsesInOrder
<1>8. WireBeforeOwed'
  BY <1>2 DEF SafeInv, WireBeforeOwed, BeforeOwed
<1>9. ReturnedGood'
  <2>1. ASSUME NEW i \in 1 .. c, NEW item, GoodFor(item, i)
        PROVE  GoodFor(item, i)'
    <3>1. ASSUME item.id < i PROVE Excused(item.id)'
      BY <2>1, <3>1, ExcusedStays DEF GoodFor
    <3> QED
      BY <2>1, <3>1 DEF GoodFor, Excused
  <2>2. ASSUME NEW i \in 1 .. Len(outcomes'), NEW item, item = outcomes'[i],
               IsResponse(item)
        PROVE  GoodFor(item, i)'
    <3>1. CASE i \in 1 .. Len(outcomes)
      <4>1. GoodFor(item, i) /\ i \in 1 .. c
        BY <1>3, <2>2, <3>1 DEF SafeInv, ReturnedGood
      <4> QED
        BY <2>1, <4>1
    <3>2. CASE i = c
      <4>1. item = response /\ Holding
        BY <1>3, <2>2, <3>2 DEF IsResponse, GaveUp, TimedOut, FramingError, LinkError
      <4>2. GoodFor(item, i) /\ i \in 1 .. c
        BY <1>3, <3>2, <4>1 DEF SafeInv, HeldInv, HeldGood
      <4> QED
        BY <2>1, <4>2
    <3> QED
      BY <1>3, <3>1, <3>2
  <2> QED
    BY <2>2 DEF ReturnedGood, GoodFor, Excused
<1>10. ReturnedBeforeWire'
  <2> SUFFICES ASSUME NEW i \in 1 .. Len(outcomes'), IsResponse(outcomes'[i])
               PROVE  AllAfter(wire', "response", outcomes'[i].id)
    BY DEF ReturnedBeforeWire, BeforeWire
  <2>1. AllAfter(wire, "response", outcomes'[i].id)
    <3>1. CASE i \in 1 .. Len(outcomes)
      BY <1>3, <3>1 DEF SafeInv, ReturnedBeforeWire, BeforeWire
    <3>2. CASE i = c
      <4>1. outcomes'[i] = response /\ Holding
        BY <1>3, <3>2 DEF IsResponse, GaveUp, TimedOut, FramingError, LinkError
      <4> QED
        BY <4>1 DEF SafeInv, HeldInv, HeldBeforeWire, BeforeWire
    <3> QED
      BY <1>3, <3>1, <3>2
  <2> QED
    BY <1>1, <2>1, AllAfterDrop
<1>11. ReturnedBeforeOwed'
  <2> SUFFICES ASSUME NEW i \in 1 .. Len(outcomes'), IsResponse(outcomes'[i])
               PROVE  BeforeOwed(outcomes'[i])
    BY DEF ReturnedBeforeOwed, BeforeOwed
  <2>1. CASE i \in 1 .. Len(outcomes)
    BY <1>3, <2>1 DEF SafeInv, ReturnedBeforeOwed
  <2>2. CASE i = c
    <3>1. outcomes'[i] = response /\ Holding
      BY <1>3, <2>2 DEF IsResponse, GaveUp, TimedOut, FramingError, LinkError
    <3> QED
      BY <3>1 DEF SafeInv, HeldInv, HeldBeforeOwed
  <2> QED
    BY <1>3, <2>1, <2>2
<1>12. ReturnedInOrder'
  <2>1. ASSUME outcome.mt = "response"
        PROVE  AllBefore(outcomes, "response", outcome.id)
    <3>1. outcome = response /\ Holding
      BY <2>1 DEF GaveUp, TimedOut, FramingError, LinkError
    <3> QED
      BY <3>1 DEF SafeInv, HeldInv, HeldLast
  <2> QED
    BY <1>3, <2>1, OrderedAppend DEF SafeInv, ReturnedInOrder
<1> QED
  BY <1>5, <1>6, <1>7, <1>8, <1>9, <1>10, <1>11, <1>12

-----------------------------------------------------------------------------
(* The device takes a command, or puts an item at the end of the wire.      *)

LEMMA OwedShrinks ==
  ASSUME SafeInv, unanswered # << >>, unanswered' = Tail(unanswered),
         UNCHANGED << pc, response, commands, outcomes >>
  PROVE  /\ OwedSent' /\ OwedInOrder'
         /\ ReturnedBeforeOwed' /\ HeldBeforeOwed'
         /\ \A i \in 1 .. Len(unanswered') : Head(unanswered) < unanswered'[i]
         /\ Head(unanswered) \in 1 .. Len(commands)
         /\ ExcusedIfLate(Head(unanswered))
         /\ \A item : BeforeOwed(item) =>
              /\ item.id < Head(unanswered)
              /\ \A i \in 1 .. Len(unanswered') : item.id < unanswered'[i]
<1>1. /\ Len(unanswered) \in Nat \ {0}
      /\ Len(unanswered') = Len(unanswered) - 1
      /\ \A i \in 1 .. Len(unanswered) - 1 : unanswered'[i] = unanswered[i + 1]
      /\ Head(unanswered) = unanswered[1]
  BY TailAt DEF SafeInv, TypeOK
<1>2. \A i \in 1 .. Len(unanswered') :
        i + 1 \in 1 .. Len(unanswered) /\ unanswered'[i] = unanswered[i + 1]
  BY <1>1
<1>3. OwedSent'
  BY <1>2 DEF SafeInv, OutstandingInv, OwedSent, ExcusedIfLate, Excused
<1>4. OwedInOrder'
  BY <1>2 DEF SafeInv, OutstandingInv, OwedInOrder
<1>5. ReturnedBeforeOwed'
  BY <1>2 DEF SafeInv, ReturnedInv, ReturnedBeforeOwed, BeforeOwed
<1>6. HeldBeforeOwed'
  BY <1>2 DEF SafeInv, HeldInv, HeldBeforeOwed, BeforeOwed, Holding, Waiting
<1>7. \A i \in 1 .. Len(unanswered') : Head(unanswered) < unanswered'[i]
  BY <1>1, <1>2 DEF SafeInv, OutstandingInv, OwedInOrder
<1>8. Head(unanswered) \in 1 .. Len(commands) /\ ExcusedIfLate(Head(unanswered))
  BY <1>1 DEF SafeInv, OutstandingInv, OwedSent
<1>9. \A item : BeforeOwed(item) =>
        /\ item.id < Head(unanswered)
        /\ \A i \in 1 .. Len(unanswered') : item.id < unanswered'[i]
  BY <1>1, <1>2 DEF BeforeOwed
<1> QED
  BY <1>3, <1>4, <1>5, <1>6, <1>7, <1>8, <1>9

\* Nothing but the types of the items and the place of the new one matters to
\* the two parts that hold of every step of the device.
LEMMA DeviceCalls ==
  ASSUME SafeInv, UNCHANGED << client, decoded >>, Len(wire') >= Len(wire)
  PROVE  CallsInv' /\ ReturnedGood' /\ ReturnedInOrder' /\ HeldGood' /\ HeldLast'
<1>1. CallsInv'
  BY DEF SafeInv, TypeOK, CallsInv, client, Waiting
<1>2. ReturnedGood' /\ ReturnedInOrder'
  BY DEF SafeInv, ReturnedInv, ReturnedGood, GoodFor, Excused, ReturnedInOrder,
         Ordered, client
<1>3. HeldGood' /\ HeldLast'
  BY DEF SafeInv, HeldInv, HeldGood, GoodFor, Excused, HeldLast, AllBefore, Holding,
         Waiting, client
<1> QED
  BY <1>1, <1>2, <1>3

\* A new item that is not a response changes nothing for the responses.
LEMMA OtherItem ==
  ASSUME SafeInv, NEW item \in Item, ~IsResponse(item), wire' = Append(wire, item),
         UNCHANGED << client, unanswered >>
  PROVE  OutstandingInv' /\ ReturnedBeforeWire' /\ ReturnedBeforeOwed'
           /\ HeldBeforeWire' /\ HeldBeforeOwed'
<1>1. /\ wire \in Seq(Item)
      /\ Len(wire) \in Nat
      /\ Len(wire') = Len(wire) + 1
      /\ \A i \in 1 .. Len(wire) : wire'[i] = wire[i]
      /\ wire'[Len(wire) + 1] = item
  BY AppendAt DEF SafeInv, TypeOK
<1>2. \A i \in 1 .. Len(wire') :
        IsResponse(wire'[i]) => i \in 1 .. Len(wire) /\ wire'[i] = wire[i]
  BY <1>1
<1>3. item.mt # "response"
  BY DEF IsResponse
<1>4. OwedSent' /\ OwedInOrder'
  BY DEF SafeInv, OutstandingInv, OwedSent, OwedInOrder, ExcusedIfLate, Excused, client
<1>5. WireAnswers'
  BY <1>2 DEF SafeInv, OutstandingInv, WireAnswers, ExcusedIfLate, Excused, client
<1>6. ResponsesInOrder'
  BY <1>1, <1>3, OrderedAppend DEF SafeInv, OutstandingInv, ResponsesInOrder
<1>7. WireBeforeOwed'
  BY <1>2 DEF SafeInv, OutstandingInv, WireBeforeOwed, BeforeOwed
<1>8. ReturnedBeforeWire'
  <2> SUFFICES ASSUME NEW i \in 1 .. Len(outcomes), IsResponse(outcomes[i])
               PROVE  AllAfter(wire', "response", outcomes[i].id)
    BY DEF ReturnedBeforeWire, BeforeWire, client
  <2> QED
    BY <1>1, <1>3, AllAfterAppend DEF SafeInv, ReturnedInv, ReturnedBeforeWire, BeforeWire
<1>9. HeldBeforeWire'
  BY <1>1, <1>3, AllAfterAppend
     DEF SafeInv, HeldInv, HeldBeforeWire, BeforeWire, Holding, Waiting, client
<1>10. ReturnedBeforeOwed' /\ HeldBeforeOwed'
  BY DEF SafeInv, ReturnedInv, ReturnedBeforeOwed, HeldInv, HeldBeforeOwed, BeforeOwed,
         Holding, Waiting, client
<1> QED
  BY <1>4, <1>5, <1>6, <1>7, <1>8, <1>9, <1>10 DEF OutstandingInv

\* Likewise a new item that is not a notification for the notifications.
LEMMA NotANotification ==
  ASSUME SafeInv, NEW item \in Item, ~IsNotification(item), wire' = Append(wire, item),
         UNCHANGED << notifications, emitted >>
  PROVE  EmittedInv'
<1>1. /\ wire \in Seq(Item)
      /\ Len(wire) \in Nat
      /\ Len(wire') = Len(wire) + 1
      /\ \A i \in 1 .. Len(wire) : wire'[i] = wire[i]
      /\ wire'[Len(wire) + 1] = item
  BY AppendAt DEF SafeInv, TypeOK
<1>2. \A i \in 1 .. Len(wire') :
        IsNotification(wire'[i]) => i \in 1 .. Len(wire) /\ wire'[i] = wire[i]
  BY <1>1
<1>3. item.mt # "notification"
  BY DEF IsNotification
<1>4. EmittedNumbered' /\ KeptEmitted' /\ NotificationsInOrder'
  BY DEF SafeInv, EmittedInv, EmittedNumbered, KeptEmitted, NotificationsInOrder
<1>5. WireEmitted'
  BY <1>2 DEF SafeInv, EmittedInv, WireEmitted
<1>6. WireNotificationsInOrder'
  BY <1>1, <1>3, OrderedAppend DEF SafeInv, EmittedInv, WireNotificationsInOrder
<1>7. KeptBeforeWire'
  <2> SUFFICES ASSUME NEW i \in 1 .. Len(notifications)
               PROVE  AllAfter(wire', "notification", notifications[i].id)
    BY DEF KeptBeforeWire
  <2> QED
    BY <1>1, <1>3, AllAfterAppend DEF SafeInv, EmittedInv, KeptBeforeWire
<1> QED
  BY <1>4, <1>5, <1>6, <1>7 DEF EmittedInv

LEMMA RespondSafe == SafeInv /\ Respond => SafeInv'
<1> SUFFICES ASSUME SafeInv, Respond PROVE SafeInv'
  OBVIOUS
<1> DEFINE id == Head(unanswered)
           item == [ mt |-> "response", key |-> commands[id], id |-> id ]
<1>1. /\ UNCHANGED << client, decoded, emitted, faults >>
      /\ unanswered # << >>
      /\ wire' = Append(wire, item)
      /\ unanswered' = Tail(unanswered)
  BY DEF Respond
<1>2. UNCHANGED << pc, response, notifications, commands, outcomes >>
  BY <1>1 DEF client
<1>3. /\ OwedSent' /\ OwedInOrder'
      /\ ReturnedBeforeOwed' /\ HeldBeforeOwed'
      /\ \A i \in 1 .. Len(unanswered') : id < unanswered'[i]
      /\ id \in 1 .. Len(commands)
      /\ ExcusedIfLate(id)
      /\ \A e : BeforeOwed(e) =>
           /\ e.id < id
           /\ \A i \in 1 .. Len(unanswered') : e.id < unanswered'[i]
  BY <1>1, <1>2, OwedShrinks
<1>4. item \in Item /\ IsResponse(item) /\ ~IsNotification(item)
  BY <1>3 DEF SafeInv, TypeOK, Item, IsResponse, IsNotification
<1>5. item.mt = "response" /\ item.id = id /\ item.key = commands[id]
  OBVIOUS
<1> HIDE DEF item, id
<1>6. /\ wire \in Seq(Item)
      /\ wire' \in Seq(Item)
      /\ Len(wire) \in Nat
      /\ Len(wire') = Len(wire) + 1
      /\ \A i \in 1 .. Len(wire) : wire'[i] = wire[i]
      /\ wire'[Len(wire) + 1] = item
  BY <1>1, <1>4, AppendAt DEF SafeInv, TypeOK
<1>7. TypeOK'
  BY <1>1, <1>6, TailAt DEF SafeInv, TypeOK, client
<1>8. CallsInv' /\ ReturnedGood' /\ ReturnedInOrder' /\ HeldGood' /\ HeldLast'
  BY <1>1, <1>6, DeviceCalls
<1>9. WireAnswers'
  <2>1. \A i \in 1 .. Len(wire) : wire'[i] = wire[i]
    BY <1>6
  <2>2. ExcusedIfLate(id)
    BY <1>3
  <2> QED
    BY <1>2, <1>3, <1>5, <1>6, <2>2
       DEF SafeInv, OutstandingInv, WireAnswers, ExcusedIfLate, Excused
<1>10. ResponsesInOrder'
  <2>1. AllBefore(wire, "response", id)
    BY <1>3 DEF SafeInv, OutstandingInv, WireBeforeOwed, AllBefore, IsResponse
  <2> QED
    BY <1>1, <1>4, <1>5, <1>6, <2>1, OrderedAppend DEF SafeInv, OutstandingInv, ResponsesInOrder
<1>11. WireBeforeOwed'
  <2>1. ASSUME NEW i \in 1 .. Len(wire'), IsResponse(wire'[i])
        PROVE  \A j \in 1 .. Len(unanswered') : wire'[i].id < unanswered'[j]
    <3>1. CASE i \in 1 .. Len(wire)
      BY <1>3, <1>6, <2>1, <3>1 DEF SafeInv, OutstandingInv, WireBeforeOwed
    <3>2. CASE i = Len(wire) + 1
      BY <1>3, <1>5, <1>6, <3>2
    <3> QED
      BY <1>6, <3>1, <3>2
  <2> QED
    BY <2>1 DEF WireBeforeOwed, BeforeOwed
<1>12. ReturnedBeforeWire'
  <2> SUFFICES ASSUME NEW i \in 1 .. Len(outcomes), IsResponse(outcomes[i])
               PROVE  AllAfter(wire', "response", outcomes[i].id)
    BY <1>2 DEF ReturnedBeforeWire, BeforeWire
  <2>1. AllAfter(wire, "response", outcomes[i].id) /\ outcomes[i].id < id
    BY <1>3 DEF SafeInv, ReturnedInv, ReturnedBeforeWire, ReturnedBeforeOwed, BeforeWire
  <2> QED
    BY <1>1, <1>4, <1>5, <1>6, <2>1, AllAfterAppend
<1>13. HeldBeforeWire'
  <2> SUFFICES ASSUME Holding PROVE AllAfter(wire', "response", response.id)
    BY <1>2 DEF HeldBeforeWire, BeforeWire, Holding, Waiting
  <2>1. AllAfter(wire, "response", response.id) /\ response.id < id
    BY <1>3 DEF SafeInv, HeldInv, HeldBeforeWire, HeldBeforeOwed, BeforeWire
  <2> QED
    BY <1>1, <1>4, <1>5, <1>6, <2>1, AllAfterAppend
<1>14. EmittedInv'
  BY <1>1, <1>2, <1>4, NotANotification
<1> QED
  BY <1>3, <1>7, <1>8, <1>9, <1>10, <1>11, <1>12, <1>13, <1>14
     DEF SafeInv, OutstandingInv, ReturnedInv, HeldInv

LEMMA NotifySafe ==
  ASSUME SafeInv, NEW key \in Key, Notify(key)
  PROVE  SafeInv'
<1> DEFINE n == Len(emitted) + 1
           item == [ mt |-> "notification", key |-> key, id |-> n ]
<1>1. /\ UNCHANGED << client, decoded, unanswered, faults >>
      /\ emitted' = Append(emitted, item)
      /\ wire' = Append(wire, item)
  BY DEF Notify
<1>2. UNCHANGED notifications
  BY <1>1 DEF client
<1>3. /\ item \in Item
      /\ item.mt = "notification" /\ ~IsResponse(item) /\ item.id = n
      /\ Len(emitted) \in Nat
  BY DEF SafeInv, TypeOK, Item, IsResponse
<1> HIDE DEF item
<1>4. /\ wire' \in Seq(Item)
      /\ Len(wire) \in Nat
      /\ Len(wire') = Len(wire) + 1
      /\ \A i \in 1 .. Len(wire) : wire'[i] = wire[i]
      /\ wire'[Len(wire) + 1] = item
  BY <1>1, <1>3, AppendAt DEF SafeInv, TypeOK
<1>5. /\ emitted' \in Seq(Item)
      /\ Len(emitted') = n
      /\ \A i \in 1 .. Len(emitted) : emitted'[i] = emitted[i]
      /\ emitted'[n] = item
  BY <1>1, <1>3, AppendAt DEF SafeInv, TypeOK
<1>6. TypeOK'
  BY <1>1, <1>4, <1>5 DEF SafeInv, TypeOK, client
<1>7. CallsInv' /\ ReturnedGood' /\ ReturnedInOrder' /\ HeldGood' /\ HeldLast'
  BY <1>1, <1>4, DeviceCalls
<1>8. OutstandingInv' /\ ReturnedBeforeWire' /\ ReturnedBeforeOwed'
        /\ HeldBeforeWire' /\ HeldBeforeOwed'
  BY <1>1, <1>3, OtherItem
<1>9. EmittedNumbered'
  BY <1>3, <1>5 DEF SafeInv, EmittedInv, EmittedNumbered, IsNotification
<1>10. WireEmitted'
  <2>1. ASSUME NEW i \in 1 .. Len(wire'), IsNotification(wire'[i])
        PROVE  wire'[i].id \in 1 .. n /\ wire'[i] = emitted'[wire'[i].id]
    <3>1. CASE i \in 1 .. Len(wire)
      BY <1>3, <1>4, <1>5, <2>1, <3>1 DEF SafeInv, EmittedInv, WireEmitted
    <3>2. CASE i = Len(wire) + 1
      BY <1>3, <1>4, <1>5, <3>2
    <3> QED
      BY <1>4, <3>1, <3>2
  <2> QED
    BY <1>5, <2>1 DEF WireEmitted
<1>11. WireNotificationsInOrder'
  <2>1. AllBefore(wire, "notification", n)
    BY <1>3 DEF SafeInv, EmittedInv, WireEmitted, AllBefore, IsNotification
  <2> QED
    BY <1>1, <1>3, <2>1, OrderedAppend
       DEF SafeInv, TypeOK, EmittedInv, WireNotificationsInOrder
<1>12. KeptEmitted'
  BY <1>2, <1>3, <1>5 DEF SafeInv, EmittedInv, KeptEmitted
<1>13. KeptBeforeWire'
  <2> SUFFICES ASSUME NEW i \in 1 .. Len(notifications)
               PROVE  AllAfter(wire', "notification", notifications[i].id)
    BY <1>2 DEF KeptBeforeWire
  <2>1. AllAfter(wire, "notification", notifications[i].id) /\ notifications[i].id < n
    BY <1>3 DEF SafeInv, EmittedInv, KeptBeforeWire, KeptEmitted
  <2> QED
    BY <1>1, <1>3, <2>1, AllAfterAppend DEF SafeInv, TypeOK
<1>14. NotificationsInOrder'
  BY <1>2 DEF SafeInv, EmittedInv, NotificationsInOrder
<1> QED
  BY <1>6, <1>7, <1>8, <1>9, <1>10, <1>11, <1>12, <1>13, <1>14
     DEF SafeInv, ReturnedInv, HeldInv, EmittedInv

LEMMA GarbleSafe ==
  ASSUME SafeInv, NEW mt \in Broken, NEW key \in Key, Garble(mt, key)
  PROVE  SafeInv'
<1> DEFINE item == [ mt |-> mt, key |-> key, id |-> 0 ]
<1>1. /\ UNCHANGED << client, decoded, unanswered, emitted >>
      /\ faults' = faults + 1
      /\ wire' = Append(wire, item)
  BY DEF Garble
<1>2. UNCHANGED notifications
  BY <1>1 DEF client
<1>3. item \in Item /\ ~IsResponse(item) /\ ~IsNotification(item)
  BY DEF Item, IsResponse, IsNotification, Broken, Starts
<1> HIDE DEF item
<1>4. wire' \in Seq(Item) /\ Len(wire') >= Len(wire)
  BY <1>1, <1>3, AppendAt DEF SafeInv, TypeOK
<1>5. TypeOK'
  BY <1>1, <1>4 DEF SafeInv, TypeOK, client
<1>6. CallsInv' /\ ReturnedGood' /\ ReturnedInOrder' /\ HeldGood' /\ HeldLast'
  BY <1>1, <1>4, DeviceCalls
<1>7. OutstandingInv' /\ ReturnedBeforeWire' /\ ReturnedBeforeOwed'
        /\ HeldBeforeWire' /\ HeldBeforeOwed'
  BY <1>1, <1>3, OtherItem
<1>8. EmittedInv'
  BY <1>1, <1>2, <1>3, NotANotification
<1> QED
  BY <1>5, <1>6, <1>7, <1>8 DEF SafeInv, ReturnedInv, HeldInv

LEMMA IgnoreSafe == SafeInv /\ Ignore => SafeInv'
<1> SUFFICES ASSUME SafeInv, Ignore PROVE SafeInv'
  OBVIOUS
<1>1. /\ UNCHANGED << client, decoded, wire, emitted >>
      /\ faults' = faults + 1
      /\ unanswered # << >>
      /\ unanswered' = Tail(unanswered)
  BY DEF Ignore
<1>2. UNCHANGED << pc, response, notifications, commands, outcomes >>
  BY <1>1 DEF client
<1>3. /\ OwedSent' /\ OwedInOrder'
      /\ ReturnedBeforeOwed' /\ HeldBeforeOwed'
      /\ \A e : BeforeOwed(e) =>
           \A i \in 1 .. Len(unanswered') : e.id < unanswered'[i]
  BY <1>1, <1>2, OwedShrinks
<1>4. TypeOK'
  BY <1>1, TailAt DEF SafeInv, TypeOK, client
<1>5. CallsInv' /\ ReturnedGood' /\ ReturnedInOrder' /\ HeldGood' /\ HeldLast'
  BY <1>1, DeviceCalls DEF SafeInv, TypeOK
<1>6. WireAnswers' /\ ResponsesInOrder'
  BY <1>1, <1>2 DEF SafeInv, OutstandingInv, WireAnswers, ResponsesInOrder, Ordered,
                    ExcusedIfLate, Excused
<1>7. WireBeforeOwed'
  BY <1>1, <1>3 DEF SafeInv, OutstandingInv, WireBeforeOwed, BeforeOwed
<1>8. ReturnedBeforeWire' /\ HeldBeforeWire'
  BY <1>1, <1>2 DEF SafeInv, ReturnedInv, ReturnedBeforeWire, HeldInv, HeldBeforeWire,
                    BeforeWire, AllAfter, Holding, Waiting
<1>9. EmittedInv'
  BY <1>1, <1>2 DEF SafeInv, EmittedInv, EmittedNumbered, WireEmitted,
                    WireNotificationsInOrder, Ordered, KeptEmitted, KeptBeforeWire,
                    AllAfter, NotificationsInOrder
<1> QED
  BY <1>3, <1>4, <1>5, <1>6, <1>7, <1>8, <1>9
     DEF SafeInv, OutstandingInv, ReturnedInv, HeldInv

-----------------------------------------------------------------------------
(* The steps of the client.                                                 *)

LEMMA WholeWire ==
  ASSUME SafeInv, UNCHANGED wire
  PROVE  0 \in 0 .. Len(wire) /\ wire' = SubSeq(wire, 0 + 1, Len(wire))
  BY DEF SafeInv, TypeOK

\* A step that takes nothing off the wire, ends no call and begins none.
LEMMA QuietSafe ==
  ASSUME SafeInv, TypeOK', CallsInv',
         UNCHANGED << notifications, commands, outcomes, unanswered, emitted, wire >>,
         Holding' => Holding, UNCHANGED response
  PROVE  SafeInv'
<1>1. OutstandingInv' /\ ReturnedInv'
  BY WholeWire, RestOfWire
<1>2. HeldInv'
  BY WholeWire, RestOfWireHeld
<1>3. EmittedInv'
  BY WholeWire, RestOfWireEmitted
<1> QED
  BY <1>1, <1>2, <1>3 DEF SafeInv

\* A command is counted, whether its call goes on or is over at once.
LEMMA CommandCounted ==
  ASSUME SafeInv, pc = "ready", NEW key \in Key,
         commands' = Append(commands, key),
         unanswered' \in { unanswered, Append(unanswered, Len(commands')) },
         outcomes' \in { outcomes, Append(outcomes, LinkError) },
         UNCHANGED wire
  PROVE  /\ OutstandingInv' /\ ReturnedInv'
         /\ commands' \in Seq(Key) /\ Len(commands') = Len(commands) + 1
         /\ unanswered' \in Seq(Nat)
         /\ Len(outcomes) = Len(commands)
         /\ outcomes' \in Seq(Item \cup GaveUp)
         /\ outcomes' # outcomes => Len(outcomes') = Len(outcomes) + 1
<1> DEFINE c == Len(commands) + 1
<1>1. /\ commands' \in Seq(Key)
      /\ Len(commands) \in Nat
      /\ Len(commands') = c
      /\ \A i \in 1 .. Len(commands) : commands'[i] = commands[i]
      /\ commands'[c] = key
  BY AppendAt DEF SafeInv, TypeOK
<1>2. /\ unanswered' \in Seq(Nat)
      /\ Len(unanswered) \in Nat
      /\ Len(unanswered') \in { Len(unanswered), Len(unanswered) + 1 }
      /\ \A i \in 1 .. Len(unanswered) : unanswered'[i] = unanswered[i]
      /\ \A i \in 1 .. Len(unanswered') :
           i \in 1 .. Len(unanswered) \/ (i = Len(unanswered) + 1 /\ unanswered'[i] = c)
  <2>1. unanswered \in Seq(Nat) /\ Len(unanswered) \in Nat /\ c \in Nat
    BY <1>1 DEF SafeInv, TypeOK
  <2>2. CASE unanswered' = unanswered
    BY <2>1, <2>2
  <2>3. CASE unanswered' = Append(unanswered, c)
    BY <2>1, <2>3, AppendAt
  <2> QED
    BY <1>1, <2>2, <2>3
<1>3. Len(outcomes) = Len(commands) /\ outcomes \in Seq(Item \cup GaveUp)
  BY DEF SafeInv, TypeOK, CallsInv, Waiting
<1>4. /\ outcomes' \in Seq(Item \cup GaveUp)
      /\ Len(outcomes') \in { Len(outcomes), c }
      /\ outcomes' # outcomes => Len(outcomes') = Len(outcomes) + 1
      /\ \A i \in 1 .. Len(outcomes) : outcomes'[i] = outcomes[i]
      /\ \A i \in 1 .. Len(outcomes') :
           i \in 1 .. Len(outcomes) \/ (i = c /\ outcomes'[i] = LinkError)
  <2>1. LinkError \in Item \cup GaveUp
    BY DEF GaveUp
  <2> QED
    BY <1>1, <1>3, <2>1, AppendAt
<1>5. LinkError \in GaveUp /\ LinkError.mt # "response"
  BY DEF LinkError, GaveUp, TimedOut, FramingError
<1>6. ASSUME NEW id \in 1 .. Len(commands)
      PROVE  (Excused(id) => Excused(id)') /\ (ExcusedIfLate(id) => ExcusedIfLate(id)')
  BY <1>1, <1>3, <1>4 DEF Excused, ExcusedIfLate
<1>7. ASSUME NEW id, id = c
      PROVE  ExcusedIfLate(id)'
  BY <1>1, <1>3, <1>4, <1>5, <1>7 DEF ExcusedIfLate, Excused
<1>8. OwedSent'
  <2>1. ASSUME NEW i \in 1 .. Len(unanswered'), NEW id, id = unanswered'[i]
        PROVE  id \in 1 .. c /\ ExcusedIfLate(id)'
    <3>1. CASE i \in 1 .. Len(unanswered)
      BY <1>1, <1>2, <1>6, <2>1, <3>1 DEF SafeInv, OutstandingInv, OwedSent
    <3>2. CASE i = Len(unanswered) + 1 /\ unanswered'[i] = c
      <4>1. id = c
        BY <2>1, <3>2
      <4>2. ExcusedIfLate(id)'
        BY <1>7, <4>1
      <4> QED
        BY <1>1, <4>1, <4>2
    <3> QED
      BY <1>2, <3>1, <3>2
  <2> QED
    BY <1>1, <2>1 DEF OwedSent, ExcusedIfLate, Excused
<1>9. OwedInOrder'
  <2> SUFFICES ASSUME NEW i \in 1 .. Len(unanswered'), NEW j \in 1 .. Len(unanswered'), i < j
               PROVE  unanswered'[i] < unanswered'[j]
    BY DEF OwedInOrder
  <2>1. i \in 1 .. Len(unanswered)
    BY <1>2
  <2>2. CASE j \in 1 .. Len(unanswered)
    BY <1>2, <2>1, <2>2 DEF SafeInv, OutstandingInv, OwedInOrder
  <2>3. CASE unanswered'[j] = c
    BY <1>1, <1>2, <2>1, <2>3 DEF SafeInv, OutstandingInv, OwedSent
  <2> QED
    BY <1>2, <2>2, <2>3
<1>10. ASSUME NEW item, BeforeOwed(item), item.id \in 1 .. Len(commands)
       PROVE  BeforeOwed(item)'
  <2> SUFFICES ASSUME NEW j \in 1 .. Len(unanswered') PROVE item.id < unanswered'[j]
    BY DEF BeforeOwed
  <2>1. CASE j \in 1 .. Len(unanswered)
    BY <1>2, <1>10, <2>1 DEF BeforeOwed
  <2>2. CASE unanswered'[j] = c
    BY <1>1, <1>10, <2>2
  <2> QED
    BY <1>2, <2>1, <2>2
<1>11. WireAnswers'
  <2>1. ASSUME NEW i \in 1 .. Len(wire), NEW item, item = wire[i], IsResponse(item)
        PROVE  /\ item.id \in 1 .. c
               /\ item.key = commands'[item.id]
               /\ ExcusedIfLate(item.id)'
    <3>1. item.id \in 1 .. Len(commands) /\ item.key = commands[item.id] /\ ExcusedIfLate(item.id)
      BY <2>1 DEF SafeInv, OutstandingInv, WireAnswers
    <3> QED
      BY <1>1, <1>6, <3>1
  <2> QED
    BY <1>1, <2>1 DEF WireAnswers, ExcusedIfLate, Excused
<1>12. ResponsesInOrder'
  BY DEF SafeInv, OutstandingInv, ResponsesInOrder, Ordered
<1>13. WireBeforeOwed'
  <2>1. ASSUME NEW i \in 1 .. Len(wire), NEW item, item = wire[i], IsResponse(item)
        PROVE  BeforeOwed(item)'
    BY <1>10, <2>1 DEF SafeInv, OutstandingInv, WireAnswers, WireBeforeOwed
  <2> QED
    BY <2>1 DEF WireBeforeOwed, BeforeOwed
<1>14. ASSUME NEW i \in 1 .. Len(outcomes'), outcomes'[i].mt = "response"
       PROVE  i \in 1 .. Len(outcomes) /\ outcomes'[i] = outcomes[i] /\ IsResponse(outcomes[i])
  BY <1>4, <1>5, <1>14 DEF IsResponse
<1>15. ReturnedGood'
  <2> SUFFICES ASSUME NEW i \in 1 .. Len(outcomes'), IsResponse(outcomes[i])'
               PROVE  GoodFor(outcomes[i], i)'
    BY DEF ReturnedGood
  <2>1. i \in 1 .. Len(outcomes) /\ outcomes'[i] = outcomes[i] /\ IsResponse(outcomes[i])
    BY <1>14 DEF IsResponse
  <2>2. GoodFor(outcomes[i], i) /\ i \in 1 .. Len(commands)
    BY <1>3, <2>1 DEF SafeInv, ReturnedInv, ReturnedGood
  <2>3. outcomes[i].id \in 1 .. Len(commands)
    BY <1>1, <2>2 DEF GoodFor
  <2> DEFINE item == outcomes[i]
  <2>4. /\ IsResponse(item)' /\ item' = item
        /\ item.id \in 1 .. i
        /\ item.key = commands'[i]
        /\ commands'[item.id] = commands'[i]
    BY <1>1, <2>1, <2>2, <2>3 DEF GoodFor, IsResponse
  <2>5. item.id < i => Excused(item.id)
    BY <2>2 DEF GoodFor
  <2> HIDE DEF item
  <2>6. ASSUME NEW id, id = item.id, id < i
        PROVE  Excused(id)'
    BY <1>6, <2>3, <2>5, <2>6 DEF item
  <2>7. item'.id < i => Excused(item.id)'
    BY <2>4, <2>6 DEF Excused
  <2> QED
    BY <2>4, <2>7 DEF GoodFor, item, IsResponse
<1>16. ReturnedBeforeWire'
  BY <1>14 DEF SafeInv, ReturnedInv, ReturnedBeforeWire, BeforeWire, AllAfter, IsResponse
<1>17. ReturnedInOrder'
  <2> SUFFICES ASSUME NEW i \in 1 .. Len(outcomes'), NEW j \in 1 .. Len(outcomes'),
                      i < j, outcomes'[i].mt = "response", outcomes'[j].mt = "response"
               PROVE  outcomes'[i].id < outcomes'[j].id
    BY DEF ReturnedInOrder, Ordered
  <2> QED
    BY <1>14 DEF SafeInv, ReturnedInv, ReturnedInOrder, Ordered, IsResponse
<1>18. ReturnedBeforeOwed'
  <2>1. ASSUME NEW i \in 1 .. Len(outcomes'), NEW item, item = outcomes'[i], IsResponse(item)
        PROVE  BeforeOwed(item)'
    <3>1. i \in 1 .. Len(outcomes) /\ item = outcomes[i]
      BY <1>14, <2>1 DEF IsResponse
    <3>2. item.id \in 1 .. Len(commands)
      BY <1>1, <1>3, <2>1, <3>1 DEF SafeInv, ReturnedInv, ReturnedGood, GoodFor
    <3> QED
      BY <1>10, <2>1, <3>1, <3>2 DEF SafeInv, ReturnedInv, ReturnedBeforeOwed
  <2> QED
    BY <2>1 DEF ReturnedBeforeOwed, BeforeOwed
<1> QED
  BY <1>1, <1>2, <1>3, <1>4, <1>8, <1>9, <1>11, <1>12, <1>13, <1>15, <1>16, <1>17, <1>18
     DEF OutstandingInv, ReturnedInv

LEMMA SendCommandSafe ==
  ASSUME SafeInv, NEW key \in Key, SendCommand(key)
  PROVE  SafeInv'
<1>1. /\ pc = "ready"
      /\ commands' = Append(commands, key)
      /\ unanswered' = Append(unanswered, Len(commands'))
      /\ expired' = FALSE
      /\ response' = NoResponse
      /\ pc' = "awaitDeadline"
      /\ UNCHANGED << notifications, fresh, mark, pending, decoded, outcomes, wire,
                      emitted, faults >>
  BY DEF SendCommand
<1>2. /\ OutstandingInv' /\ ReturnedInv'
      /\ commands' \in Seq(Key) /\ Len(commands') = Len(commands) + 1
      /\ unanswered' \in Seq(Nat)
      /\ Len(outcomes) = Len(commands)
  BY <1>1, CommandCounted
<1>3. TypeOK'
  BY <1>1, <1>2 DEF SafeInv, TypeOK
<1>4. CallsInv'
  BY <1>1, <1>2 DEF SafeInv, TypeOK, CallsInv, Waiting
<1>5. HeldInv'
  BY <1>1 DEF HeldInv, HeldGood, HeldBeforeWire, HeldBeforeOwed, HeldLast, Holding
<1>6. EmittedInv'
  BY <1>1, WholeWire, RestOfWireEmitted
<1> QED
  BY <1>2, <1>3, <1>4, <1>5, <1>6 DEF SafeInv

LEMMA SendCommandRaisesSafe ==
  ASSUME SafeInv, NEW key \in Key, SendCommandRaises(key)
  PROVE  SafeInv'
<1>1. /\ pc = "ready"
      /\ faults' = faults + 1
      /\ commands' = Append(commands, key)
      /\ unanswered' \in { unanswered, Append(unanswered, Len(commands')) }
      /\ outcomes' = Append(outcomes, LinkError)
      /\ pc' = "ready"
      /\ UNCHANGED << expired, response, notifications, fresh, mark, pending, decoded,
                      wire, emitted >>
  BY DEF SendCommandRaises, Finish
<1>2. /\ OutstandingInv' /\ ReturnedInv'
      /\ commands' \in Seq(Key) /\ Len(commands') = Len(commands) + 1
      /\ unanswered' \in Seq(Nat)
      /\ Len(outcomes) = Len(commands)
      /\ outcomes' \in Seq(Item \cup GaveUp)
  BY <1>1, CommandCounted
<1>3. Len(outcomes') = Len(outcomes) + 1
  BY <1>1 DEF SafeInv, TypeOK
<1>4. TypeOK'
  BY <1>1, <1>2 DEF SafeInv, TypeOK
<1>5. CallsInv'
  BY <1>1, <1>2, <1>3 DEF SafeInv, TypeOK, CallsInv, Waiting
<1>6. HeldInv'
  BY <1>1 DEF HeldInv, HeldGood, HeldBeforeWire, HeldBeforeOwed, HeldLast, Holding, Waiting
<1>7. EmittedInv'
  BY <1>1, WholeWire, RestOfWireEmitted
<1> QED
  BY <1>2, <1>4, <1>5, <1>6, <1>7 DEF SafeInv

LEMMA AwaitDeadlineSafe == SafeInv /\ AwaitDeadline => SafeInv'
<1> SUFFICES ASSUME SafeInv, AwaitDeadline PROVE SafeInv'
  OBVIOUS
<1>1. /\ pc = "awaitDeadline"
      /\ Waiting
      /\ UNCHANGED << expired, response, notifications, fresh, mark, pending, commands,
                      unanswered, emitted, faults, decoded, wire >>
  BY DEF AwaitDeadline, Waiting, device
<1>2. CASE pc' = "awaitRead" /\ UNCHANGED outcomes
  <2>1. TypeOK' /\ CallsInv' /\ (Holding' => Holding)
    BY <1>1, <1>2 DEF SafeInv, TypeOK, CallsInv, Waiting, Holding
  <2> QED
    BY <1>1, <1>2, <2>1, QuietSafe
<1>3. CASE Finish(TimedOut)
  <2>1. pc' = "ready" /\ outcomes' = Append(outcomes, TimedOut)
    BY <1>3 DEF Finish
  <2>2. TimedOut \in GaveUp /\ TimedOut \in Item \cup GaveUp
    BY DEF GaveUp
  <2>3. OutstandingInv' /\ ReturnedInv'
    BY <1>1, <2>1, <2>2, WholeWire, FinishSafe
  <2>4. /\ outcomes' \in Seq(Item \cup GaveUp)
        /\ Len(outcomes') = Len(outcomes) + 1
    BY <2>1, <2>2, AppendAt DEF SafeInv, TypeOK
  <2>5. TypeOK'
    BY <1>1, <2>1, <2>4 DEF SafeInv, TypeOK
  <2>6. CallsInv'
    BY <1>1, <2>1, <2>4 DEF SafeInv, TypeOK, CallsInv, Waiting
  <2>7. HeldInv'
    BY <2>1 DEF HeldInv, HeldGood, HeldBeforeWire, HeldBeforeOwed, HeldLast, Holding, Waiting
  <2>8. EmittedInv'
    BY <1>1, WholeWire, RestOfWireEmitted
  <2> QED
    BY <2>3, <2>5, <2>6, <2>7, <2>8 DEF SafeInv
<1> QED
  BY <1>2, <1>3 DEF AwaitDeadline

LEMMA AwaitBatchEndSafe == SafeInv /\ AwaitBatchEnd => SafeInv'
<1> SUFFICES ASSUME SafeInv, AwaitBatchEnd PROVE SafeInv'
  OBVIOUS
<1>1. /\ pc = "awaitBatch"
      /\ Waiting
      /\ decoded = 0
      /\ UNCHANGED << expired, response, notifications, fresh, mark, pending, commands,
                      unanswered, emitted, faults, decoded, wire >>
  BY DEF AwaitBatchEnd, Waiting, device
<1>2. CASE response = NoResponse /\ pc' = "awaitDeadline" /\ UNCHANGED outcomes
  <2>1. TypeOK' /\ CallsInv' /\ (Holding' => Holding)
    BY <1>1, <1>2 DEF SafeInv, TypeOK, CallsInv, Waiting, Holding
  <2> QED
    BY <1>1, <1>2, <2>1, QuietSafe
<1>3. CASE response # NoResponse /\ Finish(response)
  <2>1. pc' = "ready" /\ outcomes' = Append(outcomes, response) /\ Holding
    BY <1>1, <1>3 DEF Finish, Holding
  <2>2. response \in Item \cup GaveUp
    BY <1>3 DEF SafeInv, TypeOK
  <2>3. OutstandingInv' /\ ReturnedInv'
    BY <1>1, <2>1, <2>2, WholeWire, FinishSafe
  <2>4. /\ outcomes' \in Seq(Item \cup GaveUp)
        /\ Len(outcomes') = Len(outcomes) + 1
    BY <2>1, <2>2, AppendAt DEF SafeInv, TypeOK
  <2>5. TypeOK'
    BY <1>1, <2>1, <2>4 DEF SafeInv, TypeOK
  <2>6. CallsInv'
    BY <1>1, <2>1, <2>4 DEF SafeInv, TypeOK, CallsInv, Waiting
  <2>7. HeldInv'
    BY <2>1 DEF HeldInv, HeldGood, HeldBeforeWire, HeldBeforeOwed, HeldLast, Holding, Waiting
  <2>8. EmittedInv'
    BY <1>1, WholeWire, RestOfWireEmitted
  <2> QED
    BY <2>3, <2>5, <2>6, <2>7, <2>8 DEF SafeInv
<1> QED
  BY <1>2, <1>3 DEF AwaitBatchEnd

\* What feed raises at takes a beginning of the wire with it, or nothing.
LEMMA RaisesDrops ==
  ASSUME SafeInv, FeedRaises
  PROVE  \E k \in 0 .. Len(wire) :
           /\ wire' = SubSeq(wire, k + 1, Len(wire))
           /\ wire' \in Seq(Item)
           /\ decoded' = 0
           /\ UNCHANGED pending
<1>1. /\ wire \in Seq(Item)
      /\ Len(wire) \in Nat
      /\ decoded \in Nat
      /\ decoded < Len(wire)
      /\ decoded' = 0
      /\ UNCHANGED pending
  BY DEF SafeInv, TypeOK, FeedRaises
<1>2. PICK gone \in { decoded, decoded + 1 } : wire' = SubSeq(wire, gone + 1, Len(wire))
  BY DEF FeedRaises
<1>3. gone \in 0 .. Len(wire)
  BY <1>1
<1> QED
  BY <1>1, <1>2, <1>3, DropAt

\* So does what read raises at.
LEMMA ReadDrops ==
  ASSUME SafeInv, ReadRaises
  PROVE  \E k \in 0 .. Len(wire) :
           /\ wire' = SubSeq(wire, k + 1, Len(wire))
           /\ wire' \in Seq(Item)
           /\ decoded' = 0
           /\ UNCHANGED pending
<1>1. /\ wire \in Seq(Item)
      /\ decoded' = 0
      /\ UNCHANGED pending
  BY DEF SafeInv, TypeOK, ReadRaises
<1>2. PICK k \in 0 .. Len(wire) : wire' = SubSeq(wire, k + 1, Len(wire))
  BY DEF ReadRaises
<1> QED
  BY <1>1, <1>2, DropAt

LEMMA AwaitReadRaisesSafe == SafeInv /\ AwaitReadRaises => SafeInv'
<1> SUFFICES ASSUME SafeInv, AwaitReadRaises PROVE SafeInv'
  OBVIOUS
<1>1. /\ pc = "awaitRead"
      /\ Waiting
      /\ ReadRaises
      /\ faults' = faults + 1
      /\ outcomes' = Append(outcomes, LinkError)
      /\ pc' = "ready"
      /\ UNCHANGED << expired, response, notifications, fresh, mark, commands,
                      unanswered, emitted >>
  BY DEF AwaitReadRaises, ReadRaises, Finish, Waiting
<1>2. PICK k \in 0 .. Len(wire) : /\ wire' = SubSeq(wire, k + 1, Len(wire))
                                  /\ wire' \in Seq(Item)
                                  /\ decoded' = 0
                                  /\ UNCHANGED pending
  BY <1>1, ReadDrops
<1>3. LinkError \in GaveUp /\ LinkError \in Item \cup GaveUp
  BY DEF GaveUp
<1>4. OutstandingInv' /\ ReturnedInv'
  BY <1>1, <1>2, <1>3, FinishSafe
<1>5. /\ outcomes' \in Seq(Item \cup GaveUp)
      /\ Len(outcomes') = Len(outcomes) + 1
  BY <1>1, <1>3, AppendAt DEF SafeInv, TypeOK
<1>6. TypeOK'
  BY <1>1, <1>2, <1>5 DEF SafeInv, TypeOK
<1>7. CallsInv'
  BY <1>1, <1>2, <1>5 DEF SafeInv, TypeOK, CallsInv, Waiting
<1>8. HeldInv'
  BY <1>1 DEF HeldInv, HeldGood, HeldBeforeWire, HeldBeforeOwed, HeldLast, Holding, Waiting
<1>9. EmittedInv'
  BY <1>1, <1>2, RestOfWireEmitted
<1> QED
  BY <1>4, <1>6, <1>7, <1>8, <1>9 DEF SafeInv

LEMMA PollReadRaisesSafe == SafeInv /\ PollReadRaises => SafeInv'
<1> SUFFICES ASSUME SafeInv, PollReadRaises PROVE SafeInv'
  OBVIOUS
<1>1. /\ pc = "pollRead"
      /\ ReadRaises
      /\ faults' = faults + 1
      /\ pc' = "ready"
      /\ UNCHANGED << expired, response, notifications, fresh, mark, commands,
                      outcomes, unanswered, emitted >>
  BY DEF PollReadRaises, ReadRaises
<1>2. PICK k \in 0 .. Len(wire) : /\ wire' = SubSeq(wire, k + 1, Len(wire))
                                  /\ wire' \in Seq(Item)
                                  /\ decoded' = 0
                                  /\ UNCHANGED pending
  BY <1>1, ReadDrops
<1>3. TypeOK'
  BY <1>1, <1>2 DEF SafeInv, TypeOK
<1>4. CallsInv'
  BY <1>1, <1>2 DEF SafeInv, TypeOK, CallsInv, Waiting
<1>5. Holding' => Holding
  BY <1>1 DEF Waiting, Holding
<1>6. OutstandingInv' /\ ReturnedInv'
  BY <1>1, <1>2, RestOfWire
<1>7. HeldInv'
  BY <1>1, <1>2, <1>5, RestOfWireHeld
<1>8. EmittedInv'
  BY <1>1, <1>2, RestOfWireEmitted
<1> QED
  BY <1>3, <1>4, <1>6, <1>7, <1>8 DEF SafeInv

LEMMA AwaitFeedRaisesSafe == SafeInv /\ AwaitFeedRaises => SafeInv'
<1> SUFFICES ASSUME SafeInv, AwaitFeedRaises PROVE SafeInv'
  OBVIOUS
<1>1. /\ pc = "awaitRead"
      /\ Waiting
      /\ FeedRaises
      /\ outcomes' = Append(outcomes, FramingError)
      /\ pc' = "ready"
      /\ UNCHANGED << expired, response, notifications, fresh, mark, commands,
                      unanswered, emitted, faults >>
  BY DEF AwaitFeedRaises, Finish, Waiting, device
<1>2. PICK k \in 0 .. Len(wire) : /\ wire' = SubSeq(wire, k + 1, Len(wire))
                                  /\ wire' \in Seq(Item)
                                  /\ decoded' = 0
                                  /\ UNCHANGED pending
  BY <1>1, RaisesDrops
<1>3. FramingError \in GaveUp /\ FramingError \in Item \cup GaveUp
  BY DEF GaveUp
<1>4. OutstandingInv' /\ ReturnedInv'
  BY <1>1, <1>2, <1>3, FinishSafe
<1>5. /\ outcomes' \in Seq(Item \cup GaveUp)
      /\ Len(outcomes') = Len(outcomes) + 1
  BY <1>1, <1>3, AppendAt DEF SafeInv, TypeOK
<1>6. TypeOK'
  BY <1>1, <1>2, <1>5 DEF SafeInv, TypeOK
<1>7. CallsInv'
  BY <1>1, <1>2, <1>5 DEF SafeInv, TypeOK, CallsInv, Waiting
<1>8. HeldInv'
  BY <1>1 DEF HeldInv, HeldGood, HeldBeforeWire, HeldBeforeOwed, HeldLast, Holding, Waiting
<1>9. EmittedInv'
  BY <1>1, <1>2, RestOfWireEmitted
<1> QED
  BY <1>4, <1>6, <1>7, <1>8, <1>9 DEF SafeInv

LEMMA PollFeedRaisesSafe == SafeInv /\ PollFeedRaises => SafeInv'
<1> SUFFICES ASSUME SafeInv, PollFeedRaises PROVE SafeInv'
  OBVIOUS
<1>1. /\ pc = "pollRead"
      /\ FeedRaises
      /\ pc' = "ready"
      /\ UNCHANGED << expired, response, notifications, fresh, mark, commands,
                      outcomes, unanswered, emitted, faults >>
  BY DEF PollFeedRaises, device
<1>2. PICK k \in 0 .. Len(wire) : /\ wire' = SubSeq(wire, k + 1, Len(wire))
                                  /\ wire' \in Seq(Item)
                                  /\ decoded' = 0
                                  /\ UNCHANGED pending
  BY <1>1, RaisesDrops
<1>3. TypeOK' /\ CallsInv' /\ (Holding' => Holding)
  <2>1. TypeOK'
    BY <1>1, <1>2 DEF SafeInv, TypeOK
  <2>2. CallsInv'
    BY <1>1, <1>2 DEF SafeInv, TypeOK, CallsInv, Waiting
  <2>3. Holding' => Holding
    BY <1>1 DEF Waiting, Holding
  <2> QED
    BY <2>1, <2>2, <2>3
<1>4. OutstandingInv' /\ ReturnedInv'
  BY <1>1, <1>2, RestOfWire
<1>5. HeldInv'
  BY <1>1, <1>2, <1>3, RestOfWireHeld
<1>6. EmittedInv'
  BY <1>1, <1>2, RestOfWireEmitted
<1> QED
  BY <1>3, <1>4, <1>5, <1>6 DEF SafeInv

\* The head of the wire goes to the list of notifications if it is one.
LEMMA TakeEmitted ==
  ASSUME SafeInv, wire # << >>, wire' = Tail(wire), UNCHANGED emitted,
         \/ notifications' = notifications
         \/ IsNotification(Head(wire)) /\ notifications' = Append(notifications, Head(wire))
  PROVE  EmittedInv'
<1>1. /\ wire \in Seq(Item)
      /\ Len(wire) \in Nat \ {0}
      /\ Head(wire) = wire[1]
      /\ Head(wire) \in Item
      /\ 1 \in 0 .. Len(wire)
      /\ wire' = SubSeq(wire, 1 + 1, Len(wire))
  BY TailAt DEF SafeInv, TypeOK
<1>2. CASE notifications' = notifications
  BY <1>1, <1>2, RestOfWireEmitted
<1>3. CASE IsNotification(Head(wire)) /\ notifications' = Append(notifications, Head(wire))
  <2> DEFINE head == Head(wire)
  <2>1. /\ notifications \in Seq(Item)
        /\ Len(notifications) \in Nat
        /\ Len(notifications') = Len(notifications) + 1
        /\ \A i \in 1 .. Len(notifications) : notifications'[i] = notifications[i]
        /\ notifications'[Len(notifications) + 1] = head
    BY <1>1, <1>3, AppendAt DEF SafeInv, TypeOK
  <2>2. head.mt = "notification" /\ head.id \in 1 .. Len(emitted) /\ head = emitted[head.id]
    BY <1>1, <1>3 DEF SafeInv, EmittedInv, WireEmitted, IsNotification
  <2>3. \A i \in 1 .. Len(notifications) : notifications[i].id < head.id
    BY <1>1, <2>2 DEF SafeInv, EmittedInv, KeptBeforeWire, AllAfter
  <2>4. AllAfter(wire', "notification", head.id)
    BY <1>1, <2>2, HeadFirst DEF SafeInv, EmittedInv, WireNotificationsInOrder
  <2> HIDE DEF head
  <2>5. /\ Len(wire') = Len(wire) - 1
        /\ \A i \in 1 .. Len(wire') : i + 1 \in 1 .. Len(wire) /\ wire'[i] = wire[i + 1]
    BY <1>1, DropAt
  <2>6. EmittedNumbered'
    BY DEF SafeInv, EmittedInv, EmittedNumbered
  <2>7. WireEmitted'
    BY <2>5 DEF SafeInv, EmittedInv, WireEmitted
  <2>8. WireNotificationsInOrder'
    BY <1>1, OrderedDrop DEF SafeInv, EmittedInv, WireNotificationsInOrder
  <2>9. KeptEmitted'
    BY <2>1, <2>2 DEF SafeInv, EmittedInv, KeptEmitted
  <2>10. KeptBeforeWire'
    <3> SUFFICES ASSUME NEW i \in 1 .. Len(notifications')
                 PROVE  AllAfter(wire', "notification", notifications'[i].id)
      BY DEF KeptBeforeWire
    <3>1. CASE i \in 1 .. Len(notifications)
      <4>1. AllAfter(wire, "notification", notifications[i].id)
        BY <3>1 DEF SafeInv, EmittedInv, KeptBeforeWire
      <4>2. AllAfter(wire', "notification", notifications[i].id)
        BY <1>1, <4>1, AllAfterDrop
      <4> QED
        BY <2>1, <3>1, <4>2
    <3>2. CASE i = Len(notifications) + 1
      BY <2>1, <2>4, <3>2
    <3> QED
      BY <2>1, <3>1, <3>2
  <2>11. NotificationsInOrder'
    <3> SUFFICES ASSUME NEW i \in 1 .. Len(notifications'),
                        NEW j \in 1 .. Len(notifications'), i < j
                 PROVE  notifications'[i].id < notifications'[j].id
      BY DEF NotificationsInOrder
    <3>1. CASE j \in 1 .. Len(notifications)
      BY <2>1, <3>1 DEF SafeInv, EmittedInv, NotificationsInOrder
    <3>2. CASE j = Len(notifications) + 1
      BY <2>1, <2>3, <3>2
    <3> QED
      BY <2>1, <3>1, <3>2
  <2> QED
    BY <2>6, <2>7, <2>8, <2>9, <2>10, <2>11 DEF EmittedInv
<1> QED
  BY <1>2, <1>3

LEMMA TakeOutstanding ==
  ASSUME SafeInv, wire # << >>, wire' = Tail(wire),
         UNCHANGED << commands, outcomes, unanswered >>
  PROVE  /\ OutstandingInv' /\ ReturnedInv'
         /\ UNCHANGED response /\ (Holding' => Holding) => HeldInv'
         /\ wire' \in Seq(Item)
         /\ Len(wire') = Len(wire) - 1
         /\ Head(wire) \in Item
<1>1. /\ wire \in Seq(Item)
      /\ Len(wire) \in Nat \ {0}
      /\ Head(wire) \in Item
      /\ 1 \in 0 .. Len(wire)
      /\ wire' = SubSeq(wire, 1 + 1, Len(wire))
  BY TailAt DEF SafeInv, TypeOK
<1>2. OutstandingInv' /\ ReturnedInv'
  BY <1>1, RestOfWire
<1>3. UNCHANGED response /\ (Holding' => Holding) => HeldInv'
  BY <1>1, RestOfWireHeld
<1> QED
  BY <1>1, <1>2, <1>3, DropAt

LEMMA AwaitMessageSafe == SafeInv /\ AwaitMessage => SafeInv'
<1> SUFFICES ASSUME SafeInv, AwaitMessage PROVE SafeInv'
  OBVIOUS
<1> DEFINE head == Head(wire)
           c == Len(commands)
<1>1. /\ pc = "awaitBatch"
      /\ Waiting
      /\ decoded > 0
      /\ decoded' = decoded - 1
      /\ wire' = Tail(wire)
      /\ response' = IF Matches(head) THEN head ELSE response
      /\ notifications' = IF ~Matches(head) /\ head.mt = "notification"
                          THEN Append(notifications, head) ELSE notifications
      /\ UNCHANGED << pc, expired, fresh, mark, pending, commands, outcomes, unanswered,
                      emitted, faults >>
  BY DEF AwaitMessage, TakeMessage, Waiting, device
<1>2. /\ wire \in Seq(Item)
      /\ wire # << >>
      /\ decoded \in Nat
      /\ decoded <= Len(wire)
  BY <1>1 DEF SafeInv, TypeOK, CallsInv
<1>3. /\ OutstandingInv' /\ ReturnedInv'
      /\ UNCHANGED response /\ (Holding' => Holding) => HeldInv'
      /\ wire' \in Seq(Item)
      /\ Len(wire') = Len(wire) - 1
      /\ head \in Item
  BY <1>1, <1>2, TakeOutstanding
<1>4. notifications' \in Seq(Item)
  BY <1>1, <1>3 DEF SafeInv, TypeOK
<1>5. TypeOK'
  BY <1>1, <1>2, <1>3, <1>4 DEF SafeInv, TypeOK
<1>6. CallsInv'
  BY <1>1, <1>2, <1>3 DEF SafeInv, CallsInv, Waiting, TypeOK
<1>7. EmittedInv'
  BY <1>1, <1>2, TakeEmitted DEF IsNotification
<1>8. HeldInv'
  <2>1. CASE ~Matches(head)
    <3>1. UNCHANGED response /\ (Holding' => Holding)
      BY <1>1, <2>1 DEF Holding, Waiting
    <3> QED
      BY <1>3, <3>1
  <2>2. CASE Matches(head)
    <3>1. /\ response' = head
          /\ head.mt = "response"
          /\ head.key = commands[c]
          /\ head = wire[1]
          /\ 1 \in 1 .. Len(wire)
      BY <1>1, <1>2, <2>2, TailAt DEF Matches, Current
    <3>2. head.id \in 1 .. c /\ head.key = commands[head.id] /\ ExcusedIfLate(head.id)
      BY <3>1 DEF SafeInv, OutstandingInv, WireAnswers, IsResponse
    <3>3. Len(outcomes) = c - 1 /\ c \in Nat
      BY <1>1 DEF SafeInv, TypeOK, CallsInv
    <3>4. GoodFor(head, c)
      BY <3>1, <3>2, <3>3 DEF GoodFor, ExcusedIfLate, IsResponse
    <3>5. AllAfter(wire', "response", head.id)
      BY <1>1, <1>2, <3>1, HeadFirst DEF SafeInv, OutstandingInv, ResponsesInOrder
    <3>6. BeforeOwed(head)
      BY <3>1 DEF SafeInv, OutstandingInv, WireBeforeOwed, IsResponse
    <3>7. AllBefore(outcomes, "response", head.id)
      BY <3>1 DEF SafeInv, ReturnedInv, ReturnedBeforeWire, BeforeWire, AllAfter,
                  AllBefore, IsResponse
    <3> HIDE DEF head
    <3>8. HeldGood'
      BY <1>1, <3>1, <3>4 DEF HeldGood, GoodFor, Excused
    <3>9. HeldBeforeWire'
      BY <3>1, <3>5 DEF HeldBeforeWire, BeforeWire
    <3>10. HeldBeforeOwed'
      BY <1>1, <3>1, <3>6 DEF HeldBeforeOwed, BeforeOwed
    <3>11. HeldLast'
      BY <1>1, <3>1, <3>7 DEF HeldLast, AllBefore
    <3> QED
      BY <3>8, <3>9, <3>10, <3>11 DEF HeldInv
  <2> QED
    BY <2>1, <2>2
<1> QED
  BY <1>3, <1>5, <1>6, <1>7, <1>8 DEF SafeInv

LEMMA PollMessageSafe == SafeInv /\ PollMessage => SafeInv'
<1> SUFFICES ASSUME SafeInv, PollMessage PROVE SafeInv'
  OBVIOUS
<1> DEFINE head == Head(wire)
<1>1. /\ pc = "pollBatch"
      /\ decoded > 0
      /\ decoded' = decoded - 1
      /\ wire' = Tail(wire)
      /\ \/ /\ head.mt = "notification"
            /\ notifications' = Append(notifications, head)
            /\ fresh' = Append(fresh, head)
         \/ UNCHANGED << notifications, fresh >>
      /\ UNCHANGED << pc, expired, response, mark, pending, commands, outcomes,
                      unanswered, emitted, faults >>
  BY DEF PollMessage, TakeMessage, device
<1>2. /\ wire \in Seq(Item)
      /\ wire # << >>
      /\ decoded \in Nat
      /\ decoded <= Len(wire)
  BY <1>1 DEF SafeInv, TypeOK, CallsInv
<1>3. Holding' => Holding
  BY <1>1 DEF Holding, Waiting
<1>4. /\ OutstandingInv' /\ ReturnedInv' /\ HeldInv'
      /\ wire' \in Seq(Item)
      /\ Len(wire') = Len(wire) - 1
      /\ head \in Item
  BY <1>1, <1>2, <1>3, TakeOutstanding
<1>5. notifications' \in Seq(Item) /\ fresh' \in Seq(Item)
  <2>1. notifications \in Seq(Item) /\ fresh \in Seq(Item)
    BY DEF SafeInv, TypeOK
  <2>2. /\ Append(notifications, head) \in Seq(Item)
        /\ Append(fresh, head) \in Seq(Item)
    BY <1>4, <2>1, AppendAt
  <2> HIDE DEF head
  <2> QED
    BY <1>1, <2>1, <2>2
<1>6. TypeOK'
  BY <1>1, <1>2, <1>4, <1>5 DEF SafeInv, TypeOK
<1>7. CallsInv'
  BY <1>1, <1>2, <1>4 DEF SafeInv, CallsInv, Waiting, TypeOK
<1>8. EmittedInv'
  BY <1>1, <1>2, TakeEmitted DEF IsNotification
<1> QED
  BY <1>4, <1>6, <1>7, <1>8 DEF SafeInv

\* The other steps move the program counter, the clock or the boundary of what
\* is decoded.
LEMMA DecodeSafe ==
  ASSUME SafeInv, AwaitDecode \/ PollDecode
  PROVE  SafeInv'
<1>1. /\ pc \in { "awaitRead", "pollRead" }
      /\ decoded < Len(wire)
      /\ decoded' = decoded + 1
      /\ pending' \in { wire[decoded + 1], NoFragment }
      /\ UNCHANGED << pc, expired, response, notifications, fresh, mark, commands,
                      outcomes, wire, unanswered, emitted, faults >>
  BY DEF AwaitDecode, PollDecode, DecodeItem, device
<1>2. decoded + 1 \in 1 .. Len(wire) /\ wire[decoded + 1] \in Item
  BY <1>1 DEF SafeInv, TypeOK
<1>3. TypeOK'
  BY <1>1, <1>2 DEF SafeInv, TypeOK
<1>4. CallsInv'
  BY <1>1, <1>2 DEF SafeInv, CallsInv, Waiting
<1>5. Holding' => Holding
  BY <1>1 DEF Waiting, Holding
<1> QED
  BY <1>1, <1>3, <1>4, <1>5, QuietSafe

\* A step that moves only the program counter, the clock, or what a call of
\* poll_notifications begins with.
LEMMA ControlSafe ==
  ASSUME SafeInv,
         UNCHANGED << response, notifications, pending, commands, outcomes, decoded,
                      wire, unanswered, emitted, faults >>,
         pc' \in { "ready", "awaitDeadline", "awaitRead", "awaitBatch",
                   "pollRead", "pollBatch", "pollDeadline" },
         expired' \in BOOLEAN, fresh' \in Seq(Item), mark' \in Nat,
         Waiting' <=> Waiting,
         pc' \notin { "awaitRead", "awaitBatch", "pollRead", "pollBatch" } => decoded = 0,
         pc' \in { "awaitDeadline", "awaitRead" } => response = NoResponse
  PROVE  SafeInv'
<1>1. TypeOK'
  BY DEF SafeInv, TypeOK
<1>2. CallsInv'
  BY DEF SafeInv, CallsInv
<1>3. Holding' => Holding
  BY DEF Holding
<1> QED
  BY <1>1, <1>2, <1>3, QuietSafe

LEMMA AwaitFeedReturnsSafe == SafeInv /\ AwaitFeedReturns => SafeInv'
<1> SUFFICES ASSUME SafeInv, AwaitFeedReturns PROVE SafeInv'
  OBVIOUS
<1>1. /\ pc = "awaitRead"
      /\ response' = NoResponse
      /\ pc' = "awaitBatch"
      /\ UNCHANGED << expired, notifications, fresh, mark, pending, commands, outcomes,
                      decoded, wire, unanswered, emitted, faults >>
  BY DEF AwaitFeedReturns, device
<1>2. response = NoResponse
  BY <1>1 DEF SafeInv, CallsInv
<1>3. Waiting /\ Waiting'
  BY <1>1 DEF Waiting
<1>4. expired' \in BOOLEAN /\ fresh' \in Seq(Item) /\ mark' \in Nat
  BY <1>1 DEF SafeInv, TypeOK
<1> QED
  BY <1>1, <1>2, <1>3, <1>4, ControlSafe

LEMMA PollControlSafe ==
  ASSUME SafeInv, StartPoll \/ PollFeedReturns \/ PollBatchEnd \/ PollDeadline
  PROVE  SafeInv'
<1>1. /\ UNCHANGED << response, notifications, pending, commands, outcomes, decoded,
                      wire, unanswered, emitted, faults >>
      /\ expired' \in {expired, FALSE}
      /\ fresh' \in {fresh, << >>}
      /\ mark' \in {mark, Len(notifications)}
      /\ pc \in { "ready", "pollRead", "pollBatch", "pollDeadline" }
      /\ pc' \in { "ready", "pollRead", "pollBatch", "pollDeadline" }
      /\ pc' \in { "ready", "pollDeadline" } =>
           pc = "pollDeadline" \/ decoded = 0
  BY DEF StartPoll, PollFeedReturns, PollBatchEnd, PollDeadline, device
<1>2. /\ ~Waiting /\ ~Waiting'
      /\ pc' \in { "ready", "pollDeadline" } => decoded = 0
  BY <1>1 DEF Waiting, SafeInv, CallsInv
<1>3. expired' \in BOOLEAN /\ mark' \in Nat
  <2>1. expired \in BOOLEAN
    BY DEF SafeInv, TypeOK
  <2>2. expired' \in BOOLEAN
    BY <1>1, <2>1, Zenon
  <2>3. mark \in Nat /\ Len(notifications) \in Nat
    BY DEF SafeInv, TypeOK
  <2> QED
    BY <1>1, <2>2, <2>3
<1>4. fresh' \in Seq(Item)
  <2>1. fresh \in Seq(Item)
    BY DEF SafeInv, TypeOK
  <2>2. << >> \in Seq(Item)
    OBVIOUS
  <2> QED
    BY <1>1, <2>1, <2>2
<1>5. /\ pc' \in { "ready", "awaitDeadline", "awaitRead", "awaitBatch",
                   "pollRead", "pollBatch", "pollDeadline" }
      /\ pc' \notin { "awaitRead", "awaitBatch", "pollRead", "pollBatch" } => decoded = 0
      /\ pc' \in { "awaitDeadline", "awaitRead" } => response = NoResponse
      /\ Waiting' <=> Waiting
  BY <1>1, <1>2
<1>6. UNCHANGED << response, notifications, pending, commands, outcomes, decoded,
                   wire, unanswered, emitted, faults >>
  BY <1>1
<1> QED
  BY <1>3, <1>4, <1>5, <1>6, ControlSafe

LEMMA ClockSafe == SafeInv /\ DeadlinePasses => SafeInv'
<1> SUFFICES ASSUME SafeInv, DeadlinePasses PROVE SafeInv'
  OBVIOUS
<1>1. /\ expired' = TRUE
      /\ UNCHANGED << pc, response, notifications, fresh, mark, pending, commands,
                      outcomes, decoded, wire, unanswered, emitted, faults >>
  BY DEF DeadlinePasses, device
<1>2. Waiting' <=> Waiting
  BY <1>1 DEF Waiting
<1>3. /\ pc \notin { "awaitRead", "awaitBatch", "pollRead", "pollBatch" } => decoded = 0
      /\ pc \in { "awaitDeadline", "awaitRead" } => response = NoResponse
  BY DEF SafeInv, CallsInv
<1>4. pc' \in { "ready", "awaitDeadline", "awaitRead", "awaitBatch",
                "pollRead", "pollBatch", "pollDeadline" }
      /\ fresh' \in Seq(Item) /\ mark' \in Nat
  BY <1>1 DEF SafeInv, TypeOK
<1> QED
  BY <1>1, <1>2, <1>3, <1>4, ControlSafe

LEMMA StutterSafe == SafeInv /\ UNCHANGED vars => SafeInv'
<1> SUFFICES ASSUME SafeInv, UNCHANGED vars PROVE SafeInv'
  OBVIOUS
<1>1. UNCHANGED << pc, expired, response, notifications, fresh, mark, pending, commands,
                   outcomes, decoded, wire, unanswered, emitted, faults >>
  BY DEF vars, client, device
<1>2. TypeOK'
  BY <1>1 DEF SafeInv, TypeOK
<1>3. CallsInv'
  BY <1>1 DEF SafeInv, CallsInv, Waiting
<1>4. Holding' => Holding
  BY <1>1 DEF Waiting, Holding
<1> QED
  BY <1>1, <1>2, <1>3, <1>4, QuietSafe

LEMMA StepSafe == SafeInv /\ [Next]_vars => SafeInv'
<1> SUFFICES ASSUME SafeInv, [Next]_vars PROVE SafeInv'
  OBVIOUS
<1>1. CASE Device
  BY <1>1, RespondSafe, NotifySafe, IgnoreSafe, GarbleSafe DEF Device
<1>2. CASE \E key \in Key : SendCommand(key) \/ SendCommandRaises(key)
  BY <1>2, SendCommandSafe, SendCommandRaisesSafe
<1>3. CASE StartPoll
  BY <1>3, PollControlSafe
<1>4. CASE Await
  BY <1>4, AwaitDeadlineSafe, AwaitReadRaisesSafe, DecodeSafe, AwaitFeedRaisesSafe, AwaitFeedReturnsSafe,
     AwaitMessageSafe, AwaitBatchEndSafe DEF Await
<1>5. CASE Poll
  BY <1>5, PollControlSafe, PollReadRaisesSafe, DecodeSafe, PollFeedRaisesSafe,
     PollMessageSafe DEF Poll
<1>6. CASE DeadlinePasses
  BY <1>6, ClockSafe
<1>7. CASE UNCHANGED vars
  BY <1>7, StutterSafe
<1> QED
  BY <1>1, <1>2, <1>3, <1>4, <1>5, <1>6, <1>7 DEF Next

\* The invariant holds in every behaviour of the client and the device, timed
\* out calls, ignored commands and framing errors included.
THEOREM SafeInvariant == Safety => []SafeInv
<1> QED
  BY InitSafe, StepSafe, PTL DEF Safety

-----------------------------------------------------------------------------
(* What it is for.                                                          *)

\* Every variable of the client and of the device keeps to its type.
THEOREM TypeCorrect == Safety => []TypeOK
<1>1. SafeInv => TypeOK
  BY DEF SafeInv
<1> QED
  BY <1>1, SafeInvariant, PTL

\* _send_command_and_wait_response returns the response to its own command,
\* unless an earlier command with the same GID and OID ended without one.
THEOREM OwnResponse == Safety => []OwnResponseUnlessGaveUp
<1>1. SafeInv => OwnResponseUnlessGaveUp
  <2> SUFFICES ASSUME SafeInv, NEW i \in 1 .. Len(outcomes), outcomes[i].mt = "response"
               PROVE  /\ outcomes[i].key = commands[i]
                      /\ \/ outcomes[i].id = i
                         \/ /\ outcomes[i].id < i
                            /\ \E j \in 1 .. outcomes[i].id :
                                 commands[j] = commands[i] /\ outcomes[j] \in GaveUp
    BY DEF OwnResponseUnlessGaveUp
  <2> DEFINE item == outcomes[i]
  <2>1. GoodFor(item, i)
    BY DEF SafeInv, ReturnedInv, ReturnedGood, IsResponse
  <2>2. Len(outcomes) \in Nat
    BY DEF SafeInv, TypeOK
  <2>3. item.id \in 1 .. i /\ item.key = commands[i] /\ commands[item.id] = commands[i]
    BY <2>1 DEF GoodFor
  <2> HIDE DEF item
  <2>4. item.id = i \/ item.id < i
    BY <2>2, <2>3
  <2>5. ASSUME item.id < i
        PROVE  \E j \in 1 .. item.id : commands[j] = commands[i] /\ outcomes[j] \in GaveUp
    BY <2>1, <2>3, <2>5 DEF GoodFor, Excused
  <2> QED
    BY <2>3, <2>4, <2>5 DEF item
<1> QED
  BY <1>1, SafeInvariant, PTL

\* No two calls return the same response, however late it was.
THEOREM ReturnedOnce == Safety => []NoResponseReturnedTwice
<1>1. SafeInv => NoResponseReturnedTwice
  <2> SUFFICES ASSUME SafeInv,
                      NEW i \in 1 .. Len(outcomes), NEW j \in 1 .. Len(outcomes),
                      outcomes[i].mt = "response", outcomes[j].mt = "response",
                      outcomes[i].id = outcomes[j].id, i # j
               PROVE  FALSE
    BY DEF NoResponseReturnedTwice
  <2>1. Ordered(outcomes, "response")
    BY DEF SafeInv, ReturnedInv, ReturnedInOrder
  <2>2. outcomes[i].id \in Nat
    BY DEF SafeInv, ReturnedInv, ReturnedGood, GoodFor, IsResponse
  <2>3. i < j \/ j < i
    OBVIOUS
  <2> QED
    BY <2>1, <2>2, <2>3 DEF Ordered
<1> QED
  BY <1>1, SafeInvariant, PTL

\* UciClient.notifications is in the order of emission and free of duplicates,
\* whatever was lost between.
THEOREM KeptInOrder == Safety => []NotificationsInOrder
<1>1. SafeInv => NotificationsInOrder
  BY DEF SafeInv, EmittedInv
<1> QED
  BY <1>1, SafeInvariant, PTL

-----------------------------------------------------------------------------
(* A device without faults: the list of notifications is a channel.         *)

LEMMA InitNoGap == Init => NoGapInv
  BY DEF Init, NoGapInv

\* Without faults feed never raises.
LEMMA AllReadable ==
  ASSUME SafeInv, NoGapInv
  PROVE  ~FeedRaises
<1> SUFFICES ASSUME FeedRaises PROVE FALSE
  OBVIOUS
<1>1. decoded + 1 \in 1 .. Len(wire)
  BY DEF FeedRaises, SafeInv, TypeOK
<1>2. wire[decoded + 1].mt # "unknown"
  BY <1>1 DEF NoGapInv, Broken
<1> QED
  BY <1>2 DEF FeedRaises, Readable, NoGapInv

\* A notification at the head of the wire is the one after those kept.
LEMMA HeadIsNext ==
  ASSUME SafeInv, NoGapInv, wire # << >>, IsNotification(Head(wire))
  PROVE  /\ Len(notifications) + 1 \in 1 .. Len(emitted)
         /\ Head(wire) = emitted[Len(notifications) + 1]
<1> DEFINE head == Head(wire)
           k == Len(notifications) + 1
<1>1. /\ Len(wire) \in Nat \ {0}
      /\ head = wire[1]
      /\ head \in Item
      /\ Len(notifications) \in Nat
      /\ Len(emitted) \in Nat
  BY TailAt DEF SafeInv, TypeOK
<1>2. head.id \in 1 .. Len(emitted) /\ head = emitted[head.id] /\ head.mt = "notification"
  BY <1>1 DEF SafeInv, EmittedInv, WireEmitted, IsNotification
<1>3. \A i \in 1 .. Len(emitted) : emitted[i].id = i /\ emitted[i].mt = "notification"
  BY DEF SafeInv, EmittedInv, EmittedNumbered, IsNotification
<1>4. Len(notifications) < head.id
  <2>1. CASE Len(notifications) = 0
    BY <1>2, <2>1
  <2>2. CASE Len(notifications) > 0
    <3> DEFINE last == Len(notifications)
    <3>1. last \in 1 .. Len(notifications) /\ last \in 1 .. Len(emitted)
      BY <1>1, <2>2 DEF NoGapInv
    <3>2. notifications[last].id = last
      BY <1>3, <3>1 DEF NoGapInv
    <3>3. AllAfter(wire, "notification", notifications[last].id)
      BY <3>1 DEF SafeInv, EmittedInv, KeptBeforeWire
    <3> QED
      BY <1>1, <1>2, <3>2, <3>3 DEF AllAfter
  <2> QED
    BY <1>1, <2>1, <2>2
<1>5. k \in Len(notifications) + 1 .. Len(emitted) /\ k \in 1 .. Len(emitted)
  BY <1>1, <1>2, <1>4
<1>6. PICK i \in 1 .. Len(wire) : wire[i] = emitted[k]
  BY <1>5 DEF NoGapInv
<1>7. wire[i].id = k /\ wire[i].mt = "notification"
  BY <1>3, <1>5, <1>6
<1>8. CASE i = 1
  BY <1>1, <1>5, <1>6, <1>8
<1>9. CASE i # 1
  <2>1. 1 \in 1 .. Len(wire) /\ 1 < i
    BY <1>1, <1>9
  <2>2. head.id < k
    BY <1>1, <1>2, <1>7, <2>1
       DEF SafeInv, EmittedInv, WireNotificationsInOrder, Ordered
  <2> QED
    BY <1>1, <1>2, <1>4, <2>2
<1> QED
  BY <1>8, <1>9

\* Either nothing happens to the channel, or it is sent one item, or its
\* reader is given the next one.
ChannelStep ==
  \/ UNCHANGED << emitted, notifications >>
  \/ /\ \E item \in Item : emitted' = Append(emitted, item)
     /\ UNCHANGED notifications
  \/ /\ Len(notifications) < Len(emitted)
     /\ notifications' = Append(notifications, emitted[Len(notifications) + 1])
     /\ UNCHANGED emitted

\* The head of the wire is taken: kept if it is a notification.
LEMMA TakeNoGap ==
  ASSUME SafeInv, NoGapInv, wire # << >>, wire' = Tail(wire),
         UNCHANGED << emitted, pending >>,
         notifications' = IF IsNotification(Head(wire))
                          THEN Append(notifications, Head(wire)) ELSE notifications
  PROVE  NoGapInv' /\ ChannelStep
<1> DEFINE head == Head(wire)
           k == Len(notifications) + 1
<1>1. /\ Len(wire) \in Nat \ {0}
      /\ head = wire[1]
      /\ head \in Item
      /\ Len(wire') = Len(wire) - 1
      /\ \A i \in 1 .. Len(wire) - 1 : wire'[i] = wire[i + 1]
      /\ Len(notifications) \in Nat
      /\ Len(emitted) \in Nat
      /\ notifications \in Seq(Item)
  BY TailAt DEF SafeInv, TypeOK
<1>2. \A i \in 1 .. Len(wire') : i + 1 \in 1 .. Len(wire) /\ wire'[i] = wire[i + 1]
  BY <1>1
<1>3. ASSUME NEW e, NEW i \in 1 .. Len(wire), wire[i] = e, head # e
      PROVE  \E j \in 1 .. Len(wire') : wire'[j] = e
  <2>1. i - 1 \in 1 .. Len(wire') /\ wire'[i - 1] = wire[i]
    BY <1>1, <1>3
  <2> QED
    BY <1>3, <2>1
<1>4. \A i \in 1 .. Len(wire') : wire'[i].mt \notin Broken
  BY <1>2 DEF NoGapInv
<1>5. \A i \in 1 .. Len(emitted) : emitted[i].id = i /\ IsNotification(emitted[i])
  BY DEF SafeInv, EmittedInv, EmittedNumbered
<1>6. CASE IsNotification(head)
  <2>1. k \in 1 .. Len(emitted) /\ head = emitted[k]
    BY <1>6, HeadIsNext
  <2>2. /\ Len(notifications') = k
        /\ \A i \in 1 .. Len(notifications) : notifications'[i] = notifications[i]
        /\ notifications'[k] = head
    BY <1>1, <1>6, AppendAt
  <2>3. \A i \in 1 .. Len(notifications') : notifications'[i] = emitted[i]
    BY <1>1, <2>1, <2>2 DEF NoGapInv
  <2>4. ASSUME NEW m \in k + 1 .. Len(emitted)
        PROVE  \E i \in 1 .. Len(wire') : wire'[i] = emitted[m]
    <3>1. m \in Len(notifications) + 1 .. Len(emitted) /\ m \in 1 .. Len(emitted) /\ m # k
      BY <1>1
    <3>2. head # emitted[m]
      BY <1>5, <2>1, <3>1
    <3>3. PICK i \in 1 .. Len(wire) : wire[i] = emitted[m]
      BY <3>1 DEF NoGapInv
    <3> QED
      BY <1>3, <3>2, <3>3
  <2>5. NoGapInv'
    BY <1>4, <2>1, <2>2, <2>3, <2>4 DEF NoGapInv
  <2>6. ChannelStep
    BY <1>1, <1>6, <2>1 DEF ChannelStep
  <2> QED
    BY <2>5, <2>6
<1>7. CASE ~IsNotification(head)
  <2>1. UNCHANGED notifications
    BY <1>7
  <2>2. ASSUME NEW m \in Len(notifications) + 1 .. Len(emitted)
        PROVE  \E i \in 1 .. Len(wire') : wire'[i] = emitted[m]
    <3>1. m \in 1 .. Len(emitted)
      BY <1>1
    <3>2. head # emitted[m]
      BY <1>5, <1>7, <3>1
    <3>3. PICK i \in 1 .. Len(wire) : wire[i] = emitted[m]
      BY DEF NoGapInv
    <3> QED
      BY <1>3, <3>2, <3>3
  <2> QED
    BY <1>4, <2>1, <2>2 DEF NoGapInv, ChannelStep
<1> QED
  BY <1>6, <1>7

\* An item that is not broken is put on the wire, a notification is numbered.
LEMMA SentNoGap ==
  ASSUME SafeInv, NoGapInv, NEW item \in Item, item.mt \notin Broken,
         wire' = Append(wire, item), UNCHANGED << notifications, pending >>,
         emitted' \in { emitted, Append(emitted, item) }
  PROVE  NoGapInv' /\ ChannelStep
<1>1. /\ Len(wire) \in Nat
      /\ Len(wire') = Len(wire) + 1
      /\ \A i \in 1 .. Len(wire) : wire'[i] = wire[i]
      /\ wire'[Len(wire) + 1] = item
      /\ Len(notifications) \in Nat
      /\ Len(emitted) \in Nat
      /\ emitted \in Seq(Item)
  BY AppendAt DEF SafeInv, TypeOK
<1>2. \A i \in 1 .. Len(wire') : wire'[i].mt \notin Broken
  BY <1>1 DEF NoGapInv
<1>3. \A m \in Len(notifications) + 1 .. Len(emitted) :
        \E i \in 1 .. Len(wire') : wire'[i] = emitted[m]
  BY <1>1 DEF NoGapInv
<1>4. CASE emitted' = emitted
  BY <1>2, <1>3, <1>4 DEF NoGapInv, ChannelStep
<1>5. CASE emitted' = Append(emitted, item)
  <2>1. /\ Len(emitted') = Len(emitted) + 1
        /\ \A i \in 1 .. Len(emitted) : emitted'[i] = emitted[i]
        /\ emitted'[Len(emitted) + 1] = item
    BY <1>1, <1>5, AppendAt
  <2>2. ASSUME NEW m \in Len(notifications) + 1 .. Len(emitted')
        PROVE  \E i \in 1 .. Len(wire') : wire'[i] = emitted'[m]
    <3>1. CASE m \in Len(notifications) + 1 .. Len(emitted)
      BY <1>1, <1>3, <2>1, <3>1
    <3>2. CASE m = Len(emitted) + 1
      BY <1>1, <2>1, <3>2
    <3> QED
      BY <1>1, <2>1, <3>1, <3>2
  <2>3. /\ Len(notifications) <= Len(emitted')
        /\ \A i \in 1 .. Len(notifications) : notifications[i] = emitted'[i]
    BY <1>1, <2>1 DEF NoGapInv
  <2> QED
    BY <1>2, <1>5, <2>2, <2>3 DEF NoGapInv, ChannelStep
<1> QED
  BY <1>4, <1>5

LEMMA StepNoGap ==
  ASSUME MaxFaults = 0, SafeInv, NoGapInv, [Next]_vars
  PROVE  NoGapInv' /\ ChannelStep
<1>1. ASSUME UNCHANGED << wire, notifications, emitted, pending >>
      PROVE  NoGapInv' /\ ChannelStep
  BY <1>1 DEF NoGapInv, ChannelStep
<1>2. ~(faults < MaxFaults)
  BY DEF SafeInv, TypeOK
<1>3. CASE Respond
  <2> DEFINE id == Head(unanswered)
             item == [ mt |-> "response", key |-> commands[id], id |-> id ]
  <2>1. /\ wire' = Append(wire, item)
        /\ UNCHANGED << notifications, pending, emitted, pc, response, commands, outcomes >>
        /\ unanswered # << >>
        /\ unanswered' = Tail(unanswered)
    BY <1>3 DEF Respond, client
  <2>2. id \in 1 .. Len(commands)
    BY <2>1, OwedShrinks
  <2>3. item \in Item /\ item.mt \notin Broken
    BY <2>2 DEF SafeInv, TypeOK, Item, Broken, Starts
  <2> HIDE DEF item
  <2> QED
    BY <2>1, <2>3, SentNoGap
<1>4. ASSUME NEW key \in Key, Notify(key)
      PROVE  NoGapInv' /\ ChannelStep
  <2> DEFINE item == [ mt |-> "notification", key |-> key, id |-> Len(emitted) + 1 ]
  <2>1. /\ wire' = Append(wire, item)
        /\ emitted' = Append(emitted, item)
        /\ UNCHANGED << notifications, pending >>
    BY <1>4 DEF Notify, client
  <2>2. item \in Item /\ item.mt \notin Broken
    BY DEF SafeInv, TypeOK, Item, Broken, Starts
  <2> HIDE DEF item
  <2> QED
    BY <2>1, <2>2, SentNoGap
<1>5. CASE Device
  BY <1>2, <1>3, <1>4, <1>5 DEF Device, Ignore, Garble
<1>6. ASSUME NEW key \in Key, SendCommand(key)
      PROVE  NoGapInv' /\ ChannelStep
  BY <1>1, <1>6 DEF SendCommand
<1>7. CASE AwaitDecode \/ PollDecode
  <2>1. /\ decoded + 1 \in 1 .. Len(wire)
        /\ pending' = IF wire[decoded + 1].mt \in Starts THEN wire[decoded + 1] ELSE NoFragment
        /\ UNCHANGED << wire, notifications, emitted >>
    BY <1>7 DEF AwaitDecode, PollDecode, DecodeItem, device, SafeInv, TypeOK
  <2>2. pending' = pending
    BY <2>1 DEF NoGapInv, Broken
  <2> QED
    BY <1>1, <2>1, <2>2
<1>8. CASE AwaitMessage
  <2>1. /\ wire # << >>
        /\ wire' = Tail(wire)
        /\ UNCHANGED << emitted, pending >>
        /\ notifications' = IF IsNotification(Head(wire))
                            THEN Append(notifications, Head(wire)) ELSE notifications
    BY <1>8 DEF AwaitMessage, TakeMessage, device, Matches, IsNotification,
                SafeInv, TypeOK, CallsInv
  <2> QED
    BY <2>1, TakeNoGap
<1>9. CASE PollMessage
  <2>1. /\ wire # << >>
        /\ wire' = Tail(wire)
        /\ UNCHANGED << emitted, pending >>
        /\ notifications' = IF IsNotification(Head(wire))
                            THEN Append(notifications, Head(wire)) ELSE notifications
    BY <1>9 DEF PollMessage, TakeMessage, device, IsNotification,
                SafeInv, TypeOK, CallsInv
  <2> QED
    BY <2>1, TakeNoGap
<1>10. CASE Await
  <2>1. CASE AwaitDeadline \/ AwaitFeedReturns \/ AwaitBatchEnd
    BY <1>1, <2>1 DEF AwaitDeadline, AwaitFeedReturns, AwaitBatchEnd, device
  <2>2. ~AwaitFeedRaises /\ ~AwaitReadRaises
    BY <1>2, AllReadable DEF AwaitFeedRaises, AwaitReadRaises, ReadRaises
  <2> QED
    BY <1>7, <1>8, <1>10, <2>1, <2>2 DEF Await
<1>11. CASE Poll
  <2>1. CASE PollFeedReturns \/ PollBatchEnd \/ PollDeadline
    BY <1>1, <2>1 DEF PollFeedReturns, PollBatchEnd, PollDeadline, device
  <2>2. ~PollFeedRaises /\ ~PollReadRaises
    BY <1>2, AllReadable DEF PollFeedRaises, PollReadRaises, ReadRaises
  <2> QED
    BY <1>7, <1>9, <1>11, <2>1, <2>2 DEF Poll
<1>12. CASE StartPoll \/ DeadlinePasses
  BY <1>1, <1>12 DEF StartPoll, DeadlinePasses, device
<1>13. CASE UNCHANGED vars
  BY <1>1, <1>13 DEF vars, client, device
<1> QED
  BY <1>2, <1>5, <1>6, <1>10, <1>11, <1>12, <1>13 DEF Next, SendCommandRaises

\* A step of that kind is a step of the abstract channel.
LEMMA ChannelStepImplements ==
  ASSUME SafeInv, NoGapInv, ChannelStep
  PROVE  [Feed!Next]_(Feed!vars)
<1>1. /\ emitted \in Seq(Item)
      /\ notifications \in Seq(Item)
      /\ Len(emitted) \in Nat
      /\ Len(notifications) \in Nat
  BY DEF SafeInv, TypeOK
<1>2. CASE UNCHANGED << emitted, notifications >>
  BY <1>2 DEF Feed!vars
<1>3. ASSUME NEW item \in Item, emitted' = Append(emitted, item), UNCHANGED notifications
      PROVE  Feed!Send
  <2>1. emitted' \in Seq(Item) /\ Len(emitted') = Len(emitted) + 1
    BY <1>1, <1>3, AppendAt
  <2>2. SubSeq(emitted', 1, Len(emitted)) = emitted
    BY <1>1, <1>3
  <2> QED
    BY <1>3, <2>1, <2>2 DEF Feed!Send
<1>4. ASSUME Len(notifications) < Len(emitted),
             notifications' = Append(notifications, emitted[Len(notifications) + 1]),
             UNCHANGED emitted
      PROVE  Feed!Deliver
  <2> DEFINE n == Len(notifications) + 1
             next == SubSeq(emitted, 1, n)
  <2>1. n \in Len(notifications) + 1 .. Len(emitted) /\ emitted[n] \in Item
    BY <1>1, <1>4
  <2>2. /\ notifications' \in Seq(Item)
        /\ Len(notifications') = n
        /\ \A i \in 1 .. Len(notifications) : notifications'[i] = notifications[i]
        /\ notifications'[n] = emitted[n]
    BY <1>1, <1>4, <2>1, AppendAt
  <2>3. /\ next \in Seq(Item)
        /\ Len(next) = n
        /\ \A i \in 1 .. n : next[i] = emitted[i]
    BY <1>1, <2>1
  <2>4. \A i \in 1 .. n : notifications'[i] = next[i]
    <3>1. \A i \in 1 .. Len(notifications) : notifications[i] = emitted[i]
      BY DEF NoGapInv
    <3> HIDE DEF next
    <3> QED
      BY <1>1, <2>2, <2>3, <3>1
  <2> HIDE DEF next
  <2>5. notifications' = next
    BY <2>2, <2>3, <2>4
  <2> QED
    BY <1>4, <2>1, <2>5 DEF Feed!Deliver, next
<1> QED
  BY <1>2, <1>3, <1>4 DEF ChannelStep, Feed!Next

\* The list of notifications has no gap and ends where the wire begins.
THEOREM NoGap == MaxFaults = 0 /\ Safety => []NoGapInv
<1> SUFFICES ASSUME MaxFaults = 0 PROVE Safety => []NoGapInv
  OBVIOUS
<1>1. SafeInv /\ NoGapInv /\ [Next]_vars => NoGapInv'
  BY StepNoGap
<1> QED
  BY <1>1, InitNoGap, SafeInvariant, PTL DEF Safety

\* UciClient.notifications is what the device emitted, in order, none left out,
\* none twice: the client implements the safety part of FifoChannel.
THEOREM ImplementsChannelSafety == MaxFaults = 0 /\ Safety => Feed!Safety
<1> SUFFICES ASSUME MaxFaults = 0 PROVE Safety => Feed!Safety
  OBVIOUS
<1>1. Init => Feed!Init
  BY DEF Init, Feed!Init
<1>2. SafeInv /\ NoGapInv /\ [Next]_vars => [Feed!Next]_(Feed!vars)
  BY StepNoGap, ChannelStepImplements
<1>3. Safety => []NoGapInv
  BY NoGap
<1> QED
  BY <1>1, <1>2, <1>3, SafeInvariant, PTL DEF Safety, Feed!Safety
-----------------------------------------------------------------------------
(* The service that a caller is promised.                                   *)

\* A call that ends without a response is allowed to at any moment.
LEMMA GivesUp ==
  ASSUME SafeInv, Waiting, NEW failure \in GaveUp,
         outcomes' = Append(outcomes, failure), UNCHANGED commands
  PROVE  Commands!Next
<1>1. Commands!Busy
  BY DEF SafeInv, TypeOK, CallsInv, Commands!Busy
<1> QED
  BY <1>1 DEF Commands!Next, Commands!End, Commands!GiveUp

\* The response in hand at the end of a batch is one that may be returned.
LEMMA ReturnsAllowed ==
  ASSUME SafeInv, pc = "awaitBatch", response # NoResponse,
         outcomes' = Append(outcomes, response), UNCHANGED commands
  PROVE  Commands!Next
<1> DEFINE j == response.id
           c == Len(commands)
<1>1. /\ Holding
      /\ commands \in Seq(Key)
      /\ c \in Nat \ {0}
      /\ Len(outcomes) = c - 1
      /\ response \in Item
  BY DEF Holding, Waiting, SafeInv, TypeOK, CallsInv
<1>2. GoodFor(response, c) /\ AllBefore(outcomes, "response", j)
  BY <1>1 DEF SafeInv, HeldInv, HeldGood, HeldLast
<1>3. /\ response.mt = "response"
      /\ j \in 1 .. c
      /\ response.key = commands[c]
      /\ commands[j] = commands[c]
      /\ j < c => Excused(j)
  BY <1>2 DEF GoodFor, IsResponse
<1>4. response = Commands!Response(j)
  BY <1>1, <1>3 DEF Item, Commands!Response
<1>5. j < c => Commands!Excused(j)
  <2> SUFFICES ASSUME j < c PROVE Commands!Excused(j)
    OBVIOUS
  <2> HIDE DEF j
  <2>1. PICK i \in 1 .. j : commands[i] = commands[j] /\ outcomes[i] \in GaveUp
    BY <1>3 DEF Excused
  <2> QED
    BY <2>1 DEF Commands!Excused
<1>6. Commands!MayReturn(j)
  BY <1>2, <1>3, <1>5 DEF Commands!MayReturn, Commands!Current, AllBefore
<1>7. Commands!ReturnResponse(j)
  BY <1>1, <1>4, <1>6 DEF Commands!ReturnResponse, Commands!Busy
<1> QED
  BY <1>3, <1>7 DEF Commands!Next, Commands!End

LEMMA ServiceStep ==
  ASSUME SafeInv, [Next]_vars
  PROVE  [Commands!Next]_(Commands!vars)
<1>1. ASSUME UNCHANGED << commands, outcomes >>
      PROVE  [Commands!Next]_(Commands!vars)
  BY <1>1 DEF Commands!vars
<1>2. pc = "ready" => ~Commands!Busy
  BY DEF SafeInv, TypeOK, CallsInv, Waiting, Commands!Busy
<1>3. ASSUME NEW key \in Key, SendCommand(key)
      PROVE  Commands!Next
  BY <1>2, <1>3 DEF SendCommand, Commands!Next, Commands!Call
<1>4. ASSUME NEW key \in Key, SendCommandRaises(key)
      PROVE  Commands!Next
  BY <1>2, <1>4 DEF SendCommandRaises, Finish, GaveUp, Commands!Next, Commands!CallFails
<1>5. CASE AwaitDeadline
  <2>1. Waiting /\ UNCHANGED commands
    BY <1>5 DEF AwaitDeadline, Waiting
  <2>2. CASE UNCHANGED outcomes
    BY <1>1, <2>1, <2>2
  <2>3. CASE Finish(TimedOut)
    BY <2>1, <2>3, GivesUp DEF Finish, GaveUp
  <2> QED
    BY <1>5, <2>2, <2>3 DEF AwaitDeadline
<1>6. CASE AwaitReadRaises
  BY <1>6, GivesUp DEF AwaitReadRaises, Finish, GaveUp, Waiting
<1>7. CASE AwaitFeedRaises
  BY <1>7, GivesUp DEF AwaitFeedRaises, Finish, GaveUp, Waiting
<1>8. CASE AwaitBatchEnd
  <2>1. pc = "awaitBatch" /\ UNCHANGED commands
    BY <1>8 DEF AwaitBatchEnd
  <2>2. CASE UNCHANGED outcomes
    BY <1>1, <2>1, <2>2
  <2>3. CASE response # NoResponse /\ Finish(response)
    BY <2>1, <2>3, ReturnsAllowed DEF Finish
  <2> QED
    BY <1>8, <2>2, <2>3 DEF AwaitBatchEnd
<1>9. CASE Await
  <2>1. CASE AwaitDecode \/ AwaitFeedReturns \/ AwaitMessage
    BY <1>1, <2>1 DEF AwaitDecode, AwaitFeedReturns, AwaitMessage
  <2> QED
    BY <1>5, <1>6, <1>7, <1>8, <1>9, <2>1 DEF Await
<1>10. CASE Poll
  BY <1>1, <1>10 DEF Poll, PollReadRaises, PollDecode, PollFeedRaises, PollFeedReturns,
                     PollMessage, PollBatchEnd, PollDeadline
<1>11. CASE Device
  BY <1>1, <1>11 DEF Device, Respond, Notify, Ignore, Garble, client
<1>12. CASE StartPoll \/ DeadlinePasses
  BY <1>1, <1>12 DEF StartPoll, DeadlinePasses
<1>13. CASE UNCHANGED vars
  BY <1>1, <1>13 DEF vars, client
<1> QED
  BY <1>3, <1>4, <1>9, <1>10, <1>11, <1>12, <1>13 DEF Next

\* A call of _send_command_and_wait_response ends in no way that CommandService
\* does not allow, whatever is lost, late or broken, and whatever is polled
\* between: the client implements the safety part of the service.
THEOREM ImplementsServiceSafety == Safety => Commands!Safety
<1>1. Init => Commands!Init
  BY DEF Init, Commands!Init
<1>2. SafeInv /\ [Next]_vars => [Commands!Next]_(Commands!vars)
  BY ServiceStep
<1> QED
  BY <1>1, <1>2, SafeInvariant, PTL DEF Safety, Commands!Safety

-----------------------------------------------------------------------------
(* What poll_notifications returns.                                         *)

\* A beginning of what comes after a place in a sequence outlives what is
\* appended to it.
LEMMA PartStays ==
  ASSUME NEW S, NEW s \in Seq(S), NEW e \in S, NEW a \in Nat, NEW n \in Nat,
         a + n <= Len(s)
  PROVE  SubSeq(Append(s, e), a + 1, a + n) = SubSeq(s, a + 1, a + n)
<1> DEFINE t == Append(s, e)
           p == SubSeq(t, a + 1, a + n)
           q == SubSeq(s, a + 1, a + n)
<1>1. /\ t \in Seq(S)
      /\ Len(t) = Len(s) + 1
      /\ \A i \in 1 .. Len(s) : t[i] = s[i]
  BY AppendAt
<1> HIDE DEF t
<1>2. p \in Seq(S) /\ Len(p) = n /\ \A i \in 1 .. n : p[i] = t[i + a]
  BY <1>1, SliceAt
<1>3. q \in Seq(S) /\ Len(q) = n /\ \A i \in 1 .. n : q[i] = s[i + a]
  BY SliceAt
<1> HIDE DEF p, q
<1>4. \A i \in 1 .. n : p[i] = q[i]
  <2>1. \A i \in 1 .. n : i + a \in 1 .. Len(s)
    OBVIOUS
  <2> QED
    BY <1>1, <1>2, <1>3, <2>1
<1>5. p = q
  BY <1>2, <1>3, <1>4, SameItems
<1> QED
  BY <1>5 DEF p, q, t

LEMMA PartGrows ==
  ASSUME NEW S, NEW s \in Seq(S), NEW e \in S, NEW a \in 0 .. Len(s),
         NEW f \in Seq(S), Len(f) = Len(s) - a, \A i \in 1 .. Len(f) : f[i] = s[i + a]
  PROVE  Append(f, e) = SubSeq(Append(s, e), a + 1, Len(s) + 1)
<1> DEFINE t == Append(s, e)
           p == SubSeq(t, a + 1, Len(s) + 1)
           g == Append(f, e)
<1>1. /\ t \in Seq(S)
      /\ Len(t) = Len(s) + 1
      /\ \A i \in 1 .. Len(s) : t[i] = s[i]
      /\ t[Len(s) + 1] = e
  BY AppendAt
<1> HIDE DEF t, p
<1>2. /\ g \in Seq(S)
      /\ Len(g) = Len(f) + 1
      /\ \A i \in 1 .. Len(f) : g[i] = f[i]
      /\ g[Len(f) + 1] = e
  BY AppendAt
<1> HIDE DEF g
<1>3. p \in Seq(S) /\ Len(p) = Len(s) + 1 - a /\ \A i \in 1 .. Len(p) : p[i] = t[i + a]
  <2>1. a <= Len(s) + 1 /\ Len(s) + 1 \in Nat
    OBVIOUS
  <2> QED
    BY <1>1, <2>1, SliceAt DEF p
<1>4. Len(s) \in Nat /\ Len(f) \in Nat /\ a \in Nat /\ Len(p) = Len(f) + 1
  BY <1>3
<1>5. ASSUME NEW i \in 1 .. Len(p)
      PROVE  p[i] = g[i]
  <2>1. CASE i \in 1 .. Len(f)
    <3>1. i + a \in 1 .. Len(s)
      BY <1>4, <2>1
    <3> QED
      BY <1>1, <1>2, <1>3, <2>1, <3>1
  <2>2. CASE i = Len(f) + 1
    <3>1. i + a = Len(s) + 1
      BY <1>4, <2>2
    <3> QED
      BY <1>1, <1>2, <1>3, <2>2, <3>1
  <2>3. i \in 1 .. Len(f) \/ i = Len(f) + 1
    BY ONLY <1>4, i \in 1 .. Len(p)
  <2> QED
    BY ONLY <2>1, <2>2, <2>3
<1>6. p = g
  <2>1. Len(p) = Len(g) /\ p \in Seq(S) /\ g \in Seq(S)
    BY <1>2, <1>3, <1>4
  <2>2. \A i \in 1 .. Len(p) : p[i] = g[i]
    BY <1>5
  <2> QED
    BY ONLY <2>1, <2>2, SameItems
<1> QED
  BY <1>6 DEF p, g, t

LEMMA InitPollReturns == Init => PollReturnsTheNew
  BY DEF Init, PollReturnsTheNew, Polling

LEMMA StepPollReturns ==
  ASSUME SafeInv, PollReturnsTheNew, [Next]_vars
  PROVE  PollReturnsTheNew'
<1>1. /\ notifications \in Seq(Item)
      /\ fresh \in Seq(Item)
      /\ mark \in Nat
      /\ Len(fresh) \in Nat
      /\ Len(notifications) \in Nat
      /\ mark + Len(fresh) <= Len(notifications)
      /\ fresh = SubSeq(notifications, mark + 1, mark + Len(fresh))
      /\ Polling => mark + Len(fresh) = Len(notifications)
  BY DEF SafeInv, TypeOK, PollReturnsTheNew
<1>2. ASSUME UNCHANGED << notifications, fresh, mark >>, Polling' => Polling
      PROVE  PollReturnsTheNew'
  BY <1>1, <1>2 DEF PollReturnsTheNew
<1>3. CASE StartPoll
  <2>1. fresh' = << >> /\ mark' = Len(notifications) /\ notifications' = notifications
    BY <1>3 DEF StartPoll
  <2>2. SubSeq(notifications, Len(notifications) + 1, Len(notifications)) = << >>
    BY <1>1
  <2>3. Len(fresh') = 0
    BY <2>1
  <2> QED
    BY <1>1, <2>1, <2>2, <2>3 DEF PollReturnsTheNew
<1>4. CASE AwaitMessage
  <2>1. UNCHANGED << fresh, mark, pc >> /\ ~Polling'
    BY <1>4 DEF AwaitMessage, Polling
  <2>2. CASE UNCHANGED notifications
    BY <1>2, <2>1, <2>2
  <2>3. CASE notifications' = Append(notifications, Head(wire))
    <3>1. Head(wire) \in Item
      BY <1>4, TailAt DEF AwaitMessage, TakeMessage, SafeInv, TypeOK, CallsInv
    <3>2. Len(notifications') = Len(notifications) + 1
      BY <1>1, <2>3, <3>1, AppendAt
    <3>3. SubSeq(notifications', mark + 1, mark + Len(fresh)) = fresh
      BY <1>1, <2>3, <3>1, PartStays
    <3> QED
      BY <1>1, <2>1, <3>2, <3>3 DEF PollReturnsTheNew
  <2> QED
    BY <1>4, <2>2, <2>3 DEF AwaitMessage
<1>5. CASE PollMessage
  <2>1. UNCHANGED << mark, pc >> /\ Polling
    BY <1>5 DEF PollMessage, Polling
  <2>2. CASE UNCHANGED << notifications, fresh >>
    BY <1>2, <2>1, <2>2 DEF Polling
  <2>3. CASE /\ notifications' = Append(notifications, Head(wire))
             /\ fresh' = Append(fresh, Head(wire))
    <3>1. Head(wire) \in Item
      BY <1>5, TailAt DEF PollMessage, TakeMessage, SafeInv, TypeOK, CallsInv
    <3>2. /\ Len(notifications') = Len(notifications) + 1
          /\ Len(fresh') = Len(fresh) + 1
      BY <1>1, <2>3, <3>1, AppendAt
    <3>3. /\ mark \in 0 .. Len(notifications)
          /\ Len(fresh) = Len(notifications) - mark
          /\ \A i \in 1 .. Len(fresh) : fresh[i] = notifications[i + mark]
      <4>1. fresh = SubSeq(notifications, mark + 1, Len(notifications))
        BY <1>1, <2>1
      <4>2. mark <= Len(notifications)
        BY <1>1
      <4> DEFINE n == SubSeq(notifications, mark + 1, Len(notifications))
      <4>3. /\ Len(n) = Len(notifications) - mark
            /\ \A i \in 1 .. Len(notifications) - mark : n[i] = notifications[i + mark]
        BY <1>1, <4>2, SliceAt
      <4> HIDE DEF n
      <4> QED
        BY <1>1, <4>1, <4>2, <4>3 DEF n
    <3>4. fresh' = SubSeq(notifications', mark + 1, Len(notifications) + 1)
      BY <1>1, <2>3, <3>1, <3>3, PartGrows
    <3>5. mark + Len(fresh') = Len(notifications) + 1
      BY <1>1, <2>1, <3>2
    <3> QED
      BY <1>1, <2>1, <3>2, <3>4, <3>5 DEF PollReturnsTheNew
  <2> QED
    BY <1>5, <2>2, <2>3 DEF PollMessage
<1>6. CASE Device
  BY <1>2, <1>6 DEF Device, Respond, Notify, Ignore, Garble, client, Polling
<1>7. CASE \E key \in Key : SendCommand(key) \/ SendCommandRaises(key)
  BY <1>2, <1>7 DEF SendCommand, SendCommandRaises, Finish, Polling
<1>8. CASE Await
  <2>1. CASE AwaitDeadline \/ AwaitReadRaises \/ AwaitDecode \/ AwaitFeedRaises
               \/ AwaitFeedReturns \/ AwaitBatchEnd
    BY <1>2, <2>1 DEF AwaitDeadline, AwaitReadRaises, AwaitDecode, AwaitFeedRaises,
                      AwaitFeedReturns, AwaitBatchEnd, Finish, Polling
  <2> QED
    BY <1>4, <1>8, <2>1 DEF Await
<1>9. CASE Poll
  <2>1. CASE PollReadRaises \/ PollDecode \/ PollFeedRaises \/ PollFeedReturns
               \/ PollBatchEnd \/ PollDeadline
    BY <1>2, <2>1 DEF PollReadRaises, PollDecode, PollFeedRaises, PollFeedReturns,
                      PollBatchEnd, PollDeadline, Polling
  <2> QED
    BY <1>5, <1>9, <2>1 DEF Poll
<1>10. CASE DeadlinePasses \/ UNCHANGED vars
  BY <1>2, <1>10 DEF DeadlinePasses, vars, client, Polling
<1> QED
  BY <1>3, <1>6, <1>7, <1>8, <1>9, <1>10 DEF Next

\* poll_notifications returns exactly what was appended to the list since it
\* was called, whatever raised in it or in the calls after it.
THEOREM PollReturnsNew == Safety => []PollReturnsTheNew
<1>1. SafeInv /\ PollReturnsTheNew /\ [Next]_vars => PollReturnsTheNew'
  BY StepPollReturns
<1> QED
  BY <1>1, InitPollReturns, SafeInvariant, PTL DEF Safety

-----------------------------------------------------------------------------
(* The response to the command in progress is not thrown away.              *)

LEMMA InitUnbroken == Init => UnbrokenInv
  BY DEF Init, UnbrokenInv

\* FeedRaises needs an item that is broken, one on the wire or the one pending.
LEMMA UnbrokenReadable ==
  ASSUME SafeInv, UnbrokenInv, faults = 0
  PROVE  ~FeedRaises
<1> SUFFICES ASSUME FeedRaises PROVE FALSE
  OBVIOUS
<1>1. decoded + 1 \in 1 .. Len(wire)
  BY DEF FeedRaises, SafeInv, TypeOK
<1>2. wire[decoded + 1].mt # "unknown"
  BY <1>1 DEF UnbrokenInv, Broken
<1> QED
  BY <1>2 DEF FeedRaises, Readable, UnbrokenInv

\* Without a fault a step leaves the wire as it is, or puts an item at its end
\* that is not broken, or takes the one at its head into a loop of the client.
LEMMA UnbrokenStep ==
  ASSUME SafeInv, UnbrokenInv, [Next]_vars, faults' = 0
  PROVE  /\ faults = 0
         /\ UNCHANGED pending
         /\ \/ UNCHANGED wire
            \/ \E item \in Item : item.mt \notin Broken /\ wire' = Append(wire, item)
            \/ wire # << >> /\ wire' = Tail(wire) /\ (AwaitMessage \/ PollMessage)
<1>1. faults \in Nat
  BY DEF SafeInv, TypeOK
<1>2. /\ ~Ignore
      /\ \A mt \in Broken, key \in Key : ~Garble(mt, key)
      /\ \A key \in Key : ~SendCommandRaises(key)
      /\ ~ReadRaises
  BY <1>1 DEF Ignore, Garble, SendCommandRaises, ReadRaises
<1>3. faults = 0
  BY <1>1, <1>2 DEF Next, vars, device, Device, Respond, Notify, SendCommand, StartPoll,
                    Await, AwaitDeadline, AwaitReadRaises, AwaitDecode, AwaitFeedRaises,
                    AwaitFeedReturns, AwaitMessage, AwaitBatchEnd, Poll, PollReadRaises,
                    PollDecode, PollFeedRaises, PollFeedReturns, PollMessage,
                    PollBatchEnd, PollDeadline, DeadlinePasses
<1>4. ~FeedRaises
  BY <1>3, UnbrokenReadable
<1>5. CASE Respond
  <2> DEFINE id == Head(unanswered)
             item == [ mt |-> "response", key |-> commands[id], id |-> id ]
  <2>1. /\ wire' = Append(wire, item)
        /\ UNCHANGED << pending, pc, response, commands, outcomes >>
        /\ unanswered # << >>
        /\ unanswered' = Tail(unanswered)
    BY <1>5 DEF Respond, client
  <2>2. id \in 1 .. Len(commands)
    BY <2>1, OwedShrinks
  <2>3. item \in Item /\ item.mt \notin Broken
    BY <2>2 DEF SafeInv, TypeOK, Item, Broken, Starts
  <2> HIDE DEF item
  <2> QED
    BY <1>3, <2>1, <2>3
<1>6. ASSUME NEW key \in Key, Notify(key)
      PROVE  UNCHANGED pending
             /\ \E item \in Item : item.mt \notin Broken /\ wire' = Append(wire, item)
  <2> DEFINE item == [ mt |-> "notification", key |-> key, id |-> Len(emitted) + 1 ]
  <2>1. wire' = Append(wire, item) /\ UNCHANGED pending
    BY <1>6 DEF Notify, client
  <2>2. item \in Item /\ item.mt \notin Broken
    BY DEF SafeInv, TypeOK, Item, Broken, Starts
  <2> HIDE DEF item
  <2> QED
    BY <2>1, <2>2
<1>7. CASE AwaitDecode \/ PollDecode
  <2>1. /\ decoded + 1 \in 1 .. Len(wire)
        /\ pending' = IF wire[decoded + 1].mt \in Starts THEN wire[decoded + 1] ELSE NoFragment
        /\ UNCHANGED wire
    BY <1>7 DEF AwaitDecode, PollDecode, DecodeItem, SafeInv, TypeOK
  <2> QED
    BY <1>3, <2>1 DEF UnbrokenInv, Broken
<1>8. CASE AwaitMessage \/ PollMessage
  <2>1. decoded > 0 /\ wire' = Tail(wire) /\ UNCHANGED pending
    BY <1>8 DEF AwaitMessage, PollMessage, TakeMessage
  <2>2. wire # << >>
    BY <2>1 DEF SafeInv, TypeOK, CallsInv
  <2> QED
    BY <1>3, <1>8, <2>1, <2>2
<1>9. CASE \E key \in Key : SendCommand(key)
  BY <1>3, <1>9 DEF SendCommand
<1>10. CASE Await
  <2>1. CASE AwaitDeadline \/ AwaitFeedReturns \/ AwaitBatchEnd
    BY <1>3, <2>1 DEF AwaitDeadline, AwaitFeedReturns, AwaitBatchEnd
  <2> QED
    BY <1>2, <1>4, <1>7, <1>8, <1>10, <2>1 DEF Await, AwaitReadRaises, AwaitFeedRaises
<1>11. CASE Poll
  <2>1. CASE PollFeedReturns \/ PollBatchEnd \/ PollDeadline
    BY <1>3, <2>1 DEF PollFeedReturns, PollBatchEnd, PollDeadline
  <2> QED
    BY <1>2, <1>4, <1>7, <1>8, <1>11, <2>1 DEF Poll, PollReadRaises, PollFeedRaises
<1>12. CASE StartPoll \/ DeadlinePasses \/ UNCHANGED vars
  BY <1>3, <1>12 DEF StartPoll, DeadlinePasses, vars, client
<1> QED
  BY <1>2, <1>3, <1>5, <1>6, <1>9, <1>10, <1>11, <1>12 DEF Next, Device

LEMMA StepUnbroken ==
  ASSUME SafeInv, UnbrokenInv, [Next]_vars
  PROVE  UnbrokenInv'
<1> SUFFICES ASSUME faults' = 0
             PROVE  /\ \A i \in 1 .. Len(wire') : wire'[i].mt \notin Broken
                    /\ pending' = NoFragment
  BY DEF UnbrokenInv
<1>1. /\ faults = 0
      /\ UNCHANGED pending
      /\ \/ UNCHANGED wire
         \/ \E item \in Item : item.mt \notin Broken /\ wire' = Append(wire, item)
         \/ wire # << >> /\ wire' = Tail(wire)
  BY UnbrokenStep
<1>2. wire \in Seq(Item) /\ \A i \in 1 .. Len(wire) : wire[i].mt \notin Broken
  BY <1>1 DEF SafeInv, TypeOK, UnbrokenInv
<1>3. ASSUME NEW item \in Item, item.mt \notin Broken, wire' = Append(wire, item)
      PROVE  \A i \in 1 .. Len(wire') : wire'[i].mt \notin Broken
  BY <1>2, <1>3, AppendAt
<1>4. ASSUME wire # << >>, wire' = Tail(wire)
      PROVE  \A i \in 1 .. Len(wire') : wire'[i].mt \notin Broken
  BY <1>2, <1>4, TailAt
<1> QED
  BY <1>1, <1>2, <1>3, <1>4 DEF UnbrokenInv

\* The response to the command in progress is still on its way.
OnItsWay == \E i \in 1 .. Len(wire) : wire[i].mt = "response" /\ wire[i].id = Current
StillOwed == \E i \in 1 .. Len(unanswered) : unanswered[i] = Current

\* A step that is no part of the client's loops loses nothing of it.
LEMMA ComingStays ==
  ASSUME SafeInv, UNCHANGED << commands, response >>,
         StillOwed \/ OnItsWay \/ response # NoResponse,
         UNCHANGED unanswered,
         UNCHANGED wire \/ \E item \in Item : wire' = Append(wire, item)
  PROVE  (StillOwed \/ OnItsWay \/ response # NoResponse)'
<1>1. wire \in Seq(Item)
  BY DEF SafeInv, TypeOK
<1>2. CASE StillOwed \/ response # NoResponse
  BY <1>2 DEF StillOwed, Current
<1>3. CASE OnItsWay
  <2>1. PICK i \in 1 .. Len(wire) : wire[i].mt = "response" /\ wire[i].id = Current
    BY <1>3 DEF OnItsWay
  <2>2. i \in 1 .. Len(wire') /\ wire'[i] = wire[i]
    BY <1>1, AppendAt
  <2> QED
    BY <2>1, <2>2 DEF OnItsWay, Current
<1> QED
  BY <1>2, <1>3

LEMMA InitStillComing == Init => ResponseStillComing
  BY DEF Init, ResponseStillComing, Waiting

LEMMA StepStillComing ==
  ASSUME SafeInv, UnbrokenInv, ResponseStillComing, [Next]_vars
  PROVE  ResponseStillComing'
<1> DEFINE Coming == StillOwed \/ OnItsWay \/ response # NoResponse
<1>1. SUFFICES ASSUME Waiting', faults' = 0 PROVE Coming'
  BY DEF ResponseStillComing, StillOwed, OnItsWay
<1>2. /\ faults = 0
      /\ \/ UNCHANGED wire
         \/ \E item \in Item : wire' = Append(wire, item)
         \/ wire # << >> /\ wire' = Tail(wire) /\ (AwaitMessage \/ PollMessage)
  BY <1>1, UnbrokenStep
<1>3. Waiting => Coming
  BY <1>2 DEF ResponseStillComing, StillOwed, OnItsWay
<1>4. ASSUME Waiting, UNCHANGED << commands, response, unanswered >>,
             ~AwaitMessage, ~PollMessage
      PROVE  Coming'
  BY <1>2, <1>3, <1>4, ComingStays
<1>5. CASE Respond
  <2> DEFINE id == Head(unanswered)
             item == [ mt |-> "response", key |-> commands[id], id |-> id ]
  <2>1. /\ wire' = Append(wire, item)
        /\ UNCHANGED << pc, response, commands, outcomes >>
        /\ unanswered # << >>
        /\ unanswered' = Tail(unanswered)
    BY <1>5 DEF Respond, client
  <2>2. id \in 1 .. Len(commands)
    BY <2>1, OwedShrinks
  <2>3. item \in Item /\ item.mt = "response" /\ item.id = id
    <3> HIDE DEF id
    <3> QED
      BY <2>2 DEF SafeInv, TypeOK, Item
  <2> HIDE DEF item
  <2>4. /\ wire \in Seq(Item)
        /\ Len(wire) \in Nat
        /\ Len(wire') = Len(wire) + 1
        /\ \A i \in 1 .. Len(wire) : wire'[i] = wire[i]
        /\ wire'[Len(wire) + 1] = item
    BY <2>1, <2>3, AppendAt DEF SafeInv, TypeOK
  <2>5. Coming
    BY <1>1, <1>3, <2>1 DEF Waiting
  <2>6. CASE response # NoResponse
    BY <2>1, <2>6
  <2>7. CASE OnItsWay
    BY <2>1, <2>4, <2>7 DEF OnItsWay, Current
  <2>8. CASE StillOwed
    <3>1. PICK i \in 1 .. Len(unanswered) : unanswered[i] = Current
      BY <2>8 DEF StillOwed
    <3>2. /\ Len(unanswered) \in Nat \ {0}
          /\ Len(unanswered') = Len(unanswered) - 1
          /\ \A j \in 1 .. Len(unanswered) - 1 : unanswered'[j] = unanswered[j + 1]
          /\ id = unanswered[1]
      BY <2>1, TailAt DEF SafeInv, TypeOK
    <3>3. CASE i = 1
      <4>1. Len(wire) + 1 \in 1 .. Len(wire') /\ wire'[Len(wire) + 1].id = Current'
        BY <2>1, <2>3, <2>4, <3>1, <3>2, <3>3 DEF Current
      <4> QED
        BY <2>3, <2>4, <4>1 DEF OnItsWay
    <3>4. CASE i # 1
      <4>1. i - 1 \in 1 .. Len(unanswered') /\ unanswered'[i - 1] = Current'
        BY <2>1, <3>1, <3>2, <3>4 DEF Current
      <4> QED
        BY <4>1 DEF StillOwed
    <3> QED
      BY <3>3, <3>4
  <2> QED
    BY <2>5, <2>6, <2>7, <2>8
<1>6. ASSUME NEW key \in Key, Notify(key)
      PROVE  Coming'
  <2>1. UNCHANGED << pc, commands, response, unanswered >> /\ Waiting
    BY <1>1, <1>6 DEF Notify, client, Waiting
  <2>2. \E item \in Item : wire' = Append(wire, item)
    <3> DEFINE item == [ mt |-> "notification", key |-> key, id |-> Len(emitted) + 1 ]
    <3>1. wire' = Append(wire, item)
      BY <1>6 DEF Notify
    <3>2. item \in Item
      BY DEF SafeInv, TypeOK, Item
    <3> HIDE DEF item
    <3> QED
      BY <3>1, <3>2
  <2> QED
    BY <1>3, <2>1, <2>2, ComingStays
<1>7. CASE Device
  BY <1>2, <1>5, <1>6, <1>7, <1>1 DEF Device, Ignore, Garble
<1>8. ASSUME NEW key \in Key, SendCommand(key)
      PROVE  Coming'
  <2>1. /\ commands' = Append(commands, key)
        /\ unanswered' = Append(unanswered, Len(commands'))
    BY <1>8 DEF SendCommand
  <2>2. Len(commands') \in Nat
    BY <2>1, AppendAt DEF SafeInv, TypeOK
  <2>3. /\ Len(unanswered) + 1 \in 1 .. Len(unanswered')
        /\ unanswered'[Len(unanswered) + 1] = Current'
    BY <2>1, <2>2, AppendAt DEF SafeInv, TypeOK, Current
  <2> QED
    BY <2>3 DEF StillOwed
<1>9. CASE AwaitMessage
  <2> DEFINE message == Head(wire)
  <2>1. /\ Waiting
        /\ wire # << >>
        /\ wire' = Tail(wire)
        /\ response' = IF Matches(message) THEN message ELSE response
        /\ UNCHANGED << commands, unanswered >>
    BY <1>9 DEF AwaitMessage, TakeMessage, Waiting, device, SafeInv, TypeOK, CallsInv
  <2>2. /\ Len(wire) \in Nat \ {0}
        /\ Len(wire') = Len(wire) - 1
        /\ \A j \in 1 .. Len(wire) - 1 : wire'[j] = wire[j + 1]
        /\ message = wire[1]
    BY <2>1, TailAt DEF SafeInv, TypeOK
  <2>3. CASE StillOwed
    BY <2>1, <2>3 DEF StillOwed, Current
  <2>4. CASE Matches(message)
    <3>1. response'.mt = "response"
      BY <2>1, <2>4 DEF Matches
    <3> QED
      BY <3>1 DEF NoResponse
  <2>5. CASE ~Matches(message) /\ response # NoResponse
    BY <2>1, <2>5
  <2>6. CASE ~Matches(message) /\ OnItsWay
    <3>1. PICK i \in 1 .. Len(wire) : wire[i].mt = "response" /\ wire[i].id = Current
      BY <2>6 DEF OnItsWay
    <3>2. wire[i].key = commands[Current]
      BY <3>1 DEF SafeInv, OutstandingInv, WireAnswers, IsResponse
    <3>3. i # 1
      BY <2>2, <2>6, <3>1, <3>2 DEF Matches
    <3>4. i - 1 \in 1 .. Len(wire') /\ wire'[i - 1] = wire[i]
      BY <2>2, <3>3
    <3> QED
      BY <2>1, <3>1, <3>4 DEF OnItsWay, Current
  <2> QED
    BY <1>3, <2>1, <2>3, <2>4, <2>5, <2>6
<1>10. CASE Await
  <2>1. CASE AwaitDeadline \/ AwaitReadRaises \/ AwaitDecode \/ AwaitFeedRaises
               \/ AwaitBatchEnd
    <3>1. Waiting /\ UNCHANGED << commands, response >> /\ ~AwaitMessage /\ ~PollMessage
      BY <2>1 DEF AwaitDeadline, AwaitReadRaises, AwaitDecode, AwaitFeedRaises,
                  AwaitBatchEnd, Waiting, AwaitMessage, PollMessage, DecodeItem,
                  FeedRaises, ReadRaises, TakeMessage
    <3>2. UNCHANGED unanswered
      BY <2>1 DEF AwaitDeadline, AwaitReadRaises, AwaitDecode, AwaitFeedRaises,
                  AwaitBatchEnd, device, ReadRaises
    <3> QED
      BY <1>4, <3>1, <3>2
  <2>2. CASE AwaitFeedReturns
    <3>1. /\ Waiting
          /\ response = NoResponse
          /\ UNCHANGED << commands, response, unanswered >>
          /\ ~AwaitMessage
          /\ ~PollMessage
      BY <2>2 DEF AwaitFeedReturns, Waiting, device, AwaitMessage, PollMessage,
                  SafeInv, CallsInv
    <3> QED
      BY <1>4, <3>1
  <2> QED
    BY <1>9, <1>10, <2>1, <2>2 DEF Await
<1>11. CASE Poll
  BY <1>1, <1>11 DEF Poll, PollReadRaises, PollDecode, PollFeedRaises, PollFeedReturns,
                     PollMessage, PollBatchEnd, PollDeadline, Waiting
<1>12. CASE StartPoll
  BY <1>1, <1>12 DEF StartPoll, Waiting
<1>13. CASE DeadlinePasses \/ UNCHANGED vars
  <2>1. UNCHANGED << pc, commands, response, unanswered, wire >>
    BY <1>13 DEF DeadlinePasses, vars, client, device
  <2> QED
    BY <1>1, <1>3, <2>1, ComingStays DEF Waiting
<1> QED
  BY <1>1, <1>7, <1>8, <1>10, <1>11, <1>12, <1>13, <1>2
     DEF Next, SendCommandRaises

\* Until there is a fault, a call that waits can still be answered: nothing that
\* the client does with the stream throws the response to its command away.
THEOREM StillComing == Safety => []ResponseStillComing
<1>1. SafeInv /\ UnbrokenInv /\ [Next]_vars => UnbrokenInv'
  BY StepUnbroken
<1>2. SafeInv /\ UnbrokenInv /\ ResponseStillComing /\ [Next]_vars
        => ResponseStillComing'
  BY StepStillComing
<1> QED
  BY <1>1, <1>2, InitUnbroken, InitStillComing, SafeInvariant, PTL DEF Safety
=============================================================================
