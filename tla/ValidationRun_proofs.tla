------------------------ MODULE ValidationRun_proofs ------------------------
(***************************************************************************)
(* Proofs about ValidationRun, for every bound on the faults.              *)
(***************************************************************************)
EXTENDS ValidationRunInvariant, SequenceFacts

-----------------------------------------------------------------------------
(* The checks.                                                              *)

LEMMA Table ==
  /\ Len(Specs) = 11
  /\ Specs[1] = Check("CORE_RESET", FALSE, "OK", "none")
  /\ Specs[2] = Check("CORE_GET_DEVICE_INFO", FALSE, "OK", "none")
  /\ Specs[3] = Check("CORE_GET_CAPS", FALSE, "OK", "none")
  /\ Specs[4] = Check("SESSION_INIT", FALSE, "OK", "none")
  /\ Specs[5] = Check("SESSION_GET_STATE", TRUE, "OK", "INIT")
  /\ Specs[6] = Check("SESSION_GET_COUNT", FALSE, "OK", "1")
  /\ Specs[7] = Check("RANGING_GET_COUNT", TRUE, "OK", "0")
  /\ Specs[8] = Check("RANGING_START", TRUE, "NOT_CONFIGURED", "none")
  /\ Specs[9] = Check("RANGING_STOP", TRUE, "NOT_CONFIGURED", "none")
  /\ Specs[10] = Check("SESSION_DEINIT", TRUE, "OK", "none")
  /\ Specs[11] = Check("SESSION_GET_COUNT", FALSE, "OK", "0")
  BY DEF Specs

\* Only SESSION_GET_COUNT is sent by two checks.
LEMMA Entry ==
  ASSUME NEW i \in 1 .. 11
  PROVE  /\ Specs[i].command \in Key
         /\ Specs[i].command = "CORE_RESET" <=> i = 1
         /\ Specs[i].command = "CORE_GET_DEVICE_INFO" <=> i = 2
         /\ Specs[i].command = "CORE_GET_CAPS" <=> i = 3
         /\ Specs[i].command = "SESSION_INIT" <=> i = 4
         /\ Specs[i].command = "SESSION_GET_STATE" <=> i = 5
         /\ Specs[i].command = "SESSION_GET_COUNT" <=> i \in { 6, 11 }
         /\ Specs[i].command = "RANGING_GET_COUNT" <=> i = 7
         /\ Specs[i].command = "RANGING_START" <=> i = 8
         /\ Specs[i].command = "RANGING_STOP" <=> i = 9
         /\ Specs[i].command = "SESSION_DEINIT" <=> i = 10
         /\ Specs[i].needsHandle <=> i \in { 5, 7, 8, 9, 10 }
         /\ Specs[i].status = IF i \in { 8, 9 } THEN "NOT_CONFIGURED" ELSE "OK"
         /\ Specs[i].value = IF i = 5 THEN "INIT" ELSE IF i = 6 THEN "1"
                             ELSE IF i \in { 7, 11 } THEN "0" ELSE "none"
<1>1. Specs[i].command \in Key
  BY Table DEF Key
<1>2. \/ i = 1 \/ i = 2 \/ i = 3 \/ i = 4 \/ i = 5 \/ i = 6 \/ i = 7 \/ i = 8 \/ i = 9
      \/ i = 10 \/ i = 11
  OBVIOUS
<1>3. CASE i \in 1 .. 4
  BY <1>1, <1>2, <1>3, Table DEF Check
<1>4. CASE i \in 5 .. 8
  BY <1>1, <1>2, <1>4, Table DEF Check
<1>5. CASE i \in 9 .. 11
  BY <1>1, <1>2, <1>5, Table DEF Check
<1> QED
  BY <1>3, <1>4, <1>5

LEMMA SameCommand ==
  ASSUME NEW i \in 1 .. 11, NEW j \in 1 .. 11, Specs[i].command = Specs[j].command, i # j
  PROVE  i \in { 6, 11 } /\ j \in { 6, 11 }
<1>1. /\ i = 1 <=> j = 1
      /\ i = 2 <=> j = 2
      /\ i = 3 <=> j = 3
      /\ i = 4 <=> j = 4
      /\ i = 5 <=> j = 5
      /\ i \in { 6, 11 } <=> j \in { 6, 11 }
      /\ i = 7 <=> j = 7
      /\ i = 8 <=> j = 8
      /\ i = 9 <=> j = 9
      /\ i = 10 <=> j = 10
  BY Entry
<1> QED
  BY <1>1

\* The checks a fault reaches.
LEMMA Reach ==
  ASSUME NEW i \in 1 .. 11
  PROVE  /\ i \in Affected(i)
         /\ leftover => i \in Affected(1)
         /\ i >= 4 => i \in Affected(4)
         /\ 11 \in Affected(6) /\ 11 \in Affected(10)
         /\ i \in { 2, 3 } => Affected(i) = { i }
         /\ ~leftover => Affected(1) = { 1 }
<1>1. /\ Specs[1].command = "CORE_RESET"
      /\ Specs[4].command = "SESSION_INIT"
      /\ Specs[6].command = "SESSION_GET_COUNT"
      /\ Specs[10].command = "SESSION_DEINIT"
      /\ Specs[2].command = "CORE_GET_DEVICE_INFO"
      /\ Specs[3].command = "CORE_GET_CAPS"
  BY Table DEF Check
<1>2. i \in Affected(i)
  BY DEF Affected
<1>3. Affected(1) = { 1 } \cup (IF leftover THEN 1 .. 11 ELSE {})
  BY <1>1, Table DEF Affected
<1>4. Affected(4) = { 4 } \cup 4 .. 11
  BY <1>1, Table DEF Affected
<1>5. 11 \in Affected(6) /\ 11 \in Affected(10)
  BY <1>1, Table DEF Affected
<1>6. Affected(2) = { 2 } /\ Affected(3) = { 3 }
  BY <1>1, Table DEF Affected
<1> QED
  BY <1>2, <1>3, <1>4, <1>5, <1>6

\* A check that no fault has spoilt is right about the session.
LEMMA SparedMeans ==
  ASSUME NEW i \in 1 .. 11, Spared(i)
  PROVE  /\ i \notin faulty
         /\ Cleared
         /\ i >= 4 => Ready
         /\ i = 11 => 6 \notin faulty /\ 10 \notin faulty
<1>1. \A k \in faulty : k <= i => i \notin Affected(k)
  BY DEF Spared
<1>2. /\ i \in Affected(i)
      /\ leftover => i \in Affected(1)
      /\ i >= 4 => i \in Affected(4)
      /\ 11 \in Affected(6) /\ 11 \in Affected(10)
  BY Reach
<1> QED
  BY <1>1, <1>2 DEF Cleared, Ready

LEMMA SparedUntilInit ==
  ASSUME TypeOK, Ready
  PROVE  Spared(4)
<1>1. SUFFICES ASSUME NEW k \in faulty, k <= 4 PROVE 4 \notin Affected(k)
  BY DEF Spared
<1>2. k \in { 1, 2, 3, 4 }
  BY <1>1, Table DEF TypeOK
<1>3. k \in { 2, 3 } => Affected(k) = { k }
  BY Reach
<1>4. ~leftover => Affected(1) = { 1 }
  BY Reach
<1> QED
  BY <1>1, <1>2, <1>3, <1>4 DEF Ready, Cleared

\* Faults only spoil more checks.
LEMMA SparedBefore ==
  ASSUME leftover' = leftover, faulty \subseteq faulty', NEW i, Spared(i)'
  PROVE  Spared(i)
  BY DEF Spared, Affected

LEMMA Explained ==
  FailuresExplained <=> \A j \in 1 .. Len(outcomes) : ~outcomes[j] => ~Spared(j)
  BY DEF FailuresExplained, Spared

-----------------------------------------------------------------------------
(* Places.                                                                  *)

LEMMA Now ==
  ASSUME TypeInv
  PROVE  /\ Len(outcomes) \in 0 .. 11
         /\ Running <=> Len(outcomes) \in 0 .. 10
         /\ Running => Current \in 1 .. 11
         /\ Current = Len(outcomes) + 1
         /\ Len(commands) \in Nat /\ Len(returned) \in Nat /\ Len(replies) = Len(commands)
         /\ Calls!Busy <=> Len(returned) < Len(commands)
         /\ Calls!Busy => Len(commands) = Len(returned) + 1
         /\ ~Calls!Busy => Len(commands) = Len(returned)
         /\ Begun = IF Calls!Busy THEN Current ELSE Current - 1
<1>1. Len(outcomes) \in Nat /\ Len(outcomes) <= 11
  BY Table DEF TypeInv, TypeOK
<1>2. Len(commands) \in Nat /\ Len(returned) \in Nat /\ Len(replies) = Len(commands)
  BY DEF TypeInv, TypeOK
<1>3. Len(returned) <= Len(commands) /\ Len(commands) <= Len(returned) + 1
  BY DEF TypeInv, TypeOK
<1>4. Len(Specs) = 11
  BY Table
<1>5. Calls!Busy <=> Len(returned) < Len(commands)
  BY DEF Calls!Busy
<1>6. /\ Running <=> Len(outcomes) \in 0 .. 10
      /\ Current = Len(outcomes) + 1
  <2>1. PICK n \in Nat : n = Len(outcomes)
    BY <1>1
  <2>2. Running <=> n < 11
    BY <1>4, <2>1 DEF Running
  <2>3. n < 11 => n \in 0 .. 10
    OBVIOUS
  <2>4. n \in 0 .. 10 => n < 11
    OBVIOUS
  <2> QED
    BY ONLY <2>1, <2>2, <2>3, <2>4 DEF Current
<1>7. Current \in Int
  BY <1>1, <1>6
<1>8. Begun = IF Calls!Busy THEN Current ELSE Current - 1
  BY <1>1, <1>6 DEF Begun
<1>9. /\ Calls!Busy => Len(commands) = Len(returned) + 1
      /\ ~Calls!Busy => Len(commands) = Len(returned)
  BY <1>2, <1>3, <1>5
<1>10. Len(outcomes) \in 0 .. 11
  <2>1. \A n \in Nat : n <= 11 => n \in 0 .. 11
    OBVIOUS
  <2> QED
    BY <1>1, <2>1
<1>11. Running => Current \in 1 .. 11
  <2>1. \A n \in 0 .. 10 : n + 1 \in 1 .. 11
    OBVIOUS
  <2> QED
    BY <1>6, <2>1
<1> QED
  BY ONLY <1>1, <1>2, <1>5, <1>6, <1>8, <1>9, <1>10, <1>11

LEMMA NextPlace ==
  ASSUME NEW n \in 0 .. 10, n + 1 \in { 5, 7, 8, 9, 10 } => handle # "none"
  PROVE  /\ CheckOf(CommandsOf(n) + 1) = n + 1
         /\ CommandsOf(n + 1) = CommandsOf(n) + 1
  BY DEF CheckOf, CommandsOf

LEMMA SkippedPlace ==
  ASSUME NEW n \in 0 .. 10, n + 1 \in { 5, 7, 8, 9, 10 }, handle = "none"
  PROVE  CommandsOf(n + 1) = CommandsOf(n)
  BY DEF CommandsOf

\* A command belongs to one of the checks begun.
LEMMA CheckBounds ==
  ASSUME TypeInv, PlaceInv, NEW m \in 1 .. Len(commands)
  PROVE  CheckOf(m) \in 1 .. 11
<1>1. Len(outcomes) \in 0 .. 11 /\ Len(returned) = CommandsOf(Len(outcomes))
  BY Now DEF PlaceInv
<1>2. Calls!Busy => CheckOf(Len(commands)) \in 1 .. 11
  BY Now DEF PlaceInv
<1>3. m <= Len(returned) \/ (Calls!Busy /\ m = Len(commands))
  <2>1. Len(returned) \in Nat /\ Len(commands) \in Nat
    BY Now
  <2>2. CASE Calls!Busy
    BY <2>1, <2>2, Now
  <2>3. CASE ~Calls!Busy
    BY <2>1, <2>3, Now
  <2> QED
    BY <2>2, <2>3
<1>4. m \in Nat /\ m >= 1
  BY Now
<1>5. m <= Len(returned) => CheckOf(m) \in 1 .. 11
  <2>1. CASE handle = "none"
    BY <1>4, <2>1 DEF CheckOf
  <2>2. CASE handle # "none"
    <3>1. CommandsOf(Len(outcomes)) = Len(outcomes) /\ CheckOf(m) = m
      BY <2>2 DEF CheckOf, CommandsOf
    <3> QED
      BY <1>1, <1>4, <3>1
  <2> QED
    BY <2>1, <2>2
<1> QED
  BY <1>2, <1>3, <1>5

\* The commands are sent in the order of the checks.
LEMMA PlacesRise ==
  ASSUME NEW m \in Nat, NEW n \in Nat, 1 <= m, m < n, handle # "none" \/ n <= 6
  PROVE  CheckOf(m) < CheckOf(n)
  BY DEF CheckOf

-----------------------------------------------------------------------------
(* Types.                                                                   *)

LEMMA InitType == Init => TypeInv
<1> SUFFICES ASSUME Init PROVE TypeInv
  OBVIOUS
<1>1. /\ commands = << >> /\ returned = << >> /\ replies = << >> /\ outcomes = << >>
  BY DEF Init, Calls!Init
<1>2. Len(outcomes) = 0 /\ Len(returned) = 0 /\ Len(commands) = 0 /\ Len(replies) = 0
  BY <1>1
<1>3. TypeOK
  BY <1>1, <1>2, Table DEF TypeOK, Init
<1> QED
  BY <1>1, <1>3 DEF TypeInv

LEMMA RecordType ==
  ASSUME TypeInv, Running, NEW b \in BOOLEAN, Record(b)
  PROVE  /\ outcomes' \in Seq(BOOLEAN)
         /\ Len(outcomes') = Current
         /\ Len(outcomes') <= Len(Specs)
         /\ outcomes'[Current] = b
         /\ \A j \in 1 .. Len(outcomes) : outcomes'[j] = outcomes[j]
<1>1. outcomes \in Seq(BOOLEAN) /\ outcomes' = Append(outcomes, b)
  BY DEF TypeInv, TypeOK, Record
<1>2. Len(outcomes) \in Nat /\ Len(outcomes) < 11 /\ Len(Specs) = 11
  BY Now, Table
<1> QED
  BY <1>1, <1>2 DEF Current

LEMMA SendsType ==
  ASSUME TypeInv, Sends, NEW r \in Replies \cup { NoReply }, replies' = Append(replies, r),
         session' \in BOOLEAN, faulty' \subseteq 1 .. Len(Specs)
  PROVE  TypeInv'
<1>1. ~Calls!Busy /\ commands' = Append(commands, Command) /\ returned' = returned
      /\ handle' = handle /\ outcomes' = outcomes /\ leftover' = leftover /\ Running
  BY DEF Sends, Calls!Call
<1>2. Command \in Key
  BY <1>1, Now, Entry DEF Command
<1>3. commands \in Seq(Key) /\ replies \in Seq(Replies \cup { NoReply })
  BY DEF TypeInv
<1>4. /\ commands' \in Seq(Key) /\ Len(commands') = Len(commands) + 1
      /\ replies' \in Seq(Replies \cup { NoReply }) /\ Len(replies') = Len(replies) + 1
  BY <1>1, <1>2, <1>3
<1>5. Len(commands) = Len(returned) /\ Len(replies) = Len(commands) /\ Len(commands) \in Nat
  BY <1>1, Now
<1>6. TypeOK'
  BY <1>1, <1>4, <1>5 DEF TypeInv, TypeOK
<1> QED
  BY <1>1, <1>4, <1>6 DEF TypeInv

LEMMA ReturnedType ==
  ASSUME TypeInv, Calls!Busy, UNCHANGED << commands, replies, leftover, session >>,
         NEW e \in Responses \cup { TimedOut }, returned' = Append(returned, e),
         outcomes' \in Seq(BOOLEAN), Len(outcomes') <= Len(Specs),
         handle' \in { "none", "valid", "wrong" }, faulty' \subseteq 1 .. Len(Specs)
  PROVE  TypeInv'
<1>1. returned \in Seq(Responses \cup { TimedOut })
  BY DEF TypeInv
<1>2. returned' \in Seq(Responses \cup { TimedOut }) /\ Len(returned') = Len(returned) + 1
  BY <1>1
<1>3. Len(commands) = Len(returned) + 1 /\ Len(returned) \in Nat /\ Len(replies) = Len(commands)
  BY Now
<1>4. TypeOK'
  BY <1>2, <1>3 DEF TypeInv, TypeOK
<1> QED
  BY <1>2, <1>4 DEF TypeInv
-----------------------------------------------------------------------------
(* A command is sent.                                                       *)

LEMMA SendsParts ==
  ASSUME TypeInv, Sends
  PROVE  /\ Running /\ ~Calls!Busy
         /\ Current \in 1 .. 11 /\ Len(outcomes) = Current - 1 /\ Begun = Current - 1
         /\ Current \in { 5, 7, 8, 9, 10 } => handle # "none"
         /\ Command = Specs[Current].command
         /\ UNCHANGED << handle, outcomes, leftover, returned >>
         /\ Len(commands') = Len(commands) + 1 /\ Len(commands) = Len(returned)
         /\ commands'[Len(commands')] = Command
         /\ \A m \in 1 .. Len(commands) : commands'[m] = commands[m]
         /\ Current' = Current /\ Calls!Busy' /\ Begun' = Current
<1>1. /\ Running /\ ~Calls!Busy
      /\ Specs[Current].needsHandle => handle # "none"
      /\ UNCHANGED << handle, outcomes, leftover, returned >>
      /\ commands' = Append(commands, Command)
  BY DEF Sends, Calls!Call
<1>2. /\ Current \in 1 .. 11 /\ Len(outcomes) = Current - 1 /\ Begun = Current - 1
  <2>1. Current = Len(outcomes) + 1 /\ Len(outcomes) \in 0 .. 11 /\ Current \in 1 .. 11
    BY <1>1, Now
  <2>2. Begun = Current - 1
    BY <1>1, Now
  <2> QED
    BY <2>1, <2>2
<1>3. Current \in { 5, 7, 8, 9, 10 } => handle # "none"
  BY <1>1, <1>2, Entry
<1>4. Len(commands) = Len(returned) /\ Len(commands) \in Nat /\ commands \in Seq(Key)
  BY <1>1, Now DEF TypeInv
<1>5. /\ Len(commands') = Len(commands) + 1
      /\ commands'[Len(commands')] = Command
      /\ \A m \in 1 .. Len(commands) : commands'[m] = commands[m]
  <2>1. PICK c : c = Command
    OBVIOUS
  <2>2. Command \in Key
    BY <1>2, Entry DEF Command
  <2> QED
    BY <1>1, <1>4, <2>1, <2>2
<1>6. Current' = Current
  BY <1>1 DEF Current
<1>7. Calls!Busy'
  BY <1>1, <1>4, <1>5 DEF Calls!Busy
<1>8. Begun' = Current
  BY <1>6, <1>7 DEF Begun
<1> QED
  BY <1>1, <1>2, <1>3, <1>4, <1>5, <1>6, <1>7, <1>8 DEF Command

LEMMA SendsPlace ==
  ASSUME TypeInv, PlaceInv, Sends, faulty \subseteq faulty'
  PROVE  PlaceInv'
<1>1. /\ Running /\ Current \in 1 .. 11 /\ Len(outcomes) = Current - 1
      /\ Current \in { 5, 7, 8, 9, 10 } => handle # "none"
      /\ Command = Specs[Current].command
      /\ UNCHANGED << handle, outcomes, leftover, returned >>
      /\ Len(commands') = Len(commands) + 1 /\ Len(commands) = Len(returned)
      /\ commands'[Len(commands')] = Command
      /\ \A m \in 1 .. Len(commands) : commands'[m] = commands[m]
      /\ Current' = Current /\ Calls!Busy'
  BY SendsParts
<1>2. Len(returned) = CommandsOf(Len(outcomes))
  BY DEF PlaceInv
<1>3. CheckOf(Len(commands')) = Current
  <2>1. PICK n \in 0 .. 10 : n = Len(outcomes) /\ n + 1 = Current
    BY <1>1
  <2>2. CheckOf(CommandsOf(n) + 1) = n + 1
    BY <1>1, <2>1, NextPlace
  <2> QED
    BY <1>1, <1>2, <2>1, <2>2
<1>4. /\ \A m : CheckOf(m)' = CheckOf(m)
      /\ \A m : CommandsOf(m)' = CommandsOf(m)
  BY <1>1 DEF CheckOf, CommandsOf
<1>5. Len(commands) \in Nat
  BY Now
<1>6. ASSUME NEW m \in 1 .. Len(commands')
      PROVE  commands'[m] = Specs[CheckOf(m)'].command
  <2>1. m \in 1 .. Len(commands) \/ m = Len(commands')
    BY <1>1, <1>5
  <2>2. m \in 1 .. Len(commands) => commands[m] = Specs[CheckOf(m)].command
    BY DEF PlaceInv
  <2> QED
    BY <1>1, <1>3, <1>4, <2>1, <2>2
<1>7. (Len(returned) = CommandsOf(Len(outcomes)))'
  BY <1>1, <1>2, <1>4
<1>8. (Len(outcomes) < 4 => handle = "none")'
  BY <1>1 DEF PlaceInv
<1>9. (Running /\ CheckOf(Len(commands)) = Current)'
  BY <1>1, <1>3, <1>4 DEF Running, CheckOf
<1>10. ASSUME NEW m \in 1 .. Len(returned'), returned'[m] = TimedOut
       PROVE  CheckOf(m)' \in faulty'
  BY <1>1, <1>4, <1>10 DEF PlaceInv
<1> QED
  BY <1>6, <1>7, <1>8, <1>9, <1>10 DEF PlaceInv

\* What is recorded stays explained, and nothing is recorded.
LEMMA SendsResults ==
  ASSUME TypeInv, FailuresExplained, Sends, faulty \subseteq faulty'
  PROVE  FailuresExplained' /\ NoSessionIfLastPasses'
<1>1. UNCHANGED << outcomes, leftover >> /\ Len(outcomes) = Current - 1 /\ Current \in 1 .. 11
  BY SendsParts
<1>2. FailuresExplained'
  <2>1. ASSUME NEW i PROVE Affected(i)' = Affected(i)
    BY <1>1 DEF Affected
  <2> QED
    BY <1>1, <2>1 DEF FailuresExplained
<1>3. NoSessionIfLastPasses'
  <2>1. Len(Specs) = 11 /\ Len(outcomes') # 11
    BY <1>1, Table
  <2> QED
    BY <2>1 DEF NoSessionIfLastPasses
<1> QED
  BY <1>2, <1>3

\* What the device does to its session when it obeys.
LEMMA Obeys ==
  ASSUME TypeInv, Sends, DeviceObeys
  PROVE  /\ session' \in BOOLEAN
         /\ Current = 1 => ~session'
         /\ Current = 4 => session'
         /\ Current = 10 /\ handle = "valid" => ~session'
         /\ Current \notin { 1, 4, 10 } => session' = session
         /\ Current # 4 /\ ~session => ~session'
<1>1. Current \in 1 .. 11 /\ Command = Specs[Current].command
  BY SendsParts
<1>2. /\ Command = "SESSION_INIT" <=> Current = 4
      /\ Command = "CORE_RESET" <=> Current = 1
      /\ Command = "SESSION_DEINIT" <=> Current = 10
  BY <1>1, Entry
<1>3. session \in BOOLEAN
  BY DEF TypeInv, TypeOK
<1>4. CASE Current = 4
  <2>1. session' = TRUE
    BY <1>2, <1>4 DEF DeviceObeys
  <2> QED
    BY <1>4, <2>1
<1>5. CASE Current = 1
  <2>1. session' = FALSE
    BY <1>2, <1>5 DEF DeviceObeys
  <2>2. Current # 4
    BY <1>5
  <2>3. session' \in BOOLEAN /\ ~session'
    BY <2>1
  <2> QED
    BY ONLY <1>5, <2>2, <2>3
<1>6. CASE Current = 10
  <2>1. session' = (session /\ ~Addressed)
    BY <1>2, <1>6 DEF DeviceObeys
  <2>2. session' \in BOOLEAN
    BY <2>1
  <2>3. handle = "valid" => ~session'
    BY <2>1 DEF Addressed
  <2>4. ~session => ~session'
    BY <2>1
  <2>5. Current # 1 /\ Current # 4
    BY <1>6
  <2> QED
    BY ONLY <1>6, <2>2, <2>3, <2>4, <2>5
<1>7. CASE Current \notin { 1, 4, 10 }
  <2>1. session' = session
    BY <1>2, <1>7 DEF DeviceObeys
  <2> QED
    BY <1>3, <1>7, <2>1
<1> QED
  BY <1>4, <1>5, <1>6, <1>7

LEMMA RepliesParts ==
  ASSUME NEW status \in { "OK", "DUPLICATE", "NOT_EXIST", "NOT_CONFIGURED", "FAILED", "UNKNOWN" },
         NEW value \in { "none", "INIT", "0", "1" }
  PROVE  Reply(status, value) \in Replies /\ Short(status) \in Replies
  BY DEF Reply, Short, Replies

LEMMA DeviceType ==
  ASSUME TypeInv, Sends, NEW reply \in DeviceReplies
  PROVE  reply \in Replies
<1>1. /\ Reply("OK", "none") \in Replies /\ Reply("DUPLICATE", "none") \in Replies
      /\ Short("DUPLICATE") \in Replies /\ Reply("OK", "1") \in Replies
      /\ Reply("OK", "0") \in Replies /\ Short("NOT_EXIST") \in Replies
      /\ Reply("OK", "INIT") \in Replies /\ Short("NOT_CONFIGURED") \in Replies
  BY RepliesParts
<1> QED
  BY <1>1 DEF DeviceReplies

\* A reply of a device that nothing has gone wrong with so far.
LEMMA DeviceRight ==
  ASSUME TypeInv, SessionInv, Sends, NEW reply \in DeviceReplies, Spared(Current)
  PROVE  reply.status = Specs[Current].status /\ reply # NoReply
         /\ ~MethodRaises(reply) /\ Validates(reply)
<1>1. /\ Current \in 1 .. 11 /\ Command = Specs[Current].command
      /\ Begun = Current - 1 /\ Len(outcomes) = Current - 1
  BY SendsParts
<1>2. PICK i \in 1 .. 11 : i = Current
  BY <1>1
<1>3. /\ i = 4 => ~session
      /\ i \in 5 .. 10 => Addressed
      /\ i = 6 => session
      /\ i = 11 => ~session
  <2>1. Cleared /\ (i >= 4 => Ready) /\ (i = 11 => 10 \notin faulty)
    BY <1>2, SparedMeans
  <2>2. i = 4 => ~session
    BY <1>1, <1>2, <2>1 DEF SessionInv
  <2>3. i \in 5 .. 10 => session
    <3>1. i \in 5 .. 10 => Begun \in 4 .. 9 /\ Ready
      BY <1>1, <1>2, <2>1
    <3> QED
      BY <3>1 DEF SessionInv
  <2>4. i \in 5 .. 10 => handle = "valid"
    <3>1. i \in 5 .. 10 => Len(outcomes) >= 4 /\ Ready
      BY <1>1, <1>2, <2>1
    <3> QED
      BY <3>1 DEF SessionInv
  <2>5. i = 11 => ~session
    BY <1>1, <1>2, <2>1 DEF SessionInv
  <2> QED
    BY <2>2, <2>3, <2>4, <2>5 DEF Addressed
<1>4. reply = IF i = 5 THEN Reply("OK", "INIT") ELSE IF i = 6 THEN Reply("OK", "1")
              ELSE IF i \in { 7, 11 } THEN Reply("OK", "0")
              ELSE IF i \in { 8, 9 } THEN Short("NOT_CONFIGURED") ELSE Reply("OK", "none")
  <2>1. /\ Command = "CORE_RESET" <=> i = 1
        /\ Command = "CORE_GET_DEVICE_INFO" <=> i = 2
        /\ Command = "CORE_GET_CAPS" <=> i = 3
        /\ Command = "SESSION_INIT" <=> i = 4
        /\ Command = "SESSION_GET_STATE" <=> i = 5
        /\ Command = "SESSION_GET_COUNT" <=> i \in { 6, 11 }
        /\ Command = "RANGING_GET_COUNT" <=> i = 7
        /\ Command = "SESSION_DEINIT" <=> i = 10
        /\ Specs[Current].needsHandle <=> i \in { 5, 7, 8, 9, 10 }
    BY <1>1, <1>2, Entry
  <2>2. CASE i \in 1 .. 4
    BY <1>3, <2>1, <2>2 DEF DeviceReplies
  <2>3. CASE i \in { 5, 6, 7 }
    BY <1>3, <2>1, <2>3 DEF DeviceReplies
  <2>4. CASE i \in { 8, 9, 10 }
    BY <1>3, <2>1, <2>4 DEF DeviceReplies
  <2>5. CASE i = 11
    BY <1>3, <2>1, <2>5 DEF DeviceReplies
  <2> QED
    BY <2>2, <2>3, <2>4, <2>5
<1>5. /\ Specs[Current].status = IF i \in { 8, 9 } THEN "NOT_CONFIGURED" ELSE "OK"
      /\ Specs[Current].value = IF i = 5 THEN "INIT" ELSE IF i = 6 THEN "1"
                                ELSE IF i \in { 7, 11 } THEN "0" ELSE "none"
  BY <1>2, Entry
<1>6. /\ reply.status = Specs[Current].status
      /\ reply.status # "UNKNOWN" /\ reply.status # "none"
      /\ Specs[Current].value \in { "none", reply.value }
      /\ i \notin { 8, 9 } => reply.full
  BY <1>4, <1>5 DEF Reply, Short
<1>7. TakesValue => i \notin { 8, 9 }
  BY <1>1, <1>2, Entry DEF TakesValue
<1>8. ~MethodRaises(reply)
  BY <1>6, <1>7 DEF MethodRaises
<1>9. reply # NoReply
  BY <1>6 DEF NoReply
<1> QED
  BY <1>6, <1>8, <1>9 DEF Validates

LEMMA DeviceCounts ==
  ASSUME TypeInv, Sends, Reply("OK", "0") \in DeviceReplies, Command = "SESSION_GET_COUNT"
  PROVE  ~session
<1>1. ~Specs[Current].needsHandle
  BY SendsParts, Entry
<1>2. DeviceReplies = { Reply("OK", IF session THEN "1" ELSE "0") }
  BY <1>1 DEF DeviceReplies
<1> QED
  BY <1>2 DEF Reply

LEMMA SendsReply ==
  ASSUME TypeInv, Sends, NEW r \in Replies \cup { NoReply }, replies' = Append(replies, r)
  PROVE  /\ replies'[Len(commands')] = r
         /\ \A m \in 1 .. Len(commands) : replies'[m] = replies[m]
<1>1. Len(replies) = Len(commands) /\ Len(commands') = Len(commands) + 1
  BY SendsParts, Now
<1>2. replies \in Seq(Replies \cup { NoReply })
  BY DEF TypeInv
<1> QED
  BY <1>1, <1>2

\* The count of sessions is asked for when the session is there, or was.
LEMMA SendsCount ==
  ASSUME TypeInv, PlaceInv, CountInv, Sends,
         NEW r \in Replies \cup { NoReply }, replies' = Append(replies, r),
         Current # 4 /\ ~session => ~session',
         Command = "SESSION_GET_COUNT" /\ r = Reply("OK", "0") => ~session'
  PROVE  CountInv'
<1>1. /\ Current \in 1 .. 11 /\ Len(outcomes) = Current - 1
      /\ Len(commands') = Len(commands) + 1 /\ Len(commands) = Len(returned)
      /\ commands'[Len(commands')] = Command
      /\ \A m \in 1 .. Len(commands) : commands'[m] = commands[m]
  BY SendsParts
<1>2. /\ replies'[Len(commands')] = r
      /\ \A m \in 1 .. Len(commands) : replies'[m] = replies[m]
  BY SendsReply
<1>3. SUFFICES ASSUME NEW m \in 1 .. Len(commands'), commands'[m] = "SESSION_GET_COUNT",
                      replies'[m] = Reply("OK", "0")
               PROVE  ~session'
  BY DEF CountInv, Reply
<1>4. m \in 1 .. Len(commands) \/ m = Len(commands')
  <2>1. Len(commands) \in Nat
    BY Now
  <2> QED
    BY <1>1, <2>1
<1>5. CASE m = Len(commands')
  BY <1>1, <1>2, <1>3, <1>5
<1>6. CASE m \in 1 .. Len(commands)
  <2>1. commands[m] = "SESSION_GET_COUNT" /\ ~session
    BY <1>1, <1>2, <1>3, <1>6 DEF CountInv
  <2>2. Current # 4
    <3>1. SUFFICES ASSUME Current = 4 PROVE FALSE
      OBVIOUS
    <3>2. Len(outcomes) = 3
      BY <1>1, <3>1
    <3>3. Len(commands) = 3
      <4>1. Len(returned) = CommandsOf(3)
        BY <3>2 DEF PlaceInv
      <4>2. CommandsOf(3) = 3
        BY DEF CommandsOf
      <4> QED
        BY <1>1, <4>1, <4>2
    <3>4. m \in 1 .. 3
      BY <1>6, <3>3
    <3>5. commands[m] = Specs[m].command
      BY <1>6, <3>4 DEF PlaceInv, CheckOf
    <3> QED
      BY <2>1, <3>4, <3>5, Entry
  <2> QED
    BY <2>1, <2>2
<1> QED
  BY <1>4, <1>5, <1>6

LEMMA AnswersSession ==
  ASSUME TypeInv, SessionInv, Sends, DeviceObeys, faulty' = faulty
  PROVE  SessionInv'
<1>1. /\ Current \in 1 .. 11 /\ Len(outcomes) = Current - 1 /\ Begun = Current - 1
      /\ Begun' = Current /\ UNCHANGED << handle, outcomes, leftover >>
  BY SendsParts
<1>2. PICK i \in 1 .. 11 : i = Current
  BY <1>1
<1>3. /\ Cleared' <=> Cleared
      /\ Ready' <=> Ready
  BY <1>1 DEF Cleared, Ready
<1>4. /\ i = 1 => ~session'
      /\ i = 4 => session'
      /\ i = 10 /\ handle = "valid" => ~session'
      /\ i \notin { 1, 4, 10 } => session' = session
  BY <1>2, Obeys
<1>5. Begun' # 0
  BY <1>1
<1>6. Cleared /\ i \in 1 .. 3 => ~session'
  <2>1. Cleared /\ i \in 2 .. 3 => ~session
    BY <1>1, <1>2 DEF SessionInv
  <2> QED
    BY <1>4, <2>1
<1>7. Ready /\ i \in 4 .. 9 => session'
  <2>1. Ready /\ i \in 5 .. 9 => session
    <3>1. i \in 5 .. 9 => Begun \in 4 .. 9
      BY <1>1, <1>2
    <3> QED
      BY <3>1 DEF SessionInv
  <2> QED
    BY <1>4, <2>1
<1>8. Ready /\ Len(outcomes) >= 4 => handle = "valid"
  BY DEF SessionInv
<1>9. Ready /\ 10 \notin faulty /\ i >= 10 => ~session'
  <2>1. Ready /\ i = 10 => handle = "valid"
    BY <1>1, <1>2, <1>8
  <2>2. Ready /\ 10 \notin faulty /\ i = 11 => ~session
    BY <1>1, <1>2 DEF SessionInv
  <2> QED
    BY <1>4, <2>1, <2>2
<1>10. Begun' = i /\ faulty' = faulty /\ handle' = handle /\ Len(outcomes') = Len(outcomes)
  BY <1>1, <1>2
<1> QED
  BY <1>3, <1>5, <1>6, <1>7, <1>8, <1>9, <1>10 DEF SessionInv

LEMMA FaultSession ==
  ASSUME TypeInv, SessionInv, Sends, session' = session, faulty' = faulty \cup { Current }
  PROVE  SessionInv'
<1>1. /\ Current \in 1 .. 11 /\ Len(outcomes) = Current - 1 /\ Begun = Current - 1
      /\ Begun' = Current /\ UNCHANGED << handle, outcomes, leftover >>
  BY SendsParts
<1>2. PICK i \in 1 .. 11 : i = Current
  BY <1>1
<1>3. /\ Cleared' => Cleared /\ (i = 1 => ~leftover)
      /\ Ready' => Ready /\ i # 4
      /\ 10 \notin faulty' => 10 \notin faulty /\ i # 10
  BY <1>1, <1>2 DEF Cleared, Ready
<1>4. Begun' # 0
  BY <1>1
<1>5. Cleared' /\ i \in 1 .. 3 => ~session
  <2>1. Cleared /\ i \in 2 .. 3 => ~session
    BY <1>1, <1>2 DEF SessionInv
  <2>2. i = 1 => session = leftover
    BY <1>1, <1>2 DEF SessionInv
  <2> QED
    BY <1>3, <2>1, <2>2
<1>6. Ready' /\ i \in 4 .. 9 => session
  <2>1. Ready /\ i \in 5 .. 9 => session
    <3>1. i \in 5 .. 9 => Begun \in 4 .. 9
      BY <1>1, <1>2
    <3> QED
      BY <3>1 DEF SessionInv
  <2> QED
    BY <1>3, <2>1
<1>7. Ready' /\ Len(outcomes) >= 4 => handle = "valid"
  BY <1>3 DEF SessionInv
<1>8. Ready' /\ 10 \notin faulty' /\ i >= 10 => ~session
  <2>1. Ready /\ 10 \notin faulty /\ i = 11 => ~session
    BY <1>1, <1>2 DEF SessionInv
  <2> QED
    BY <1>3, <2>1
<1>9. Begun' = i /\ handle' = handle /\ Len(outcomes') = Len(outcomes)
  BY <1>1, <1>2
<1> QED
  BY <1>4, <1>5, <1>6, <1>7, <1>8, <1>9 DEF SessionInv

LEMMA AnswersSafe ==
  ASSUME SafeInv, DeviceAnswers
  PROVE  SafeInv'
<1>1. TypeInv /\ PlaceInv /\ SessionInv /\ CountInv /\ FailuresExplained
  BY DEF SafeInv
<1>2. Sends /\ DeviceObeys /\ faulty' = faulty
  BY DEF DeviceAnswers
<1>3. PICK reply \in DeviceReplies : replies' = Append(replies, reply)
  BY DEF DeviceAnswers
<1>4. reply \in Replies \cup { NoReply }
  BY <1>1, <1>2, DeviceType
<1>5. session' \in BOOLEAN /\ faulty' \subseteq 1 .. Len(Specs) /\ faulty \subseteq faulty'
  BY <1>1, <1>2, Obeys DEF TypeInv, TypeOK
<1>6. TypeInv'
  BY <1>1, <1>2, <1>3, <1>4, <1>5, SendsType
<1>7. PlaceInv'
  BY <1>1, <1>2, <1>5, SendsPlace
<1>8. SessionInv'
  BY <1>1, <1>2, AnswersSession
<1>9. FailuresExplained' /\ NoSessionIfLastPasses'
  BY <1>1, <1>2, <1>5, SendsResults
<1>10. CountInv'
  <2>1. Current # 4 /\ ~session => ~session'
    BY <1>1, <1>2, Obeys
  <2>2. Command = "SESSION_GET_COUNT" /\ reply = Reply("OK", "0") => ~session'
    <3>1. Command = "SESSION_GET_COUNT" => Current # 4
      BY <1>1, <1>2, SendsParts, Entry
    <3>2. Command = "SESSION_GET_COUNT" /\ reply = Reply("OK", "0") => ~session
      BY <1>1, <1>2, DeviceCounts
    <3> QED
      BY <2>1, <3>1, <3>2
  <2> QED
    BY <1>1, <1>2, <1>3, <1>4, <2>1, <2>2, SendsCount
<1>11. ReplyInv'
  <2>1. PICK i : i = Current
    OBVIOUS
  <2>2. Current' = i /\ leftover' = leftover
    BY <1>1, <1>2, <2>1, SendsParts
  <2>3. SUFFICES ASSUME Spared(i)'
                 PROVE  reply # NoReply /\ ~MethodRaises(reply)' /\ Validates(reply)'
    <3>1. replies'[Len(commands')] = reply
      BY <1>1, <1>2, <1>3, <1>4, SendsReply
    <3> QED
      BY <2>2, <3>1 DEF ReplyInv, MethodRaises, Validates, TakesValue, Command
  <2>4. Spared(i)
    BY <1>5, <2>2, <2>3, SparedBefore
  <2>5. reply # NoReply /\ ~MethodRaises(reply) /\ Validates(reply)
    BY <1>1, <1>2, <2>1, <2>4, DeviceRight
  <2> QED
    BY <2>1, <2>2, <2>5 DEF MethodRaises, Validates, TakesValue, Command
<1> QED
  BY <1>6, <1>7, <1>8, <1>9, <1>10, <1>11 DEF SafeInv

\* The reply to a command that the device refuses or never gets.
LEMMA FaultSafe ==
  ASSUME SafeInv, Sends, Fault, session' = session,
         NEW r \in Replies \cup { NoReply }, replies' = Append(replies, r), r # Reply("OK", "0")
  PROVE  SafeInv'
<1>1. TypeInv /\ PlaceInv /\ SessionInv /\ CountInv /\ FailuresExplained
  BY DEF SafeInv
<1>2. faulty' = faulty \cup { Current } /\ Current \in 1 .. 11 /\ Len(Specs) = 11
  BY <1>1, SendsParts, Table DEF Fault
<1>3. /\ session' \in BOOLEAN /\ faulty' \subseteq 1 .. Len(Specs) /\ faulty \subseteq faulty'
  BY <1>1, <1>2 DEF TypeInv, TypeOK
<1>4. TypeInv'
  BY <1>1, <1>3, SendsType
<1>5. PlaceInv'
  BY <1>1, <1>3, SendsPlace
<1>6. SessionInv'
  BY <1>1, <1>2, FaultSession
<1>7. FailuresExplained' /\ NoSessionIfLastPasses'
  BY <1>1, <1>3, SendsResults
<1>8. CountInv'
  BY <1>1, SendsCount
<1>9. ReplyInv'
  <2>1. PICK i : i = Current
    OBVIOUS
  <2>2. Current' = i
    BY <1>1, <2>1, SendsParts
  <2>3. ~Spared(i)'
    <3>1. i \in Affected(i)'
      BY DEF Affected
    <3> QED
      BY <1>2, <2>1, <3>1 DEF Spared
  <2> QED
    BY <2>2, <2>3 DEF ReplyInv
<1> QED
  BY <1>4, <1>5, <1>6, <1>7, <1>8, <1>9 DEF SafeInv

LEMMA RefusesSafe ==
  ASSUME SafeInv, DeviceRefuses
  PROVE  SafeInv'
<1>1. Sends /\ Fault /\ session' = session
  BY DEF DeviceRefuses
<1>2. PICK r \in { Reply("FAILED", "none"), Short("FAILED"), Short("UNKNOWN") } :
        replies' = Append(replies, r)
  BY DEF DeviceRefuses
<1>3. r \in Replies
  <2>1. /\ Reply("FAILED", "none") \in Replies /\ Short("FAILED") \in Replies
        /\ Short("UNKNOWN") \in Replies
    BY RepliesParts
  <2> QED
    BY <1>2, <2>1
<1>4. r # Reply("OK", "0")
  BY <1>2 DEF Reply, Short
<1> QED
  BY <1>1, <1>2, <1>3, <1>4, FaultSafe

LEMMA LostSafe ==
  ASSUME SafeInv, CommandLost
  PROVE  SafeInv'
<1>1. Sends /\ Fault /\ session' = session /\ replies' = Append(replies, NoReply)
  BY DEF CommandLost
<1>2. NoReply # Reply("OK", "0")
  <2>1. NoReply.status # Reply("OK", "0").status
    BY DEF NoReply, Reply
  <2> QED
    BY <2>1
<1> QED
  BY <1>1, <1>2, FaultSafe

-----------------------------------------------------------------------------
(* A check ends.                                                            *)

LEMMA RecordsExplained ==
  ASSUME TypeInv, FailuresExplained, Running, NEW b \in BOOLEAN, Record(b),
         leftover' = leftover, faulty \subseteq faulty',
         NEW i, i = Current, ~b => ~Spared(i)'
  PROVE  FailuresExplained'
<1>1. Len(outcomes') = i /\ outcomes'[i] = b /\ Len(outcomes) = i - 1 /\ i \in 1 .. 11
      /\ \A j \in 1 .. Len(outcomes) : outcomes'[j] = outcomes[j]
  BY RecordType, Now
<1>2. SUFFICES ASSUME NEW j \in 1 .. Len(outcomes'), ~outcomes'[j]
               PROVE  \E k \in faulty' : k <= j /\ j \in Affected(k)'
  BY DEF FailuresExplained
<1>3. CASE j = i
  BY <1>1, <1>2, <1>3 DEF Spared
<1>4. CASE j # i
  <2>1. j \in 1 .. Len(outcomes)
    BY <1>1, <1>2, <1>4
  <2>2. ~outcomes[j]
    BY <1>1, <1>2, <2>1
  <2>3. PICK k \in faulty : k <= j /\ j \in Affected(k)
    BY <2>1, <2>2 DEF FailuresExplained
  <2>4. Affected(k)' = Affected(k)
    BY DEF Affected
  <2> QED
    BY <2>3, <2>4
<1> QED
  BY <1>3, <1>4

LEMMA MissingSafe ==
  ASSUME SafeInv, MissingHandle
  PROVE  SafeInv'
<1>1. TypeInv /\ PlaceInv /\ SessionInv /\ CountInv /\ FailuresExplained
  BY DEF SafeInv
<1>2. /\ Running /\ ~Calls!Busy /\ Specs[Current].needsHandle /\ handle = "none"
      /\ Record(FALSE)
      /\ UNCHANGED << session, handle, commands, returned, replies, leftover, faulty >>
  BY DEF MissingHandle
<1>3. PICK i \in 1 .. 11 : i = Current
  BY <1>1, <1>2, Now
<1>4. i \in { 5, 7, 8, 9, 10 }
  BY <1>2, <1>3, Entry
<1>5. /\ outcomes' \in Seq(BOOLEAN) /\ Len(outcomes') = i /\ Len(outcomes') <= Len(Specs)
      /\ Len(outcomes) = i - 1 /\ Begun = i - 1
  <2>1. Len(outcomes) = i - 1 /\ Begun = i - 1
    BY <1>1, <1>2, <1>3, Now
  <2> QED
    BY <1>1, <1>2, <1>3, <2>1, RecordType
<1>6. ~Calls!Busy' /\ Begun' = i
  BY <1>2, <1>5 DEF Calls!Busy, Begun
<1>7. TypeInv'
  BY <1>1, <1>2, <1>5 DEF TypeInv, TypeOK
<1>8. PlaceInv'
  <2>1. PICK n \in 0 .. 10 : n = Len(outcomes) /\ n + 1 = i
    BY <1>5
  <2>2. CommandsOf(n + 1) = CommandsOf(n)
    BY <1>2, <1>4, <2>1, SkippedPlace
  <2>3. (\A m : CheckOf(m)' = CheckOf(m)) /\ CommandsOf(Len(outcomes))' = CommandsOf(i)
    BY <1>2, <1>5 DEF CheckOf, CommandsOf
  <2>4. (Len(returned) = CommandsOf(Len(outcomes)))'
    BY <1>1, <1>2, <2>1, <2>2, <2>3 DEF PlaceInv
  <2>5. Len(outcomes') >= 4
    BY <1>4, <1>5
  <2> QED
    BY <1>1, <1>2, <1>6, <2>3, <2>4, <2>5 DEF PlaceInv
<1>9. ~Ready
  <2>1. Len(outcomes) >= 4
    BY <1>4, <1>5
  <2> QED
    BY <1>1, <1>2, <2>1 DEF SessionInv
<1>10. SessionInv'
  <2>1. ~Ready'
    BY <1>2, <1>9 DEF Ready, Cleared
  <2>2. Begun' # 0 /\ Begun' \notin 1 .. 3
    BY <1>4, <1>6
  <2> QED
    BY <2>1, <2>2 DEF SessionInv
<1>11. ReplyInv' /\ CountInv'
  BY <1>1, <1>2, <1>6 DEF ReplyInv, CountInv
<1>12. FailuresExplained'
  <2>1. i >= 4
    BY <1>4
  <2>2. ~Spared(i)
    BY <1>9, <2>1, SparedMeans
  <2>3. ~Spared(i)'
    BY <1>2, <2>2, SparedBefore
  <2> QED
    BY <1>1, <1>2, <1>3, <2>3, RecordsExplained
<1>13. NoSessionIfLastPasses'
  <2>1. Len(outcomes') # 11
    BY <1>4, <1>5
  <2> QED
    BY <2>1, Table DEF NoSessionIfLastPasses
<1> QED
  BY <1>7, <1>8, <1>10, <1>11, <1>12, <1>13 DEF SafeInv

LEMMA EndParts ==
  ASSUME TypeInv, PlaceInv, Calls!Busy
  PROVE  /\ Running /\ Current \in 1 .. 11 /\ Len(outcomes) = Current - 1 /\ Begun = Current
         /\ Len(commands) \in Nat /\ Len(commands) = Len(returned) + 1
         /\ CheckOf(Len(commands)) = Current
         /\ Command = commands[Len(commands)] /\ Command = Specs[Current].command
         /\ Current \in { 5, 7, 8, 9, 10 } => handle # "none"
         /\ Current = 4 => Len(commands) = 4
         /\ handle # "none" \/ Len(commands) <= 6
<1>1. Running /\ CheckOf(Len(commands)) = Current
  BY DEF PlaceInv
<1>2. /\ Len(commands) \in Nat /\ Len(returned) \in Nat /\ Len(commands) = Len(returned) + 1
      /\ Current \in 1 .. 11 /\ Begun = Current /\ Len(outcomes) \in 0 .. 10
      /\ Current = Len(outcomes) + 1
  BY <1>1, Now
<1>3. Command = commands[Len(commands)]
  <2>1. Len(commands) \in 1 .. Len(commands)
    BY <1>2
  <2> QED
    BY <1>1, <2>1 DEF PlaceInv, Command
<1>4. Current \in { 5, 7, 8, 9, 10 } => handle # "none"
  BY <1>1, <1>2 DEF CheckOf
<1>5. Len(returned) = CommandsOf(Len(outcomes))
  BY DEF PlaceInv
<1>6. Current = 4 => Len(commands) = 4
  BY <1>2, <1>5 DEF CommandsOf
<1>7. handle = "none" => Len(commands) <= 6
  BY <1>2, <1>5 DEF CommandsOf
<1>8. Len(outcomes) = Current - 1
  BY <1>2
<1> QED
  BY <1>1, <1>2, <1>3, <1>4, <1>6, <1>7, <1>8 DEF Command

LEMMA EndPlace ==
  ASSUME TypeInv, PlaceInv, Calls!Busy, commands' = commands, NEW b \in BOOLEAN, Record(b),
         NEW e \in Responses \cup { TimedOut }, returned' = Append(returned, e),
         handle' = handle \/ Current = 4, faulty \subseteq faulty',
         e = TimedOut => Current \in faulty'
  PROVE  PlaceInv' /\ ~Calls!Busy' /\ Begun' = Current /\ Len(outcomes') = Current
<1>1. /\ Running /\ Current \in 1 .. 11 /\ Len(outcomes) = Current - 1
      /\ Len(commands) \in Nat /\ Len(commands) = Len(returned) + 1
      /\ CheckOf(Len(commands)) = Current
      /\ Current \in { 5, 7, 8, 9, 10 } => handle # "none"
      /\ Current = 4 => Len(commands) = 4
  BY EndParts
<1>2. Len(outcomes') = Current
  BY <1>1, RecordType
<1>3. /\ Len(returned') = Len(returned) + 1 /\ returned'[Len(commands)] = e
      /\ \A m \in 1 .. Len(returned) : returned'[m] = returned[m]
  <2>1. returned \in Seq(Responses \cup { TimedOut })
    BY DEF TypeInv
  <2> QED
    BY <1>1, <2>1
<1>4. ~Calls!Busy'
  BY <1>1, <1>3 DEF Calls!Busy
<1>5. Begun' = Current
  BY <1>2, <1>4 DEF Begun
<1>6. ASSUME NEW m \in 1 .. Len(commands) PROVE CheckOf(m)' = CheckOf(m)
  BY <1>1 DEF CheckOf
<1>7. (Len(returned) = CommandsOf(Len(outcomes)))'
  <2>1. PICK n \in 0 .. 10 : n = Len(outcomes) /\ n + 1 = Current
    BY <1>1
  <2>2. CommandsOf(n + 1) = CommandsOf(n) + 1
    BY <1>1, <2>1, NextPlace
  <2>3. Len(returned') = CommandsOf(n + 1)
    BY <1>3, <2>1, <2>2 DEF PlaceInv
  <2>4. CommandsOf(Len(outcomes))' = CommandsOf(n + 1)
    BY <1>2, <2>1 DEF CommandsOf
  <2> QED
    BY <2>3, <2>4
<1>8. Len(outcomes') < 4 => handle' = "none"
  BY <1>1, <1>2 DEF PlaceInv
<1>9. \A m \in 1 .. Len(commands') : commands'[m] = Specs[CheckOf(m)'].command
  BY <1>6 DEF PlaceInv
<1>10. ASSUME NEW m \in 1 .. Len(returned'), returned'[m] = TimedOut
       PROVE  CheckOf(m)' \in faulty'
  <2>1. m \in 1 .. Len(commands) /\ (m \in 1 .. Len(returned) \/ m = Len(commands))
    BY <1>1, <1>3
  <2> QED
    BY <1>1, <1>3, <1>6, <1>10, <2>1 DEF PlaceInv
<1> QED
  BY <1>2, <1>4, <1>5, <1>7, <1>8, <1>9, <1>10 DEF PlaceInv

\* The response a call ends with: to its own command or, in the last check, to
\* the first SESSION_GET_COUNT, which then got none.
LEMMA WhichResponse ==
  ASSUME TypeInv, PlaceInv, Calls!Busy, NEW j \in 1 .. Len(commands), Calls!MayReturn(j)
  PROVE  j = Len(commands) \/ (Current = 11 /\ 6 \in faulty)
<1>1. /\ Current \in 1 .. 11 /\ Len(commands) \in Nat /\ Len(commands) = Len(returned) + 1
      /\ CheckOf(Len(commands)) = Current
      /\ Command = commands[Len(commands)] /\ Command = Specs[Current].command
      /\ handle # "none" \/ Len(commands) <= 6
  BY EndParts
<1>2. SUFFICES ASSUME j # Len(commands) PROVE Current = 11 /\ 6 \in faulty
  OBVIOUS
<1>3. /\ commands[j] = commands[Len(commands)]
      /\ \E i \in 1 .. j : commands[i] = commands[j] /\ returned[i] \in { TimedOut }
  <2>1. j < Len(commands)
    BY <1>1, <1>2
  <2> QED
    BY <2>1 DEF Calls!MayReturn, Calls!Current, Calls!Excused
<1>4. PICK i \in 1 .. j : commands[i] = commands[j] /\ returned[i] = TimedOut
  BY <1>3
<1>5. i \in 1 .. Len(commands) /\ i \in 1 .. Len(returned) /\ i \in Nat /\ i < Len(commands) /\ 1 <= i
  BY <1>1, <1>2
<1>6. CheckOf(i) \in 1 .. 11 /\ CheckOf(i) < Current
  <2>1. CheckOf(i) < CheckOf(Len(commands))
    BY <1>1, <1>5, PlacesRise
  <2>2. CheckOf(i) \in 1 .. 11
    BY <1>5, CheckBounds
  <2> QED
    BY <1>1, <2>1, <2>2
<1>7. Specs[CheckOf(i)].command = Specs[Current].command
  BY <1>1, <1>3, <1>4, <1>5 DEF PlaceInv
<1>8. CheckOf(i) = 6 /\ Current = 11
  <2>1. PICK c \in 1 .. 11, d \in 1 .. 11 : c = CheckOf(i) /\ d = Current /\ c < d
    BY <1>1, <1>6
  <2>2. c \in { 6, 11 } /\ d \in { 6, 11 }
    <3>1. Specs[c].command = Specs[d].command /\ c # d
      BY <1>7, <2>1
    <3> QED
      BY ONLY <3>1, SameCommand
  <2> QED
    BY ONLY <2>1, <2>2
<1>9. CheckOf(i) \in faulty
  BY <1>4, <1>5 DEF PlaceInv
<1> QED
  BY <1>8, <1>9

\* The last check passes with the count of no sessions only.
LEMMA PassesOnZero ==
  ASSUME TypeInv, PlaceInv, Calls!Busy, Current = 11, NEW reply \in Replies,
         ~MethodRaises(reply), Validates(reply)
  PROVE  Command = "SESSION_GET_COUNT" /\ reply = Reply("OK", "0")
<1>1. /\ Command = "SESSION_GET_COUNT"
      /\ Specs[Current].status = "OK" /\ Specs[Current].value = "0"
  BY Table DEF Check, Command
<1>2. reply.status = "OK" /\ reply.value = "0" /\ reply.full
  BY <1>1 DEF MethodRaises, Validates, TakesValue
<1>3. reply.full = TRUE
  BY <1>2 DEF Replies
<1> QED
  BY <1>1, <1>2, <1>3 DEF Replies, Reply

LEMMA ReturnsSafe ==
  ASSUME SafeInv, NEW j \in 1 .. Len(commands), Returns(j)
  PROVE  SafeInv'
<1> DEFINE reply == replies[j]
           passed == ~MethodRaises(reply) /\ Validates(reply)
<1>1. TypeInv /\ PlaceInv /\ SessionInv /\ ReplyInv /\ CountInv /\ FailuresExplained
  BY DEF SafeInv
<1>2. /\ Calls!Busy /\ Calls!MayReturn(j)
      /\ returned' = Append(returned, Calls!Response(j))
      /\ reply # NoReply /\ HandleReply(reply)
      /\ UNCHANGED << commands, session, replies, leftover, faulty >>
  BY DEF Returns, Calls!ReturnResponse
<1>3. Record(passed) /\ passed \in BOOLEAN
  BY <1>2 DEF HandleReply
<1>4. /\ Running /\ Current \in 1 .. 11 /\ Len(outcomes) = Current - 1 /\ Begun = Current
      /\ Len(commands) \in Nat /\ Command = Specs[Current].command
      /\ Command = commands[Len(commands)]
  BY <1>1, <1>2, EndParts
<1>5. PICK i \in 1 .. 11 : i = Current
  BY <1>4
<1>6. j = Len(commands) \/ (i = 11 /\ 6 \in faulty)
  BY <1>1, <1>2, <1>5, WhichResponse
<1>7. reply \in Replies /\ commands[j] \in Key
  BY <1>1, <1>2, Now DEF TypeInv
<1>8. Calls!Response(j) \in Responses /\ Calls!Response(j) # TimedOut
  <2>1. Calls!Response(j) \in Responses
    BY <1>7 DEF Calls!Response, Responses
  <2>2. Calls!Response(j).mt # TimedOut.mt
    BY DEF Calls!Response, TimedOut
  <2> QED
    BY <2>1, <2>2
<1>9. /\ i # 4 => handle' = handle
      /\ i = 4 /\ passed => handle' = "valid"
      /\ handle' \in { "none", "valid", "wrong" }
  <2>1. Command = "SESSION_INIT" <=> i = 4
    BY <1>4, <1>5, Entry
  <2>2. i = 4 /\ Validates(reply) => reply.status = "OK"
    BY <1>5, Entry DEF Validates
  <2>3. handle \in { "none", "valid", "wrong" }
    BY <1>1 DEF TypeInv, TypeOK
  <2>4. handle' = IF Command = "SESSION_INIT" /\ ~MethodRaises(reply)
                  THEN IF reply.status = "OK" THEN "valid" ELSE "wrong" ELSE handle
    BY <1>2 DEF HandleReply
  <2> QED
    BY <2>1, <2>2, <2>3, <2>4
<1>10. /\ outcomes' \in Seq(BOOLEAN) /\ Len(outcomes') <= Len(Specs) /\ outcomes'[i] = passed
  BY <1>1, <1>3, <1>4, <1>5, RecordType
<1>11. TypeInv'
  <2>1. faulty' \subseteq 1 .. Len(Specs)
    BY <1>1, <1>2 DEF TypeInv, TypeOK
  <2> QED
    BY <1>1, <1>2, <1>8, <1>9, <1>10, <2>1, ReturnedType
<1>12. PlaceInv' /\ ~Calls!Busy' /\ Begun' = i /\ Len(outcomes') = i
  BY <1>1, <1>2, <1>3, <1>5, <1>8, <1>9, EndPlace
<1>13. i # 11 /\ Spared(i) => passed
  BY <1>1, <1>2, <1>5, <1>6 DEF ReplyInv
<1>14. SessionInv'
  <2>1. (Cleared' <=> Cleared) /\ (Ready' <=> Ready)
    BY <1>2 DEF Cleared, Ready
  <2>2. Begun = i /\ session' = session
    BY <1>2, <1>4, <1>5
  <2>3. Ready /\ i >= 4 => handle' = "valid"
    <3>1. Ready /\ i > 4 => handle = "valid"
      <4>1. i > 4 => Len(outcomes) >= 4
        BY <1>4, <1>5
      <4> QED
        BY <1>1, <4>1 DEF SessionInv
    <3>2. Ready => Spared(4)
      BY <1>1, SparedUntilInit DEF TypeInv
    <3>3. Ready /\ i = 4 => passed
      BY <1>13, <3>2
    <3> QED
      BY <1>9, <3>1, <3>3
  <2>4. Begun' = Begun /\ Len(outcomes') = i /\ faulty' = faulty /\ leftover' = leftover
    BY <1>2, <1>12, <2>2
  <2> QED
    BY <1>1, <2>1, <2>2, <2>3, <2>4 DEF SessionInv
<1>15. ReplyInv' /\ CountInv'
  BY <1>1, <1>2, <1>12 DEF ReplyInv, CountInv
<1>16. FailuresExplained'
  <2>1. ~passed => ~Spared(i)
    <3>1. j = Len(commands) /\ Spared(i) => passed
      BY <1>1, <1>2, <1>5 DEF ReplyInv
    <3>2. i = 11 /\ 6 \in faulty => ~Spared(i)
      BY SparedMeans
    <3> QED
      BY <1>6, <3>1, <3>2
  <2>2. ~passed => ~Spared(i)'
    BY <1>2, <2>1, SparedBefore
  <2> QED
    BY <1>1, <1>2, <1>3, <1>4, <1>5, <2>2, RecordsExplained
<1>17. NoSessionIfLastPasses'
  <2>1. SUFFICES ASSUME i = 11, passed PROVE ~session
    BY <1>2, <1>10, <1>12, Table DEF NoSessionIfLastPasses
  <2>2. Command = "SESSION_GET_COUNT" /\ reply = Reply("OK", "0")
    BY <1>1, <1>2, <1>5, <1>7, <2>1, PassesOnZero
  <2>3. commands[j] = Command
    BY <1>2, <1>4 DEF Calls!MayReturn, Calls!Current
  <2> QED
    BY <1>1, <2>2, <2>3 DEF CountInv
<1> QED
  BY <1>11, <1>12, <1>14, <1>15, <1>16, <1>17 DEF SafeInv

LEMMA GivesUpSafe ==
  ASSUME SafeInv, CallGivesUp
  PROVE  SafeInv'
<1>1. TypeInv /\ PlaceInv /\ SessionInv /\ CountInv /\ FailuresExplained
  BY DEF SafeInv
<1>2. /\ Calls!Busy /\ returned' = Append(returned, TimedOut) /\ Record(FALSE)
      /\ faulty' = faulty \cup { Current }
      /\ UNCHANGED << session, handle, commands, replies, leftover >>
  BY DEF CallGivesUp, Calls!GiveUp, Fault
<1>3. /\ Running /\ Current \in 1 .. 11 /\ Len(outcomes) = Current - 1 /\ Begun = Current
  BY <1>1, <1>2, EndParts
<1>4. PICK i \in 1 .. 11 : i = Current
  BY <1>3
<1>5. /\ faulty' \subseteq 1 .. Len(Specs) /\ faulty \subseteq faulty' /\ i \in faulty'
  BY <1>1, <1>2, <1>4, Table DEF TypeInv, TypeOK
<1>6. /\ outcomes' \in Seq(BOOLEAN) /\ Len(outcomes') <= Len(Specs) /\ outcomes'[i] = FALSE
  BY <1>1, <1>2, <1>3, <1>4, RecordType
<1>7. TypeInv'
  <2>1. handle' \in { "none", "valid", "wrong" }
    BY <1>1, <1>2 DEF TypeInv, TypeOK
  <2> QED
    BY <1>1, <1>2, <1>5, <1>6, <2>1, ReturnedType
<1>8. PlaceInv' /\ ~Calls!Busy' /\ Begun' = i /\ Len(outcomes') = i
  BY <1>1, <1>2, <1>4, <1>5, EndPlace
<1>9. SessionInv'
  <2>1. /\ Cleared' => Cleared
        /\ Ready' => Ready /\ i # 4
        /\ 10 \notin faulty' => 10 \notin faulty
    BY <1>2, <1>5 DEF Cleared, Ready
  <2>2. Ready' /\ i >= 4 => handle = "valid"
    <3>1. i >= 4 /\ i # 4 => Len(outcomes) >= 4
      BY <1>3, <1>4
    <3> QED
      BY <1>1, <2>1, <3>1 DEF SessionInv
  <2>3. Begun = i /\ session' = session /\ handle' = handle /\ leftover' = leftover
    BY <1>2, <1>3, <1>4
  <2> QED
    BY <1>1, <1>8, <2>1, <2>2, <2>3 DEF SessionInv
<1>10. ReplyInv' /\ CountInv'
  BY <1>1, <1>2, <1>8 DEF ReplyInv, CountInv
<1>11. FailuresExplained'
  <2>1. ~Spared(i)'
    <3>1. i \in Affected(i)'
      BY DEF Affected
    <3> QED
      BY <1>5, <3>1 DEF Spared
  <2> QED
    BY <1>1, <1>2, <1>3, <1>4, <1>5, <2>1, RecordsExplained
<1>12. NoSessionIfLastPasses'
  <2>1. SUFFICES ASSUME i = 11 PROVE ~outcomes'[11]
    BY <1>8, Table DEF NoSessionIfLastPasses
  <2> QED
    BY <1>6, <2>1
<1> QED
  BY <1>7, <1>8, <1>9, <1>10, <1>11, <1>12 DEF SafeInv

-----------------------------------------------------------------------------
(* The invariant and what it gives.                                         *)

LEMMA InitSafe == Init => SafeInv
<1> SUFFICES ASSUME Init PROVE SafeInv
  OBVIOUS
<1>1. /\ commands = << >> /\ returned = << >> /\ replies = << >> /\ outcomes = << >>
      /\ handle = "none" /\ session = leftover
  BY DEF Init, Calls!Init
<1>2. Len(outcomes) = 0 /\ Len(returned) = 0 /\ Len(commands) = 0
  BY <1>1
<1>3. TypeInv
  BY InitType
<1>4. ~Calls!Busy /\ Begun = 0
  BY <1>2 DEF Calls!Busy, Begun
<1>5. PlaceInv
  BY <1>1, <1>2, <1>4 DEF PlaceInv, CommandsOf
<1>6. SessionInv
  BY <1>1, <1>2, <1>4 DEF SessionInv
<1>7. ReplyInv /\ CountInv
  BY <1>2, <1>4 DEF ReplyInv, CountInv
<1>8. FailuresExplained /\ NoSessionIfLastPasses
  BY <1>2, Table DEF FailuresExplained, NoSessionIfLastPasses
<1> QED
  BY <1>3, <1>5, <1>6, <1>7, <1>8 DEF SafeInv

LEMMA StutterSafe ==
  ASSUME SafeInv, UNCHANGED vars
  PROVE  SafeInv'
<1>1. /\ session' = session /\ handle' = handle /\ outcomes' = outcomes
      /\ commands' = commands /\ returned' = returned /\ replies' = replies
      /\ leftover' = leftover /\ faulty' = faulty
  BY DEF vars
<1>2. TypeInv'
  BY <1>1 DEF SafeInv, TypeInv, TypeOK
<1>3. Current' = Current /\ (Running' <=> Running) /\ (Calls!Busy' <=> Calls!Busy)
  BY <1>1 DEF Current, Running, Calls!Busy
<1>4. Begun' = Begun
  BY <1>1, <1>3 DEF Begun
<1>5. PlaceInv'
  BY <1>1, <1>3 DEF SafeInv, PlaceInv, CheckOf, CommandsOf
<1>6. SessionInv'
  BY <1>1, <1>4 DEF SafeInv, SessionInv, Cleared, Ready
<1>7. ASSUME NEW k PROVE Affected(k)' = Affected(k)
  BY <1>1 DEF Affected
<1>8. ReplyInv'
  BY <1>1, <1>3, <1>7
     DEF SafeInv, ReplyInv, Spared, MethodRaises, Validates, TakesValue, Command
<1>9. CountInv' /\ FailuresExplained' /\ NoSessionIfLastPasses'
  BY <1>1, <1>7 DEF SafeInv, CountInv, FailuresExplained, NoSessionIfLastPasses
<1> QED
  BY <1>2, <1>5, <1>6, <1>8, <1>9 DEF SafeInv

LEMMA StepSafe ==
  ASSUME SafeInv, [Next]_vars
  PROVE  SafeInv'
<1>1. CASE MissingHandle
  BY <1>1, MissingSafe
<1>2. CASE DeviceAnswers
  BY <1>2, AnswersSafe
<1>3. CASE DeviceRefuses
  BY <1>3, RefusesSafe
<1>4. CASE CommandLost
  BY <1>4, LostSafe
<1>5. CASE \E j \in 1 .. Len(commands) : Returns(j)
  BY <1>5, ReturnsSafe
<1>6. CASE CallGivesUp
  BY <1>6, GivesUpSafe
<1>7. CASE UNCHANGED vars
  BY <1>7, StutterSafe
<1> QED
  BY <1>1, <1>2, <1>3, <1>4, <1>5, <1>6, <1>7 DEF Next

\* The inductive invariant holds, however many checks go wrong.
THEOREM SafeInvariant == Safety => []SafeInv
<1>1. Init => SafeInv
  BY InitSafe
<1>2. SafeInv /\ [Next]_vars => SafeInv'
  BY StepSafe
<1> QED
  BY <1>1, <1>2, PTL DEF Safety

\* Every state of a run of the suite is well typed: no check has two outcomes,
\* and no more commands were sent than replies accounted for.
THEOREM TypeCorrect == Safety => []TypeOK
<1>1. SafeInv => TypeOK
  BY DEF SafeInv, TypeInv
<1> QED
  BY <1>1, SafeInvariant, PTL

\* However many checks go wrong, one that fails does so because of a fault at it
\* or at one it depends on: no late response, missing handle or session left
\* behind fails another.
THEOREM FailureMeans == Safety => []FailuresExplained
<1>1. SafeInv => FailuresExplained
  BY DEF SafeInv
<1> QED
  BY <1>1, SafeInvariant, PTL

\* However many checks go wrong, and whichever response it was given, the last
\* one passes only on a device without a session.
THEOREM PassMeans == Safety => []NoSessionIfLastPasses
<1>1. SafeInv => NoSessionIfLastPasses
  BY DEF SafeInv
<1> QED
  BY <1>1, SafeInvariant, PTL
=============================================================================
