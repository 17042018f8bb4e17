------------------------- MODULE CommandCall_proofs -------------------------
(***************************************************************************)
(* The properties of CommandCall, for every list of destinations, every    *)
(* integer and every answer the documentation has room for.                *)
(***************************************************************************)
EXTENDS CommandCallInvariant, Framing_proofs

-----------------------------------------------------------------------------
(* The packets of a command.                                                *)

LEMMA CutParts ==
  ASSUME NEW m \in Message, NEW first, first = Cut(m)
  PROVE  /\ first \in Seq(Packet) /\ Len(first) \in Nat \ {0}
         /\ \A i \in 1 .. Len(first) : PartOf(m, MaxPayloadSize, first, i)
<1>1. MaxPayloadSize \in 1 .. MaxPayloadSize
  BY DEF MaxPayloadSize
<1>2. first = SplitIntoPackets(m, MaxPayloadSize)
  BY DEF Cut
<1>3. /\ first \in Seq({ p \in Packet : Len(p.payload) <= MaxPayloadSize })
      /\ Len(first) \in Nat \ {0}
      /\ \A i \in 1 .. Len(first) : PartOf(m, MaxPayloadSize, first, i)
  BY ONLY <1>1, <1>2, m \in Message, SplitParts
<1>4. first \in Seq(Packet)
  BY ONLY <1>3
<1> QED
  BY <1>3, <1>4

\* Where what the first k packets carry ends.
Stop(m, k) == IF k = Len(Cut(m)) THEN Len(m.payload) ELSE k * MaxPayloadSize

LEMMA GatheredIs ==
  ASSUME NEW m \in Message, NEW k, k # 0
  PROVE  Gathered(m, k) = [ mt |-> m.mt, gid |-> m.gid, oid |-> m.oid,
                            payload |-> SubSeq(m.payload, 1, Stop(m, k)) ]
  BY MessageFields DEF Gathered, Stop

\* With each packet what is gathered grows by what the packet carries.
LEMMA GatherStep ==
  ASSUME NEW m \in Message, NEW k \in 0 .. Len(Cut(m)) - 1
  PROVE  /\ Merged(Gathered(m, k), Cut(m)[k + 1]) = Gathered(m, k + 1)
         /\ Gathered(m, k + 1) \in Message
<1>1. PICK first, p, i, n, stop :
        /\ first = Cut(m) /\ n = Len(first) /\ i = k + 1 /\ p = first[i]
        /\ stop = Stop(m, i)
  OBVIOUS
<1>2. /\ first \in Seq(Packet) /\ n \in Nat \ {0}
      /\ \A j \in 1 .. n : PartOf(m, MaxPayloadSize, first, j)
  BY <1>1, CutParts
<1>3. k \in Nat /\ i \in 1 .. n /\ i - 1 = k /\ i # 0
  BY <1>1, <1>2
<1>4. stop = IF i = Len(first) THEN Len(m.payload) ELSE i * MaxPayloadSize
  BY <1>1 DEF Stop
<1>5. PartOf(m, MaxPayloadSize, first, i)
  BY <1>2, <1>3
<1>6. /\ p.mt = m.mt /\ p.gid = m.gid /\ p.oid = m.oid
      /\ k * MaxPayloadSize \in Nat /\ stop \in Nat
      /\ k * MaxPayloadSize <= stop /\ stop <= Len(m.payload)
      /\ p.payload = SubSeq(m.payload, k * MaxPayloadSize + 1, stop)
  BY <1>1, <1>3, <1>4, <1>5 DEF PartOf
<1>7. /\ m.payload \in Seq(Byte) /\ Len(m.payload) \in Nat
      /\ m.mt \in MessageType /\ m.gid \in 0 .. 15 /\ m.oid \in Byte
  BY MessageFields
<1>8. PICK before \in Nat : before = k * MaxPayloadSize
  BY <1>6
<1>9. Gathered(m, i) = [ mt |-> m.mt, gid |-> m.gid, oid |-> m.oid,
                         payload |-> SubSeq(m.payload, 1, stop) ]
  BY <1>1, <1>3, GatheredIs
<1>10. Gathered(m, i) \in Message
  <2>1. SubSeq(m.payload, 1, stop) \in Seq(Byte)
    BY <1>6, <1>7
  <2> QED
    BY <1>7, <1>9, <2>1 DEF Message
<1>11. Merged(Gathered(m, k), p) = Gathered(m, i)
  <2>1. CASE k = 0
    <3>1. k * MaxPayloadSize = 0 /\ Gathered(m, k) = NoMessage
      BY <2>1 DEF Gathered, MaxPayloadSize
    <3>2. p.payload = SubSeq(m.payload, 1, stop)
      BY <1>6, <3>1
    <3> QED
      BY <1>6, <1>9, <3>1, <3>2 DEF Merged
  <2>2. CASE k # 0
    <3>1. Stop(m, k) = before
      BY <1>1, <1>3, <1>8 DEF Stop
    <3>2. PICK held : held = SubSeq(m.payload, 1, before)
      OBVIOUS
    <3>3. Gathered(m, k) = [ mt |-> m.mt, gid |-> m.gid, oid |-> m.oid, payload |-> held ]
      BY <2>2, <3>1, <3>2, GatheredIs
    <3>4. held \in Seq(Byte)
      BY <1>6, <1>7, <1>8, <3>2
    <3>5. Gathered(m, k) # NoMessage
      <4>1. Gathered(m, k) \in Message
        BY <1>7, <3>3, <3>4 DEF Message
      <4> QED
        BY <4>1, NotAMessage
    <3>6. held \o p.payload = SubSeq(m.payload, 1, stop)
      <4>1. SubSeq(m.payload, 1, before) \o SubSeq(m.payload, before + 1, stop)
              = SubSeq(m.payload, 1, stop)
        BY <1>6, <1>7, <1>8, TakeTake
      <4> QED
        BY <1>6, <1>8, <3>2, <4>1
    <3>7. Gathered(m, k).payload = held
      BY <3>3
    <3> QED
      BY <1>6, <1>9, <3>5, <3>6, <3>7 DEF Merged
  <2> QED
    BY <2>1, <2>2
<1> QED
  BY <1>1, <1>10, <1>11

LEMMA GatheredWhole ==
  ASSUME NEW m \in Message
  PROVE  Gathered(m, Len(Cut(m))) = m
<1>1. Len(Cut(m)) # 0
  BY CutParts
<1>2. Stop(m, Len(Cut(m))) = Len(m.payload)
  BY DEF Stop
<1>3. m.payload \in Seq(Byte)
  BY MessageFields
<1>4. SubSeq(m.payload, 1, Len(m.payload)) = m.payload
  BY <1>3
<1> QED
  BY <1>1, <1>2, <1>4, GatheredIs, MessageFields

LEMMA GatheredType ==
  ASSUME NEW m \in Message, NEW k \in 0 .. Len(Cut(m))
  PROVE  Gathered(m, k) \in Message \cup { NoMessage }
<1>1. CASE k = 0
  BY <1>1 DEF Gathered
<1>2. CASE k # 0
  <2>1. Len(Cut(m)) \in Nat
    BY CutParts
  <2>2. PICK j \in 0 .. Len(Cut(m)) - 1 : k = j + 1
    BY <1>2, <2>1
  <2>3. Gathered(m, j + 1) \in Message
    BY <2>2, GatherStep
  <2> QED
    BY <2>2, <2>3
<1> QED
  BY <1>1, <1>2

-----------------------------------------------------------------------------
(* Bytes.                                                                   *)

LEMMA ZeroByte == 0 \in Byte /\ 1 \in Byte
  BY DEF Byte

LEMMA ByteUpTo255 == ASSUME NEW n \in Nat, n <= 255 PROVE n \in Byte
  BY DEF Byte

LEMMA Padded ==
  ASSUME NEW value \in Seq(Byte), NEW width \in Nat, NEW bytes, bytes = ToBytes(value, width)
  PROVE  /\ bytes \in Seq(Byte) /\ Len(bytes) = width
         /\ \A i \in 1 .. width : i <= Len(value) => bytes[i] = value[i]
         /\ \A i \in 1 .. width : ~(i <= Len(value)) => bytes[i] = 0
<1>1. \A i \in 1 .. width : (IF i <= Len(value) THEN value[i] ELSE 0) \in Byte
  BY ZeroByte
<1> QED
  BY <1>1 DEF ToBytes

LEMMA PaddedType ==
  ASSUME NEW value \in Seq(Byte), NEW width \in Nat
  PROVE  ToBytes(value, width) \in Seq(Byte) /\ Len(ToBytes(value, width)) = width
  BY Padded

TwoParts(all, s, t) ==
  /\ all \in Seq(Byte) /\ Len(s) \in Nat /\ Len(s) <= Len(all) /\ Len(all) \in Nat
  /\ Len(all) = Len(s) + Len(t)
  /\ SubSeq(all, 1, Len(s)) = s
  /\ SubSeq(all, Len(s) + 1, Len(all)) = t

LEMMA JoinsParts ==
  ASSUME NEW s \in Seq(Byte), NEW t \in Seq(Byte)
  PROVE  TwoParts(s \o t, s, t)
<1>1. PICK all : all = s \o t
  OBVIOUS
<1>2. /\ all \in Seq(Byte) /\ Len(s) \in Nat /\ Len(s) <= Len(all) /\ Len(all) \in Nat
      /\ SubSeq(all, 1, Len(s)) = s
      /\ SubSeq(all, Len(s) + 1, Len(all)) = t
  BY ONLY <1>1, s \in Seq(Byte), t \in Seq(Byte), LaidOut
<1>3. Len(all) = Len(s) + Len(t)
  BY <1>1
<1> QED
  BY <1>1, <1>2, <1>3 DEF TwoParts

\* Items of one length, side by side.
Uniform(list, width, all) ==
  /\ Len(all) = Len(list) * width
  /\ \A i \in 1 .. Len(list) : SubSeq(all, (i - 1) * width + 1, i * width) = list[i]

LEMMA UniformEmpty == ASSUME NEW width \in Nat PROVE Uniform(<< >>, width, << >>)
  BY DEF Uniform

LEMMA UniformAppend ==
  ASSUME NEW S, NEW width \in Nat, NEW list \in Seq(Seq(S)), NEW item \in Seq(S),
         Len(item) = width, NEW all \in Seq(S), Uniform(list, width, all)
  PROVE  Uniform(Append(list, item), width, all \o item)
<1>1. PICK n, size, more, whole :
        /\ n = Len(list) /\ size = n * width
        /\ more = Append(list, item) /\ whole = all \o item
  OBVIOUS
<1>1a. n \in Nat /\ size \in Nat
  <2>1. n \in Nat
    BY <1>1
  <2> QED
    BY <1>1, <2>1
<1>2. /\ Len(more) = n + 1 /\ more[n + 1] = item
      /\ \A i \in 1 .. n : more[i] = list[i]
  BY <1>1, AppendAt
<1>3. Len(all) = size /\ \A i \in 1 .. n : SubSeq(all, (i - 1) * width + 1, i * width) = list[i]
  BY <1>1 DEF Uniform
<1>4. (n + 1) * width = size + width
  BY <1>1
<1>5. Len(whole) = (n + 1) * width
  <2>1. Len(whole) = Len(all) + Len(item)
    BY <1>1, JoinAt
  <2> QED
    BY <1>1a, <1>3, <1>4, <2>1
<1>6. ASSUME NEW i \in 1 .. n
      PROVE  SubSeq(whole, (i - 1) * width + 1, i * width) = more[i]
  <2>1a. (i - 1) * width \in Nat /\ i * width \in Nat
    BY <1>1a
  <2>1. PICK before \in Nat, after \in Nat : before = (i - 1) * width /\ after = i * width
    BY <2>1a
  <2>2. before <= after /\ after <= size
    <3>1. PICK d \in Nat : n = i + d
      <4>1. n - i \in Nat /\ n = i + (n - i)
        BY <1>1a
      <4> QED
        BY <4>1
    <3>2. after = before + width
      BY <2>1, <1>1a
    <3>3. size = after + d * width
      BY <1>1a, <1>1, <2>1, <3>1
    <3>4. d * width \in Nat
      OBVIOUS
    <3> QED
      BY <3>2, <3>3, <3>4
  <2>3. SubSeq(whole, before + 1, after) = SubSeq(all, before + 1, after)
    BY <1>1, <1>3, <2>1, <2>2, SliceWithin
  <2> QED
    BY <1>2, <1>3, <2>1, <2>3
<1>7. SubSeq(whole, ((n + 1) - 1) * width + 1, (n + 1) * width) = more[n + 1]
  <2>1. ((n + 1) - 1) * width = size
    BY <1>1a, <1>1
  <2>2. SubSeq(whole, size + 1, Len(whole)) = item
    <3>1. SubSeq(whole, Len(all) + 1, Len(whole)) = item
      <4>1. whole = all \o item
        BY <1>1
      <4> QED
        BY ONLY <4>1, all \in Seq(S), item \in Seq(S), LaidOut
    <3> QED
      BY <1>3, <3>1
  <2> QED
    BY <1>2, <1>5, <2>1, <2>2
<1>8. Uniform(more, width, whole)
  <2>1. \A i \in 1 .. n + 1 : i \in 1 .. n \/ i = n + 1
    BY <1>1a
  <2>2. \A i \in 1 .. n + 1 : SubSeq(whole, (i - 1) * width + 1, i * width) = more[i]
    BY <1>6, <1>7, <2>1
  <2> QED
    BY <1>2, <1>5, <2>2 DEF Uniform
<1> QED
  BY <1>1, <1>8

LEMMA FlattenUniform ==
  ASSUME NEW S, NEW width \in Nat, NEW list \in Seq(Seq(S)),
         \A i \in 1 .. Len(list) : Len(list[i]) = width,
         NEW all, all = FlattenSeq(list)
  PROVE  all \in Seq(S) /\ Uniform(list, width, all)
<1> DEFINE T == { item \in Seq(S) : Len(item) = width }
           G == { items \in Seq(T) : Uniform(items, width, FlattenSeq(items)) }
<1>1. Joins(Seq(S))
  BY SequencesJoin
<1>2. << >> \in G
  BY FlattenEmpty, UniformEmpty
<1>3. ASSUME NEW items \in Seq(T), NEW item \in T, items \in G
      PROVE  Append(items, item) \in G
  <2>1. items \in Seq(Seq(S)) /\ item \in Seq(S) /\ Len(item) = width /\ Append(items, item) \in Seq(T)
    OBVIOUS
  <2>2. FlattenSeq(items) \in Seq(S)
    BY <1>1, <2>1, FlattenInto
  <2>3. FlattenSeq(Append(items, item)) = FlattenSeq(items) \o item
    BY <1>1, <2>1, FlattenLast
  <2>4. Uniform(items, width, FlattenSeq(items))
    BY <1>3
  <2>5. Uniform(Append(items, item), width, FlattenSeq(items) \o item)
    BY <2>1, <2>2, <2>4, UniformAppend
  <2> QED
    BY <2>1, <2>3, <2>5
<1>4. list \in Seq(T)
  OBVIOUS
<1> HIDE DEF G
<1>5. list \in G
  BY ONLY <1>2, <1>3, <1>4, SequenceInduction
<1>6. all \in Seq(S)
  BY <1>1, FlattenInto
<1> QED
  BY <1>5, <1>6 DEF G

-----------------------------------------------------------------------------
(* The parameters.                                                          *)

LEMMA Tags ==
  /\ Len(ParamOrder) = 26 /\ DOMAIN ParamOrder = 1 .. 26
  /\ \A i \in 1 .. 26 : ParamOrder[i] \in Byte
  /\ AppConfigParam = { ParamOrder[i] : i \in 1 .. 26 }
  /\ NUMBER_OF_CONTROLEES \in AppConfigParam
  /\ DST_MAC_ADDRESS \in AppConfigParam
  /\ NUMBER_OF_CONTROLEES # DST_MAC_ADDRESS
<1>1. Len(ParamOrder) = 26 /\ DOMAIN ParamOrder = 1 .. 26
  BY DEF ParamOrder
<1>2. \A i \in 1 .. 26 : ParamOrder[i] \in Byte
  BY DEF ParamOrder, Byte, DEVICE_TYPE, RANGING_ROUND_USAGE, STS_CONFIG,
         MULTI_NODE_MODE, CHANNEL_NUMBER, NUMBER_OF_CONTROLEES, DEVICE_MAC_ADDRESS,
         DST_MAC_ADDRESS, SLOT_DURATION, RANGING_INTERVAL, AOA_RESULT_REQ, DEVICE_ROLE,
         RFRAME_CONFIG, RSSI_REPORTING, PREAMBLE_CODE_INDEX, SFD_ID, SLOTS_PER_RR,
         SCHEDULE_MODE, VENDOR_ID, STATIC_STS_IV, UWB_INITIATION_TIME, HOPPING_MODE,
         BLOCK_STRIDE_LENGTH, RESULT_REPORT_CONFIG, MAX_NUMBER_OF_MEASUREMENTS, STS_LENGTH
<1>3. AppConfigParam = { ParamOrder[i] : i \in 1 .. 26 }
  BY <1>1 DEF AppConfigParam, ToSet
<1>4. ParamOrder[4] = NUMBER_OF_CONTROLEES /\ ParamOrder[7] = DST_MAC_ADDRESS
  BY DEF ParamOrder
<1>5. NUMBER_OF_CONTROLEES # DST_MAC_ADDRESS
  BY DEF NUMBER_OF_CONTROLEES, DST_MAC_ADDRESS
<1> QED
  BY <1>1, <1>2, <1>3, <1>4, <1>5

LEMMA TagIsByte == ASSUME NEW tag \in AppConfigParam PROVE tag \in Byte
  BY Tags

LEMMA Widths == ASSUME NEW tag PROVE ParamWidthBytes(tag) \in { 1, 2, 4, 6, 8 }
  BY DEF ParamWidthBytes

\* What can be encoded for a parameter.
Fits(tag, items) == items \in Seq(Seq(Byte)) /\ ~CannotEncode(tag, items)

\* The bytes of a parameter after its tag and its length.
Body(tag, items) ==
  FlattenSeq([ i \in DOMAIN items |-> ToBytes(items[i], ParamWidthBytes(tag)) ])

LEMMA BodyIs ==
  ASSUME NEW tag \in Byte, NEW items, Fits(tag, items)
  PROVE  /\ Body(tag, items) \in Seq(Byte)
         /\ Len(Body(tag, items)) = Len(items) * ParamWidthBytes(tag)
         /\ Len(Body(tag, items)) \in Byte
         /\ \A i \in DOMAIN items :
              SubSeq(Body(tag, items), (i - 1) * ParamWidthBytes(tag) + 1,
                     i * ParamWidthBytes(tag)) = ToBytes(items[i], ParamWidthBytes(tag))
<1>1. PICK width, list, body :
        /\ width = ParamWidthBytes(tag)
        /\ list = [ i \in DOMAIN items |-> ToBytes(items[i], width) ]
        /\ body = FlattenSeq(list)
  OBVIOUS
<1>2. width \in Nat /\ items \in Seq(Seq(Byte)) /\ Len(items) * width <= 255
  BY <1>1, Widths DEF Fits, CannotEncode
<1>3. \A i \in DOMAIN items : ToBytes(items[i], width) \in Seq(Byte)
                              /\ Len(ToBytes(items[i], width)) = width
  <2>1. \A i \in DOMAIN items : items[i] \in Seq(Byte)
    BY <1>2
  <2> QED
    BY <1>2, <2>1, Padded
<1>4. /\ list \in Seq(Seq(Byte)) /\ Len(list) = Len(items) /\ DOMAIN items = 1 .. Len(items)
      /\ \A i \in 1 .. Len(list) : Len(list[i]) = width /\ list[i] = ToBytes(items[i], width)
  <2>1. PICK n \in Nat : n = Len(items) /\ DOMAIN items = 1 .. n
    BY <1>2
  <2>2. list = [ i \in 1 .. n |-> ToBytes(items[i], width) ]
    BY <1>1, <2>1
  <2>3. \A i \in 1 .. n : ToBytes(items[i], width) \in Seq(Byte)
    BY <1>3, <2>1
  <2>4. list \in Seq(Seq(Byte)) /\ Len(list) = n
    BY ONLY <2>2, <2>3, n \in Nat
  <2> QED
    BY <1>3, <2>1, <2>2, <2>4
<1>5. body \in Seq(Byte) /\ Uniform(list, width, body)
  BY ONLY <1>1, <1>2, <1>4, FlattenUniform
<1>6. Len(body) = Len(items) * width
  BY <1>4, <1>5 DEF Uniform
<1>7. Len(body) \in Byte
  <2>1. Len(body) \in Nat /\ Len(body) <= 255
    BY <1>2, <1>5, <1>6
  <2> QED
    BY ONLY <2>1, ByteUpTo255
<1>8. \A i \in DOMAIN items : SubSeq(body, (i - 1) * width + 1, i * width)
                                = ToBytes(items[i], width)
  BY <1>4, <1>5 DEF Uniform
<1>9. body = Body(tag, items)
  BY <1>1 DEF Body
<1> QED
  BY <1>1, <1>5, <1>6, <1>7, <1>8, <1>9

LEMMA ParamEncoded ==
  ASSUME NEW tag \in Byte, NEW items, Fits(tag, items)
  PROVE  /\ EncodeParam(tag, items)
              = << tag, Len(Body(tag, items)) >> \o Body(tag, items)
         /\ EncodeParam(tag, items) \in Seq(Byte)
<1>1. EncodeParam(tag, items) = << tag, Len(Body(tag, items)) >> \o Body(tag, items)
  BY BodyIs DEF EncodeParam, Body
<1> QED
  BY <1>1, BodyIs

LEMMA AllFit ==
  ASSUME NEW params \in [AppConfigParam -> Seq(Seq(Byte))],
         EncodeAppConfig(WithControlees(params)) # Raised
  PROVE  /\ \A tag \in AppConfigParam : Fits(tag, WithControlees(params)[tag])
         /\ \A tag \in AppConfigParam \ { NUMBER_OF_CONTROLEES } :
              WithControlees(params)[tag] = params[tag]
         /\ Len(params[DST_MAC_ADDRESS]) \in Byte
         /\ WithControlees(params)[NUMBER_OF_CONTROLEES] = << Digits(Len(params[DST_MAC_ADDRESS])) >>
         /\ Digits(Len(params[DST_MAC_ADDRESS])) \in Seq(Byte)
<1>1. PICK config, n : config = WithControlees(params) /\ n = Len(params[DST_MAC_ADDRESS])
  OBVIOUS
<1>2. \A tag \in AppConfigParam : ~CannotEncode(tag, config[tag])
  BY <1>1, Tags DEF EncodeAppConfig
<1>3. /\ config[NUMBER_OF_CONTROLEES] = << Digits(n) >>
      /\ \A tag \in AppConfigParam \ { NUMBER_OF_CONTROLEES } : config[tag] = params[tag]
  BY <1>1, Tags DEF WithControlees
<1>4. n \in Byte /\ n <= 127
  <2>1. params[DST_MAC_ADDRESS] \in Seq(Seq(Byte)) /\ n \in Nat
    BY <1>1, Tags
  <2>2. ~CannotEncode(DST_MAC_ADDRESS, params[DST_MAC_ADDRESS])
    BY <1>2, <1>3, Tags
  <2>3. ParamWidthBytes(DST_MAC_ADDRESS) = 2
    BY DEF ParamWidthBytes, DST_MAC_ADDRESS, DEVICE_MAC_ADDRESS, RANGING_INTERVAL,
           STATIC_STS_IV, UWB_INITIATION_TIME
  <2>4. n * 2 <= 255
    BY <1>1, <2>1, <2>2, <2>3 DEF CannotEncode
  <2> QED
    BY <2>1, <2>4 DEF Byte
<1>5. Digits(n) \in Seq(Byte)
  <2>1. n = 0 => Digits(n) = << >>
    BY DEF Digits
  <2>2. n # 0 => Digits(n) = << n >>
    BY <1>4 DEF Digits, Byte
  <2>3. << >> \in Seq(Byte) /\ << n >> \in Seq(Byte)
    BY <1>4
  <2> QED
    BY <2>1, <2>2, <2>3
<1>6. \A tag \in AppConfigParam : config[tag] \in Seq(Seq(Byte))
  <2>1. << Digits(n) >> \in Seq(Seq(Byte))
    BY <1>5
  <2>2. \A tag \in AppConfigParam : params[tag] \in Seq(Seq(Byte))
    OBVIOUS
  <2> QED
    BY <1>3, <2>1, <2>2
<1> QED
  BY <1>1, <1>2, <1>3, <1>4, <1>5, <1>6 DEF Fits

-----------------------------------------------------------------------------
(* What the device reads.                                                   *)

LEMMA ReadOne ==
  ASSUME NEW tag \in Byte, NEW body \in Seq(Byte), Len(body) \in Byte, NEW rest \in Seq(Byte),
         NEW reading, reading.rest = (<< tag, Len(body) >> \o body) \o rest
  PROVE  ReadParam(reading) = [ rest |-> rest,
                                read |-> [ reading.read EXCEPT ![tag] = body ] ]
<1>1. PICK length, front, all :
        /\ length = Len(body)
        /\ front = << tag, length >> \o body
        /\ all = front \o rest
  OBVIOUS
<1>2. length \in Nat /\ length \in Byte /\ << tag, length >> \in Seq(Byte)
  BY <1>1
<1>3. /\ front \in Seq(Byte) /\ Len(front) = 2 + length
      /\ front[1] = tag /\ front[2] = length
  BY <1>1, <1>2
<1>4. /\ all \in Seq(Byte) /\ Len(all) = (2 + length) + Len(rest) /\ Len(rest) \in Nat
      /\ all[1] = tag /\ all[2] = length
  BY <1>1, <1>2, <1>3, JoinAt
<1>5. SubSeq(front, 3, 2 + length) = body
  <2>1. Len(<< tag, length >>) = 2
    OBVIOUS
  <2>2. SubSeq(front, Len(<< tag, length >>) + 1, Len(front)) = body
    BY ONLY <1>1, <1>2, body \in Seq(Byte), LaidOut
  <2> QED
    BY ONLY <1>3, <2>1, <2>2
<1>6. SubSeq(all, 3, 2 + length) = body
  <2>1. 2 \in Nat /\ 2 + length \in Nat /\ 2 <= 2 + length /\ 2 + length <= Len(front)
    BY <1>2, <1>3
  <2>2. SubSeq(all, 2 + 1, 2 + length) = SubSeq(front, 2 + 1, 2 + length)
    BY ONLY <1>1, <1>3, <2>1, rest \in Seq(Byte), SliceWithin
  <2>3. 2 + 1 = 3
    OBVIOUS
  <2>4. SubSeq(all, 3, 2 + length) = SubSeq(front, 3, 2 + length)
    BY ONLY <2>2, <2>3, Zenon
  <2> QED
    BY ONLY <1>5, <2>4
<1>7. SubSeq(all, 3 + length, Len(all)) = rest
  <2>1. SubSeq(all, Len(front) + 1, Len(all)) = rest
    BY ONLY <1>1, <1>3, rest \in Seq(Byte), LaidOut
  <2>2. Len(front) + 1 = 3 + length
    BY <1>2, <1>3
  <2> QED
    BY ONLY <2>1, <2>2
<1>8. reading.rest = all
  BY <1>1
<1>9. ~(Len(reading.rest) < 2 \/ Len(reading.rest) < 2 + reading.rest[2])
  BY <1>2, <1>4, <1>8
<1> QED
  BY <1>1, <1>4, <1>6, <1>7, <1>8, <1>9 DEF ReadParam

\* The recursive function of DeviceReads.
Reads(f, start, n) ==
  f = [ i \in 0 .. n |-> IF i = 0 THEN start ELSE ReadParam(f[i - 1]) ]

LEMMA ReadsExists ==
  ASSUME NEW start, NEW n \in Nat
  PROVE  \E f : Reads(f, start, n)
<1> DEFINE T == { k \in Nat : \E f : Reads(f, start, k) }
<1>1. 0 \in T
  <2>1. PICK f : f = [ i \in 0 .. 0 |-> start ]
    OBVIOUS
  <2>2. f = [ i \in 0 .. 0 |-> IF i = 0 THEN start ELSE ReadParam(f[i - 1]) ]
    BY <2>1
  <2> QED
    BY <2>2 DEF Reads
<1>2. ASSUME NEW k \in Nat, k \in T PROVE k + 1 \in T
  <2>1. PICK f : Reads(f, start, k)
    BY <1>2
  <2>2. PICK g : g = [ i \in 0 .. k + 1 |-> IF i = k + 1 THEN ReadParam(f[k]) ELSE f[i] ]
    OBVIOUS
  <2>3. \A i \in 0 .. k : f[i] = IF i = 0 THEN start ELSE ReadParam(f[i - 1])
    BY <2>1 DEF Reads
  <2>4. \A i \in 0 .. k : g[i] = f[i]
    BY <2>2
  <2>5. ASSUME NEW i \in 0 .. k + 1
        PROVE  g[i] = IF i = 0 THEN start ELSE ReadParam(g[i - 1])
    <3>1. CASE i = k + 1
      <4>1. g[i] = ReadParam(f[k]) /\ i # 0 /\ i - 1 = k /\ k \in 0 .. k
        BY <2>2, <3>1
      <4>2. g[k] = f[k]
        BY <2>4, <4>1
      <4> QED
        BY <4>1, <4>2
    <3>2. CASE i = 0
      <4>1. i \in 0 .. k
        BY <3>2
      <4> QED
        BY <2>3, <2>4, <3>2, <4>1
    <3>3. CASE i # 0 /\ i # k + 1
      <4>1. i \in 0 .. k /\ i - 1 \in 0 .. k
        BY <3>3
      <4>2. g[i] = f[i] /\ g[i - 1] = f[i - 1] /\ f[i] = ReadParam(f[i - 1])
        BY <2>3, <2>4, <3>3, <4>1
      <4> QED
        BY <3>3, <4>2
    <3> QED
      BY <3>1, <3>2, <3>3
  <2>6. Reads(g, start, k + 1)
    <3>1. DOMAIN g = 0 .. k + 1 /\ g = [ i \in 0 .. k + 1 |-> g[i] ]
      BY <2>2
    <3> QED
      BY <2>5, <3>1 DEF Reads
  <2> QED
    BY <2>6
<1> HIDE DEF T
<1>3. \A k \in Nat : k \in T
  BY <1>1, <1>2, Induction
<1> QED
  BY <1>3 DEF T

LEMMA DeviceReadsBy ==
  ASSUME NEW block, NEW n \in Nat, Head(block) = n
  PROVE  \E f : Reads(f, NothingRead(block), n) /\ DeviceReads(block) = f[n]
<1> DEFINE f == CHOOSE g : g = [ i \in 0 .. n |-> IF i = 0 THEN NothingRead(block)
                                                 ELSE ReadParam(g[i - 1]) ]
<1>1. \E g : g = [ i \in 0 .. n |-> IF i = 0 THEN NothingRead(block) ELSE ReadParam(g[i - 1]) ]
  <2>1. PICK g : Reads(g, NothingRead(block), n)
    BY ReadsExists
  <2>2. g = [ i \in 0 .. n |-> IF i = 0 THEN NothingRead(block) ELSE ReadParam(g[i - 1]) ]
    BY ONLY <2>1 DEF Reads
  <2> QED
    BY ONLY <2>2
<1>2. f = [ i \in 0 .. n |-> IF i = 0 THEN NothingRead(block) ELSE ReadParam(f[i - 1]) ]
  BY ONLY <1>1
<1>3. DeviceReads(block) = f[n]
  BY DEF DeviceReads
<1> QED
  BY <1>2, <1>3 DEF Reads

LEMMA FlattenNext ==
  ASSUME NEW S, NEW list \in Seq(Seq(S)), NEW k \in 0 .. Len(list) - 1
  PROVE  FlattenSeq(SubSeq(list, k + 1, Len(list)))
           = list[k + 1] \o FlattenSeq(SubSeq(list, (k + 1) + 1, Len(list)))
<1>1. PICK rest : rest = SubSeq(list, k + 1, Len(list))
  OBVIOUS
<1>2. k \in 0 .. Len(list) /\ Len(list) \in Nat
  OBVIOUS
<1>3. rest \in Seq(Seq(S)) /\ Len(rest) = Len(list) - k
  BY <1>1, <1>2, DropAt
<1>4. rest # << >>
  BY <1>2, <1>3
<1>5. Head(rest) = list[k + 1] /\ Tail(rest) = SubSeq(list, (k + 1) + 1, Len(list))
  <2>1. << >> \in Seq(Seq(S)) /\ rest = rest \o << >>
    BY <1>3, JoinEmpty
  <2>2. rest = SubSeq(list, k + 1, Len(list)) \o << >>
    BY <1>1, <2>1
  <2>3. /\ Head(rest) = list[k + 1]
        /\ Tail(rest) = SubSeq(list, (k + 1) + 1, Len(list)) \o << >>
    BY ONLY <2>1, <2>2, list \in Seq(Seq(S)), k \in 0 .. Len(list) - 1, SliceHead
  <2>4. SubSeq(list, (k + 1) + 1, Len(list)) \in Seq(Seq(S))
    <3>1. k + 1 \in 0 .. Len(list)
      BY <1>2
    <3> QED
      BY <3>1, DropAt
  <2> QED
    BY <2>3, <2>4, JoinEmpty
<1>6. Joins(Seq(S))
  BY SequencesJoin
<1>7. FlattenSeq(rest) = Head(rest) \o FlattenSeq(Tail(rest))
  BY <1>3, <1>4, <1>6, FlattenFirst
<1> QED
  BY <1>1, <1>5, <1>7

\* The parameters in the order in which they are listed.
Entries(config) ==
  [ i \in DOMAIN ParamOrder |-> EncodeParam(ParamOrder[i], config[ParamOrder[i]]) ]

LEMMA EntriesType ==
  ASSUME NEW config, \A tag \in AppConfigParam : Fits(tag, config[tag])
  PROVE  /\ Entries(config) \in Seq(Seq(Byte)) /\ Len(Entries(config)) = 26
         /\ FlattenSeq(Entries(config)) \in Seq(Byte)
         /\ \A i \in 1 .. 26 :
              Entries(config)[i] = EncodeParam(ParamOrder[i], config[ParamOrder[i]])
<1>1. \A i \in 1 .. 26 : EncodeParam(ParamOrder[i], config[ParamOrder[i]]) \in Seq(Byte)
  BY Tags, ParamEncoded
<1>2. Entries(config) = [ i \in 1 .. 26 |-> EncodeParam(ParamOrder[i], config[ParamOrder[i]]) ]
  BY Tags DEF Entries
<1>3. Entries(config) \in Seq(Seq(Byte)) /\ Len(Entries(config)) = 26
  BY <1>1, <1>2
<1>4. FlattenSeq(Entries(config)) \in Seq(Byte)
  BY <1>3, SequencesJoin, FlattenInto
<1> QED
  BY <1>2, <1>3, <1>4

\* What has been read after the first k parameters.
ReadUpTo(config, k) ==
  [ rest |-> FlattenSeq(SubSeq(Entries(config), k + 1, 26)),
    read |-> [ tag \in Byte |-> IF \E j \in 1 .. k : ParamOrder[j] = tag
                               THEN Body(tag, config[tag]) ELSE << >> ] ]

LEMMA ReadNext ==
  ASSUME NEW config, \A tag \in AppConfigParam : Fits(tag, config[tag]), NEW k \in 0 .. 25
  PROVE  ReadParam(ReadUpTo(config, k)) = ReadUpTo(config, k + 1)
<1>1. PICK tag, body, rest, read :
        /\ tag = ParamOrder[k + 1] /\ body = Body(tag, config[tag])
        /\ rest = FlattenSeq(SubSeq(Entries(config), (k + 1) + 1, 26))
        /\ read = ReadUpTo(config, k).read
  OBVIOUS
<1>2. k \in Nat /\ k + 1 \in 1 .. 26
  OBVIOUS
<1>3. tag \in AppConfigParam /\ tag \in Byte /\ Fits(tag, config[tag])
  BY <1>1, <1>2, Tags
<1>4. body \in Seq(Byte) /\ Len(body) \in Byte
  BY <1>1, <1>3, BodyIs
<1>5. rest \in Seq(Byte)
  <2>1. k + 1 \in 0 .. 26 /\ Entries(config) \in Seq(Seq(Byte)) /\ Len(Entries(config)) = 26
    BY EntriesType
  <2>2. SubSeq(Entries(config), (k + 1) + 1, 26) \in Seq(Seq(Byte))
    BY <2>1, DropAt
  <2> QED
    BY <1>1, <2>2, SequencesJoin, FlattenInto
<1>6. FlattenSeq(SubSeq(Entries(config), k + 1, 26)) = (<< tag, Len(body) >> \o body) \o rest
  <2>1. PICK list : list = Entries(config)
    OBVIOUS
  <2>2. list \in Seq(Seq(Byte)) /\ Len(list) = 26 /\ k \in 0 .. Len(list) - 1
    <3>1. list \in Seq(Seq(Byte)) /\ Len(list) = 26
      BY <2>1, EntriesType
    <3> QED
      BY ONLY <3>1, k \in 0 .. 25
  <2>3. FlattenSeq(SubSeq(list, k + 1, Len(list)))
          = list[k + 1] \o FlattenSeq(SubSeq(list, (k + 1) + 1, Len(list)))
    BY ONLY <2>2, FlattenNext
  <2>4. list[k + 1] = EncodeParam(tag, config[tag])
    BY <1>1, <1>2, <2>1, EntriesType
  <2>5. EncodeParam(tag, config[tag]) = << tag, Len(body) >> \o body
    BY <1>1, <1>3, ParamEncoded
  <2> QED
    BY <1>1, <2>1, <2>2, <2>3, <2>4, <2>5
<1>7. PICK reading : reading = ReadUpTo(config, k)
  OBVIOUS
<1>8. ReadParam(reading) = [ rest |-> rest, read |-> [ read EXCEPT ![tag] = body ] ]
  <2>1. reading.rest = (<< tag, Len(body) >> \o body) \o rest
    BY <1>6, <1>7 DEF ReadUpTo
  <2>2. ReadParam(reading) = [ rest |-> rest, read |-> [ reading.read EXCEPT ![tag] = body ] ]
    BY ONLY <1>3, <1>4, <1>5, <2>1, ReadOne
  <2> QED
    BY <1>1, <1>7, <2>2
<1>9. [ read EXCEPT ![tag] = body ] = ReadUpTo(config, k + 1).read
  <2>1. read = [ t \in Byte |-> IF \E j \in 1 .. k : ParamOrder[j] = t
                               THEN Body(t, config[t]) ELSE << >> ]
    BY <1>1 DEF ReadUpTo
  <2>2. ReadUpTo(config, k + 1).read
          = [ t \in Byte |-> IF \E j \in 1 .. k + 1 : ParamOrder[j] = t
                            THEN Body(t, config[t]) ELSE << >> ]
    BY DEF ReadUpTo
  <2>3. \A t \in Byte : (\E j \in 1 .. k + 1 : ParamOrder[j] = t)
                          <=> (\E j \in 1 .. k : ParamOrder[j] = t) \/ t = tag
    <3>1. \A j \in 1 .. k + 1 : j \in 1 .. k \/ j = k + 1
      BY <1>2
    <3>2. \A j \in 1 .. k : j \in 1 .. k + 1
      BY <1>2
    <3> QED
      BY <1>1, <1>2, <3>1, <3>2
  <2>4. ASSUME NEW t \in Byte
        PROVE  [ read EXCEPT ![tag] = body ][t]
                 = IF \E j \in 1 .. k + 1 : ParamOrder[j] = t THEN Body(t, config[t]) ELSE << >>
    <3>1. CASE t = tag
      BY <1>1, <2>1, <2>3, <3>1
    <3>2. CASE t # tag
      BY <2>1, <2>3, <3>2
    <3> QED
      BY <3>1, <3>2
  <2> QED
    BY <2>1, <2>2, <2>4
<1> QED
  BY <1>1, <1>7, <1>8, <1>9 DEF ReadUpTo

LEMMA ReadsAll ==
  ASSUME NEW config, \A tag \in AppConfigParam : Fits(tag, config[tag]),
         NEW block, block = << 26 >> \o FlattenSeq(Entries(config))
  PROVE  DeviceReads(block) = ReadUpTo(config, 26)
<1>1. Head(block) = 26 /\ Tail(block) = FlattenSeq(Entries(config))
  <2>1. 26 \in Byte /\ FlattenSeq(Entries(config)) \in Seq(Byte)
    BY EntriesType DEF Byte
  <2> QED
    BY ONLY <2>1, block = << 26 >> \o FlattenSeq(Entries(config)), ConsParts
<1>2. PICK f : Reads(f, NothingRead(block), 26) /\ DeviceReads(block) = f[26]
  BY <1>1, DeviceReadsBy
<1>3. \A i \in 0 .. 26 : f[i] = IF i = 0 THEN NothingRead(block) ELSE ReadParam(f[i - 1])
  BY <1>2 DEF Reads
<1> DEFINE T == { k \in Nat : k <= 26 => f[k] = ReadUpTo(config, k) }
<1>4. 0 \in T
  <2>1. SubSeq(Entries(config), 0 + 1, 26) = Entries(config)
    BY EntriesType
  <2>2. ReadUpTo(config, 0) = NothingRead(block)
    <3>1. [ tag \in Byte |-> IF \E j \in 1 .. 0 : ParamOrder[j] = tag
                             THEN Body(tag, config[tag]) ELSE << >> ]
            = [ tag \in Byte |-> << >> ]
      <4>1. ~(\E j \in 1 .. 0 : TRUE)
        OBVIOUS
      <4>2. \A tag \in Byte : ~(\E j \in 1 .. 0 : ParamOrder[j] = tag)
        BY ONLY <4>1
      <4> QED
        BY ONLY <4>2
    <3>2. NothingRead(block) = [ rest |-> FlattenSeq(Entries(config)),
                                 read |-> [ tag \in Byte |-> << >> ] ]
      BY ONLY <1>1 DEF NothingRead
    <3> QED
      BY ONLY <2>1, <3>1, <3>2 DEF ReadUpTo
  <2> QED
    BY <1>3, <2>2
<1>5. ASSUME NEW k \in Nat, k \in T PROVE k + 1 \in T
  <2>1. CASE k + 1 <= 26
    <3>1. k \in 0 .. 25 /\ k + 1 \in 0 .. 26 /\ (k + 1) - 1 = k /\ k + 1 # 0
      BY <2>1
    <3>2. f[k] = ReadUpTo(config, k)
      BY <1>5, <3>1
    <3>3. f[k + 1] = ReadParam(f[k])
      BY ONLY <1>3, <3>1
    <3> QED
      BY <3>1, <3>2, <3>3, ReadNext
  <2>2. CASE ~(k + 1 <= 26)
    BY <2>2
  <2> QED
    BY <2>1, <2>2
<1> HIDE DEF T
<1>6. \A k \in Nat : k \in T
  BY <1>4, <1>5, Induction
<1> QED
  BY <1>2, <1>6 DEF T

-----------------------------------------------------------------------------
(* The payload of a command.                                                *)

LEMMA MethodsAre ==
  /\ DOMAIN Methods =
       { "reset", "get_device_info", "get_caps_raw", "session_init", "session_deinit",
         "session_set_app_config", "get_session_count", "get_session_state",
         "ranging_start", "ranging_stop", "get_ranging_count" }
  /\ \A method \in DOMAIN Methods :
       Methods[method][1] \in 0 .. 15 /\ Methods[method][2] \in Byte
  /\ WithoutHandle \subseteq DOMAIN Methods
  /\ "session_set_app_config" \notin WithoutHandle
<1>1. DOMAIN Methods =
       { "reset", "get_device_info", "get_caps_raw", "session_init", "session_deinit",
         "session_set_app_config", "get_session_count", "get_session_state",
         "ranging_start", "ranging_stop", "get_ranging_count" }
  BY DEF Methods
<1>2. \A method \in DOMAIN Methods : Methods[method][1] \in 0 .. 15 /\ Methods[method][2] \in Byte
  BY DEF Methods, Byte, CORE, SESSION, RANGING
<1> QED
  BY <1>1, <1>2 DEF WithoutHandle

LEMMA RequestFields ==
  ASSUME NEW r \in Requests
  PROVE  /\ r.method \in Names /\ r.handle \in Seq(Byte) /\ r.session_type \in Byte
         /\ r.method = "session_set_app_config" =>
              r.params \in [AppConfigParam -> Seq(Seq(Byte))]
  BY RequestsAssumption

\* A handle and what follows it.
WithHandle(r, rest, bytes) == rest \in Seq(Byte) /\ bytes = ToBytes(r.handle, 4) \o rest

LEMMA WithHandleType ==
  ASSUME NEW r, r.handle \in Seq(Byte), NEW rest, NEW bytes, WithHandle(r, rest, bytes)
  PROVE  /\ bytes \in Seq(Byte) /\ bytes # << >>
         /\ SubSeq(bytes, 1, 4) = ToBytes(r.handle, 4)
         /\ SubSeq(bytes, 5, Len(bytes)) = rest
<1>1. PICK handle : handle = ToBytes(r.handle, 4)
  OBVIOUS
<1>2. 4 \in Nat
  OBVIOUS
<1>3. handle \in Seq(Byte) /\ Len(handle) = 4
  BY <1>1, <1>2, PaddedType
<1>4. bytes = handle \o rest /\ rest \in Seq(Byte)
  BY <1>1 DEF WithHandle
<1>5. /\ bytes \in Seq(Byte) /\ Len(handle) <= Len(bytes) /\ Len(bytes) \in Nat
      /\ SubSeq(bytes, 1, Len(handle)) = handle
      /\ SubSeq(bytes, Len(handle) + 1, Len(bytes)) = rest
  <2>1. TwoParts(handle \o rest, handle, rest)
    BY ONLY <1>3, <1>4, JoinsParts
  <2> QED
    BY <1>4, <2>1 DEF TwoParts
<1>6. bytes # << >>
  BY <1>3, <1>5
<1>7. Len(handle) + 1 = 5
  BY <1>3
<1> QED
  BY <1>1, <1>3, <1>5, <1>6, <1>7

\* What is sent for the parameters passed.
ConfigBytes(r, config) ==
  /\ config = WithControlees(r.params)
  /\ EncodeAppConfig(config) # Raised
  /\ WithHandle(r, << 26 >> \o FlattenSeq(Entries(config)), RequestPayload(r).bytes)

LEMMA ConfigPayload ==
  ASSUME NEW r \in Requests, r.method = "session_set_app_config", RequestPayload(r) # Raised
  PROVE  ConfigBytes(r, WithControlees(r.params))
<1>1. PICK config : config = WithControlees(r.params)
  OBVIOUS
<1>2. /\ EncodeAppConfig(config) # Raised
      /\ RequestPayload(r).bytes = ToBytes(r.handle, 4) \o EncodeAppConfig(config).bytes
  BY <1>1 DEF RequestPayload, WithoutHandle
<1>3. EncodeAppConfig(config).bytes = << 26 >> \o FlattenSeq(Entries(config))
  BY <1>2, Tags DEF EncodeAppConfig, Entries
<1>4. \A tag \in AppConfigParam : Fits(tag, config[tag])
  BY <1>1, <1>2, RequestFields, AllFit
<1>5. << 26 >> \o FlattenSeq(Entries(config)) \in Seq(Byte)
  <2>1. << 26 >> \in Seq(Byte)
    BY DEF Byte
  <2> QED
    BY <1>4, <2>1, EntriesType
<1> QED
  BY <1>1, <1>2, <1>3, <1>5 DEF ConfigBytes, WithHandle

LEMMA PayloadType ==
  ASSUME NEW r \in Requests, r.method \in DOMAIN Methods, RequestPayload(r) # Raised
  PROVE  /\ RequestPayload(r).bytes \in Seq(Byte)
         /\ RequestPayload(r).bytes = << >> => r.method \in WithoutHandle
<1>1. r.handle \in Seq(Byte) /\ r.session_type \in Byte
  BY RequestFields
<1>2. CASE r.method \in WithoutHandle
  <2>1. RequestPayload(r).bytes = << 0 >> \/ RequestPayload(r).bytes = << >>
    BY <1>2 DEF RequestPayload
  <2>2. << 0 >> \in Seq(Byte) /\ << >> \in Seq(Byte)
    BY ZeroByte
  <2> QED
    BY ONLY <1>2, <2>1, <2>2
<1>3. CASE r.method = "session_set_app_config"
  <2>1. PICK config : ConfigBytes(r, config)
    BY <1>3, ConfigPayload
  <2> QED
    BY <1>1, <2>1, WithHandleType DEF ConfigBytes
<1>4. CASE r.method \notin WithoutHandle /\ r.method # "session_set_app_config"
  <2>1. \E rest \in { << >>, << r.session_type >> } :
          RequestPayload(r).bytes = ToBytes(r.handle, 4) \o rest
    BY <1>4 DEF RequestPayload, WithoutHandle
  <2>2. PICK rest : WithHandle(r, rest, RequestPayload(r).bytes)
    <3>1. << >> \in Seq(Byte) /\ << r.session_type >> \in Seq(Byte)
      BY <1>1
    <3>2. PICK rest : rest \in Seq(Byte) /\ RequestPayload(r).bytes = ToBytes(r.handle, 4) \o rest
      BY ONLY <2>1, <3>1
    <3> QED
      BY ONLY <3>2 DEF WithHandle
  <2> QED
    BY <1>1, <2>2, WithHandleType
<1> QED
  BY <1>2, <1>3, <1>4

LEMMA CommandIsMessage ==
  ASSUME NEW method \in DOMAIN Methods, NEW bytes \in Seq(Byte)
  PROVE  CommandMessage(method, bytes) \in Message /\ CommandMessage(method, bytes).payload = bytes
<1>1. Command \in MessageType
  BY DEF Command, MessageType, DataPacket, Notification
<1> QED
  BY <1>1, MethodsAre DEF CommandMessage, Message

LEMMA ControleesBody ==
  ASSUME NEW n \in Byte, Digits(n) \in Seq(Byte), Fits(NUMBER_OF_CONTROLEES, << Digits(n) >>)
  PROVE  Body(NUMBER_OF_CONTROLEES, << Digits(n) >>) = << n >>
<1>1. PICK items, body : items = << Digits(n) >> /\ body = Body(NUMBER_OF_CONTROLEES, items)
  OBVIOUS
<1>2. Len(items) = 1 /\ 1 \in DOMAIN items /\ items[1] = Digits(n)
  BY <1>1
<1>3. ParamWidthBytes(NUMBER_OF_CONTROLEES) = 1
  BY DEF ParamWidthBytes, NUMBER_OF_CONTROLEES, DST_MAC_ADDRESS, DEVICE_MAC_ADDRESS,
         SLOT_DURATION, VENDOR_ID, MAX_NUMBER_OF_MEASUREMENTS, RANGING_INTERVAL,
         STATIC_STS_IV, UWB_INITIATION_TIME
<1>4. /\ body \in Seq(Byte) /\ Len(body) = 1 * 1
      /\ SubSeq(body, (1 - 1) * 1 + 1, 1 * 1) = ToBytes(Digits(n), 1)
  <2>1. NUMBER_OF_CONTROLEES \in Byte /\ Fits(NUMBER_OF_CONTROLEES, items)
    BY <1>1, Tags
  <2> QED
    BY <1>1, <1>2, <1>3, <2>1, BodyIs
<1>5. SubSeq(body, 1, 1) = body /\ (1 - 1) * 1 + 1 = 1 /\ 1 * 1 = 1 /\ Len(body) = 1
  BY <1>4
<1>6. ToBytes(Digits(n), 1) = << n >>
  <2>1. n = 0 => Digits(n) = << >>
    BY DEF Digits
  <2>2. n # 0 => Digits(n) = << n >>
    BY DEF Digits, Byte
  <2>3. ToBytes(Digits(n), 1) \in Seq(Byte) /\ Len(ToBytes(Digits(n), 1)) = 1
    BY PaddedType
  <2>4. ToBytes(Digits(n), 1)[1] = n
    <3>1. CASE n = 0
      BY <2>1, <3>1 DEF ToBytes
    <3>2. CASE n # 0
      BY <2>2, <3>2 DEF ToBytes
    <3> QED
      BY <3>1, <3>2
  <2> QED
    BY <2>3, <2>4
<1> QED
  BY <1>1, <1>4, <1>5, <1>6

\* What DeviceReadsConfig says of the bytes of a command.
ReadsAsPassed(r, bytes) ==
  LET reading == DeviceReads(SubSeq(bytes, 5, Len(bytes)))
  IN /\ SubSeq(bytes, 1, 4) = ToBytes(r.handle, 4)
     /\ reading.rest = << >>
     /\ \A tag \in AppConfigParam \ { NUMBER_OF_CONTROLEES } :
          /\ Len(reading.read[tag]) = Len(r.params[tag]) * ParamWidthBytes(tag)
          /\ \A i \in DOMAIN r.params[tag] :
               SubSeq(reading.read[tag], (i - 1) * ParamWidthBytes(tag) + 1,
                      i * ParamWidthBytes(tag)) = ToBytes(r.params[tag][i], ParamWidthBytes(tag))
     /\ reading.read[NUMBER_OF_CONTROLEES] = << Len(r.params[DST_MAC_ADDRESS]) >>

LEMMA ReadsPassed ==
  ASSUME NEW r \in Requests, r.method = "session_set_app_config", RequestPayload(r) # Raised
  PROVE  ReadsAsPassed(r, RequestPayload(r).bytes)
<1>1. PICK config, bytes, n, params :
        /\ config = WithControlees(r.params) /\ bytes = RequestPayload(r).bytes
        /\ n = Len(r.params[DST_MAC_ADDRESS]) /\ params = r.params
  OBVIOUS
<1>2. ConfigBytes(r, config) /\ r.handle \in Seq(Byte)
  BY <1>1, ConfigPayload, RequestFields
<1>3. params \in [AppConfigParam -> Seq(Seq(Byte))] /\ EncodeAppConfig(config) # Raised
  BY <1>1, <1>2, RequestFields DEF ConfigBytes
<1>4. /\ \A tag \in AppConfigParam : Fits(tag, config[tag])
      /\ \A tag \in AppConfigParam \ { NUMBER_OF_CONTROLEES } : config[tag] = params[tag]
      /\ n \in Byte /\ config[NUMBER_OF_CONTROLEES] = << Digits(n) >> /\ Digits(n) \in Seq(Byte)
  BY <1>1, <1>3, AllFit
<1>5. PICK block : block = << 26 >> \o FlattenSeq(Entries(config))
  OBVIOUS
<1>6. SubSeq(bytes, 1, 4) = ToBytes(r.handle, 4) /\ SubSeq(bytes, 5, Len(bytes)) = block
  <2>1. WithHandle(r, block, bytes)
    BY <1>1, <1>2, <1>5 DEF ConfigBytes
  <2> QED
    BY ONLY <1>2, <2>1, WithHandleType
<1>7. PICK reading : reading = DeviceReads(block)
  OBVIOUS
<1>8. reading = ReadUpTo(config, 26)
  BY ONLY <1>4, <1>5, <1>7, ReadsAll
<1>9. reading.rest = << >>
  <2>1. SubSeq(Entries(config), 26 + 1, 26) = << >>
    BY <1>4, EntriesType
  <2> QED
    BY <1>8, <2>1, FlattenEmpty DEF ReadUpTo
<1>10. ASSUME NEW tag \in AppConfigParam PROVE reading.read[tag] = Body(tag, config[tag])
  <2>1. tag \in Byte /\ \E j \in 1 .. 26 : ParamOrder[j] = tag
    BY Tags
  <2> QED
    BY <1>8, <2>1 DEF ReadUpTo
<1>11. ASSUME NEW tag \in AppConfigParam \ { NUMBER_OF_CONTROLEES }
       PROVE  /\ Len(reading.read[tag]) = Len(params[tag]) * ParamWidthBytes(tag)
              /\ \A i \in DOMAIN params[tag] :
                   SubSeq(reading.read[tag], (i - 1) * ParamWidthBytes(tag) + 1,
                          i * ParamWidthBytes(tag)) = ToBytes(params[tag][i], ParamWidthBytes(tag))
  <2>1. PICK items : items = params[tag]
    OBVIOUS
  <2>2. tag \in Byte /\ Fits(tag, items) /\ reading.read[tag] = Body(tag, items)
    BY <1>4, <1>10, <2>1, TagIsByte
  <2>3. /\ Len(Body(tag, items)) = Len(items) * ParamWidthBytes(tag)
        /\ \A i \in DOMAIN items :
             SubSeq(Body(tag, items), (i - 1) * ParamWidthBytes(tag) + 1,
                    i * ParamWidthBytes(tag)) = ToBytes(items[i], ParamWidthBytes(tag))
    BY ONLY <2>2, BodyIs
  <2> QED
    BY ONLY <2>1, <2>2, <2>3
<1>12. reading.read[NUMBER_OF_CONTROLEES] = << n >>
  <2>1. Fits(NUMBER_OF_CONTROLEES, << Digits(n) >>)
    BY <1>4, Tags
  <2> QED
    BY <1>4, <1>10, <2>1, Tags, ControleesBody
<1> QED
  BY ONLY <1>1, <1>6, <1>7, <1>9, <1>11, <1>12 DEF ReadsAsPassed

-----------------------------------------------------------------------------
(* Fields of a payload.                                                     *)

Begins(all, s) == Len(s) <= Len(all) /\ \A i \in 1 .. Len(s) : all[i] = s[i]

Holds(all, at, part) == \A i \in 1 .. Len(part) : all[at + i] = part[i]

LEMMA BeginsWith ==
  ASSUME NEW s \in Seq(Byte), NEW t \in Seq(Byte), NEW all, all = s \o t
  PROVE  all \in Seq(Byte) /\ Len(all) = Len(s) + Len(t) /\ Begins(all, s)
  BY DEF Begins

LEMMA HoldsEnd ==
  ASSUME NEW s \in Seq(Byte), NEW t \in Seq(Byte)
  PROVE  Holds(s \o t, Len(s), t)
  BY DEF Holds

\* Two bytes more.
MorePair(all, s, n, a, b) ==
  /\ all \in Seq(Byte) /\ Len(all) = n + 2
  /\ all[n + 1] = a /\ all[n + 2] = b
  /\ Begins(all, s)

LEMMA BeginsPair ==
  ASSUME NEW s \in Seq(Byte), NEW a \in Byte, NEW b \in Byte,
         NEW n \in Nat, n = Len(s), NEW all, all = s \o << a, b >>
  PROVE  MorePair(all, s, n, a, b)
<1>1. << a, b >> \in Seq(Byte) /\ Len(<< a, b >>) = 2
  OBVIOUS
<1>2. all \in Seq(Byte) /\ Len(all) = n + 2 /\ Begins(all, s)
  BY <1>1, BeginsWith
<1>3. all[n + 1] = a /\ all[n + 2] = b
  OBVIOUS
<1> QED
  BY <1>2, <1>3 DEF MorePair

LEMMA BeginsThrough ==
  ASSUME NEW all \in Seq(Byte), NEW t \in Seq(Byte), NEW s \in Seq(Byte),
         Begins(all, t), Begins(t, s)
  PROVE  Begins(all, s)
  BY DEF Begins

LEMMA BeginsSelf == ASSUME NEW s \in Seq(Byte) PROVE Begins(s, s)
  BY DEF Begins

LEMMA TakeIsBegin ==
  ASSUME NEW all \in Seq(Byte), NEW n \in 0 .. Len(all), NEW p, p = SubSeq(all, 1, n)
  PROVE  /\ p \in Seq(Byte) /\ Len(p) = n /\ Begins(all, p)
         /\ n = Len(all) => p = all
<1>1. /\ p \in Seq(Byte) /\ Len(p) = n
      /\ \A i \in 1 .. n : p[i] = all[i]
  OBVIOUS
<1>2. Len(all) \in Nat
  OBVIOUS
<1> QED
  BY <1>1, <1>2 DEF Begins

\* A part of the whole that is within a prefix of it.
LEMMA FieldAt ==
  ASSUME NEW s \in Seq(Byte), NEW t \in Seq(Byte), NEW all \in Seq(Byte), NEW p \in Seq(Byte),
         Begins(all, s \o t), Begins(all, p), NEW at \in Nat, Len(s) = at,
         at + Len(t) <= Len(p)
  PROVE  Holds(p, at, t)
<1>1. PICK both : both = s \o t
  OBVIOUS
<1>2. both \in Seq(Byte) /\ Len(both) = at + Len(t) /\ Len(t) \in Nat /\ Len(p) \in Nat
  <2>1. both \in Seq(Byte) /\ Len(both) = Len(s) + Len(t)
    BY ONLY <1>1, s \in Seq(Byte), t \in Seq(Byte), BeginsWith
  <2> QED
    BY <2>1
<1>3. \A i \in 1 .. Len(t) : both[at + i] = t[i]
  BY <1>1, JoinAt
<1>4. \A i \in 1 .. Len(both) : all[i] = both[i]
  BY <1>1 DEF Begins
<1>5. \A i \in 1 .. Len(p) : all[i] = p[i]
  BY DEF Begins
<1>6. ASSUME NEW i \in 1 .. Len(t) PROVE p[at + i] = t[i]
  <2>1. at + i \in 1 .. Len(both) /\ at + i \in 1 .. Len(p)
    BY <1>2
  <2> QED
    BY <1>3, <1>4, <1>5, <2>1
<1> QED
  BY <1>6 DEF Holds

LEMMA HeldSlice ==
  ASSUME NEW p \in Seq(Byte), NEW at \in Nat, NEW part \in Seq(Byte), Holds(p, at, part),
         NEW end \in Nat, end = at + Len(part), end <= Len(p)
  PROVE  Between(p, at, end) = part /\ SubSeq(p, at + 1, end) = part
<1>1. SubSeq(p, at + 1, end) = part
  <2>1. PICK slice : slice = SubSeq(p, at + 1, end)
    OBVIOUS
  <2>2. at <= end /\ end - at = Len(part)
    OBVIOUS
  <2>3. /\ slice \in Seq(Byte) /\ Len(slice) = end - at
        /\ \A i \in 1 .. end - at : slice[i] = p[i + at]
    BY <2>1, <2>2, SliceAt
  <2>4. \A i \in 1 .. Len(part) : slice[i] = part[i]
    BY <2>2, <2>3 DEF Holds
  <2> QED
    BY <2>1, <2>2, <2>3, <2>4, SameItems
<1>2. (IF end < Len(p) THEN end ELSE Len(p)) = end
  OBVIOUS
<1> QED
  BY <1>1, <1>2 DEF Between

\* An integer is read back from the bytes it is written in.
LEMMA NumberBack ==
  ASSUME NEW width \in Nat, NEW num \in Number(width)
  PROVE  FromBytes(ToBytes(num, width)) = num
<1>1. PICK bytes, n : bytes = ToBytes(num, width) /\ n = Len(num)
  OBVIOUS
<1>2. /\ num \in Seq(Byte) /\ n \in Nat /\ n <= width
      /\ num # << >> => num[n] # 0
  BY <1>1 DEF Number
<1>3. /\ bytes \in Seq(Byte) /\ Len(bytes) = width
      /\ \A i \in 1 .. width : i <= n => bytes[i] = num[i]
      /\ \A i \in 1 .. width : ~(i <= n) => bytes[i] = 0
  <2>1. bytes \in Seq(Byte) /\ Len(bytes) = width
    BY <1>1, <1>2, PaddedType
  <2>2. bytes = [ i \in 1 .. width |-> IF i <= n THEN num[i] ELSE 0 ]
    BY <1>1 DEF ToBytes
  <2> QED
    BY <2>1, <2>2
<1>4. n \in { 0 } \cup { i \in DOMAIN bytes : bytes[i] # 0 }
  <2>1. CASE n = 0
    BY <2>1
  <2>2. CASE n # 0
    <3>1. num # << >> /\ n \in 1 .. width /\ n \in DOMAIN bytes
      BY <1>1, <1>2, <1>3, <2>2
    <3> QED
      BY <1>2, <1>3, <3>1
  <2> QED
    BY <2>1, <2>2
<1>5. \A i \in { 0 } \cup { i \in DOMAIN bytes : bytes[i] # 0 } : n >= i
  BY <1>2, <1>3
<1>6. Max({ 0 } \cup { i \in DOMAIN bytes : bytes[i] # 0 }) = n
  <2>1. \A i \in { 0 } \cup { i \in DOMAIN bytes : bytes[i] # 0 } : i \in Nat
    BY <1>3
  <2> QED
    BY <1>2, <1>4, <1>5, <2>1 DEF Max
<1>7. SubSeq(bytes, 1, n) = num
  <2>1. PICK slice : slice = SubSeq(bytes, 1, n)
    OBVIOUS
  <2>2. slice \in Seq(Byte) /\ Len(slice) = n /\ \A i \in 1 .. n : slice[i] = bytes[i]
    BY <1>2, <1>3, <2>1
  <2>3. \A i \in 1 .. n : slice[i] = num[i]
    BY <1>2, <1>3, <2>2
  <2> QED
    BY <1>1, <1>2, <2>1, <2>2, <2>3, SameItems
<1> QED
  BY <1>1, <1>6, <1>7 DEF FromBytes

LEMMA NumberType ==
  ASSUME NEW width \in Nat, NEW num \in Number(width)
  PROVE  ToBytes(num, width) \in Seq(Byte) /\ Len(ToBytes(num, width)) = width
  BY PaddedType DEF Number

LEMMA HeldNumber ==
  ASSUME NEW p \in Seq(Byte), NEW width \in Nat, NEW num \in Number(width), NEW at \in Nat,
         Holds(p, at, ToBytes(num, width)),
         NEW end \in Nat, end = at + width, end <= Len(p)
  PROVE  FromBytes(Between(p, at, end)) = num
<1>1. PICK part : part = ToBytes(num, width)
  OBVIOUS
<1>2. part \in Seq(Byte) /\ end = at + Len(part) /\ Holds(p, at, part)
  BY <1>1, NumberType
<1>3. Between(p, at, end) = part
  BY ONLY <1>2, p \in Seq(Byte), at \in Nat, end \in Nat, end <= Len(p), HeldSlice
<1> QED
  BY <1>1, <1>3, NumberBack

-----------------------------------------------------------------------------
(* The responses.                                                           *)

\* What the parser returns is what was meant; the fields that take what is left
\* need not be when something is missing.
Faithful(parsed, meant, p, bytes, loose) ==
  \A field \in DOMAIN meant :
    parsed[field] = meant[field] \/ (p # bytes /\ field \in loose)

\* A response, whole or cut short.
Reply(status, rest, bytes, p) ==
  /\ status \in Byte /\ rest \in Seq(Byte)
  /\ bytes = << status >> \o rest
  /\ \E n \in 0 .. Len(bytes) : p = SubSeq(bytes, 1, n)

ReplyRead(status, rest, bytes, p) ==
  /\ bytes \in Seq(Byte) /\ p \in Seq(Byte) /\ Begins(bytes, p) /\ Len(p) \in Nat
  /\ rest \in Seq(Byte) /\ bytes = << status >> \o rest
  /\ Len(p) >= 1 => p[1] = status
  /\ p = bytes => From(p, 1) = rest

LEMMA ReplyIs ==
  ASSUME NEW status, NEW rest, NEW bytes, NEW p, Reply(status, rest, bytes, p)
  PROVE  ReplyRead(status, rest, bytes, p)
<1>1. /\ status \in Byte /\ rest \in Seq(Byte) /\ bytes = << status >> \o rest
      /\ << status >> \in Seq(Byte) /\ Len(<< status >>) = 1 /\ << status >>[1] = status
  BY DEF Reply
<1>2. bytes \in Seq(Byte) /\ Begins(bytes, << status >>)
  BY <1>1, BeginsWith
<1>3. p \in Seq(Byte) /\ Begins(bytes, p)
  <2>1. PICK n \in 0 .. Len(bytes) : p = SubSeq(bytes, 1, n)
    BY DEF Reply
  <2> QED
    BY ONLY <1>2, <2>1, TakeIsBegin
<1>4. Len(p) >= 1 => p[1] = status
  BY <1>1, <1>2, <1>3 DEF Begins
<1>5. p = bytes => From(p, 1) = rest
  <2>1. TwoParts(<< status >> \o rest, << status >>, rest)
    BY <1>1, JoinsParts
  <2>2. SubSeq(bytes, 1 + 1, Len(bytes)) = rest
    BY <1>1, <2>1 DEF TwoParts
  <2> QED
    BY <2>2 DEF From
<1> QED
  BY <1>1, <1>2, <1>3, <1>4, <1>5 DEF ReplyRead

\* The bytes after the status.
LEMMA AfterStatus ==
  ASSUME NEW status, NEW rest, NEW bytes, NEW p, Reply(status, rest, bytes, p)
  PROVE  /\ \A i \in 1 .. Len(rest) : i + 1 <= Len(p) => p[i + 1] = rest[i]
         /\ Len(bytes) = 1 + Len(rest)
<1>1. PICK first : first = << status >>
  OBVIOUS
<1>2. /\ first \in Seq(Byte) /\ Len(first) = 1 /\ rest \in Seq(Byte) /\ Len(rest) \in Nat
      /\ bytes = first \o rest
  BY <1>1 DEF Reply
<1>3. Begins(bytes, p) /\ p \in Seq(Byte) /\ Len(p) \in Nat
  BY ReplyIs DEF ReplyRead
<1>4. Len(bytes) = 1 + Len(rest) /\ \A i \in 1 .. Len(rest) : bytes[1 + i] = rest[i]
  <2>1. Holds(first \o rest, Len(first), rest)
    BY <1>2, HoldsEnd
  <2>2. Len(bytes) = Len(first) + Len(rest)
    BY <1>2, BeginsWith
  <2>3. Holds(bytes, 1, rest)
    BY <1>2, <2>1
  <2> QED
    BY <1>2, <2>2, <2>3 DEF Holds
<1>5. ASSUME NEW i \in 1 .. Len(rest), i + 1 <= Len(p) PROVE p[i + 1] = rest[i]
  <2>1. i + 1 \in 1 .. Len(p) /\ i + 1 = 1 + i
    BY <1>2, <1>3, <1>5
  <2> QED
    BY ONLY <1>3, <1>4, <2>1, i \in 1 .. Len(rest) DEF Begins
<1> QED
  BY <1>4, <1>5

LEMMA RestAfterStatus ==
  ASSUME NEW status, NEW rest, NEW bytes, Reply(status, rest, bytes, bytes),
         NEW k \in 0 .. Len(rest)
  PROVE  From(bytes, 1 + k) = SubSeq(rest, k + 1, Len(rest))
<1>1. From(bytes, 1) = rest /\ bytes \in Seq(Byte)
  BY ReplyIs DEF ReplyRead
<1>2. Len(bytes) = 1 + Len(rest) /\ Len(rest) \in Nat
  BY AfterStatus DEF Reply
<1>3. rest = SubSeq(bytes, 1 + 1, Len(bytes))
  BY <1>1 DEF From
<1>4. 1 \in 0 .. Len(bytes)
  BY <1>2
<1>5. SubSeq(rest, k + 1, Len(rest)) = SubSeq(bytes, (1 + k) + 1, Len(bytes))
  BY ONLY <1>1, <1>3, <1>4, k \in 0 .. Len(rest), RestOfRest
<1> QED
  BY <1>5 DEF From

\* A number of four bytes after the status.
LEMMA NumberAfterStatus ==
  ASSUME NEW status, NEW num \in Number(4), NEW bytes, NEW p,
         Reply(status, ToBytes(num, 4), bytes, p)
  PROVE  /\ 5 <= Len(p) => FromBytes(Between(p, 1, 5)) = num
         /\ Len(bytes) = 5
<1>1. PICK first, part : first = << status >> /\ part = ToBytes(num, 4)
  OBVIOUS
<1>2. /\ first \in Seq(Byte) /\ Len(first) = 1 /\ part \in Seq(Byte) /\ Len(part) = 4
      /\ 1 \in Nat /\ 4 \in Nat /\ 5 \in Nat /\ 5 = 1 + 4
  <2>1. status \in Byte
    BY DEF Reply
  <2>2. 1 \in Nat /\ 4 \in Nat /\ 5 \in Nat /\ 5 = 1 + 4
    OBVIOUS
  <2>3. part \in Seq(Byte) /\ Len(part) = 4
    BY ONLY <1>1, <2>2, num \in Number(4), NumberType
  <2>4. first \in Seq(Byte) /\ Len(first) = 1
    BY <1>1, <2>1
  <2> QED
    BY ONLY <2>2, <2>3, <2>4
<1>3. /\ bytes = first \o part /\ bytes \in Seq(Byte) /\ p \in Seq(Byte) /\ Begins(bytes, p)
  BY <1>1, ReplyIs DEF ReplyRead
<1>4. Begins(bytes, first \o part) /\ Len(bytes) = 5
  <2>1. Len(bytes) = Len(first) + Len(part)
    BY <1>2, <1>3, BeginsWith
  <2>2. Begins(bytes, bytes)
    BY <1>3, BeginsSelf
  <2> QED
    BY <1>2, <1>3, <2>1, <2>2
<1>5. ASSUME 5 <= Len(p) PROVE FromBytes(Between(p, 1, 5)) = num
  <2>1. 1 + Len(part) <= Len(p)
    BY <1>2, <1>5
  <2>2. Holds(p, 1, part)
    BY ONLY <1>2, <1>3, <1>4, <2>1, FieldAt
  <2>3. Holds(p, 1, ToBytes(num, 4))
    BY <1>1, <2>2
  <2> QED
    BY ONLY <1>2, <1>3, <1>5, <2>3, num \in Number(4), HeldNumber
<1> QED
  BY <1>4, <1>5

LEMMA StatusRead ==
  ASSUME NEW meant \in [ kind : Kind, status : Byte ], NEW rest, NEW bytes, NEW p,
         Reply(meant.status, rest, bytes, p), Len(p) >= 1,
         NEW parsed, parsed = [ kind |-> "result", status |-> p[1] ]
  PROVE  Faithful(parsed, meant, p, bytes, { })
<1>1. p[1] = meant.status
  BY ReplyIs DEF ReplyRead
<1> QED
  BY <1>1 DEF Faithful, Kind

LEMMA CapsRead ==
  ASSUME NEW meant \in [ kind : Kind, status : Byte, caps : Seq(Byte) ], NEW bytes, NEW p,
         Reply(meant.status, meant.caps, bytes, p), Len(p) >= 1,
         NEW parsed, parsed = [ kind |-> "result", status |-> p[1], caps |-> From(p, 1) ]
  PROVE  Faithful(parsed, meant, p, bytes, { "caps" })
<1>1. p[1] = meant.status
  BY ReplyIs DEF ReplyRead
<1>2. p = bytes => From(p, 1) = meant.caps
  <2>1. PICK status, caps : status = meant.status /\ caps = meant.caps
    OBVIOUS
  <2>2. ReplyRead(status, caps, bytes, p)
    BY <2>1, ReplyIs
  <2> QED
    BY <2>1, <2>2 DEF ReplyRead
<1> QED
  BY <1>1, <1>2 DEF Faithful, Kind

LEMMA HandleRead ==
  ASSUME NEW meant \in [ kind : Kind, status : Byte, session_handle : Number(4) ],
         NEW bytes, NEW p,
         Reply(meant.status, ToBytes(meant.session_handle, 4), bytes, p), Len(p) >= 5
  PROVE  Faithful(SessionInitResult(p), meant, p, bytes, { })
<1>1. PICK num, status : num = meant.session_handle /\ status = meant.status
  OBVIOUS
<1>2. num \in Number(4) /\ Reply(status, ToBytes(num, 4), bytes, p)
  BY <1>1
<1>3. p[1] = status /\ 5 <= Len(p)
  <2>1. ReplyRead(status, ToBytes(num, 4), bytes, p)
    BY ONLY <1>2, ReplyIs
  <2>2. Len(p) >= 1 /\ 5 <= Len(p)
    BY <2>1 DEF ReplyRead
  <2> QED
    BY <2>1, <2>2 DEF ReplyRead
<1>4. FromBytes(Between(p, 1, 5)) = num
  BY ONLY <1>2, <1>3, NumberAfterStatus
<1> QED
  BY <1>1, <1>3, <1>4 DEF Faithful, SessionInitResult, Kind

LEMMA ValueRead ==
  ASSUME NEW meant \in [ kind : Kind, status : Byte, value : Byte ], NEW bytes, NEW p,
         Reply(meant.status, << meant.value >>, bytes, p), Len(p) >= 2,
         NEW parsed, parsed = [ kind |-> "result", status |-> p[1], value |-> p[2] ]
  PROVE  Faithful(parsed, meant, p, bytes, { })
<1>1. PICK status, value : status = meant.status /\ value = meant.value
  OBVIOUS
<1>2. ReplyRead(status, << value >>, bytes, p)
  BY <1>1, ReplyIs
<1>3. /\ bytes = << status >> \o << value >>
      /\ Begins(bytes, p) /\ p[1] = status /\ p \in Seq(Byte)
  BY <1>2 DEF ReplyRead
<1>4. p[2] = value
  <2>1. 2 \in 1 .. Len(p)
    BY <1>3
  <2>2. p[2] = bytes[2]
    BY <1>3, <2>1 DEF Begins
  <2>3. bytes[2] = value
    BY ONLY <1>3
  <2> QED
    BY <2>2, <2>3
<1> QED
  BY <1>1, <1>3, <1>4 DEF Faithful, Kind

\* A number that takes what is left.
LEMMA CountRead ==
  ASSUME NEW meant \in [ kind : Kind, status : { OK }, count : Number(4) ], NEW bytes, NEW p,
         Reply(meant.status, ToBytes(meant.count, 4), bytes, p), Len(p) >= 1
  PROVE  Faithful(RangingCount(p), meant, p, bytes, { "count" })
<1>1. PICK num, status : num = meant.count /\ status = meant.status
  OBVIOUS
<1>2. num \in Number(4) /\ status = OK /\ Reply(status, ToBytes(num, 4), bytes, p)
  BY <1>1
<1>3. p[1] = status /\ Len(p) \in Nat
  <2>1. ReplyRead(status, ToBytes(num, 4), bytes, p)
    BY ONLY <1>2, ReplyIs
  <2> QED
    BY <2>1 DEF ReplyRead
<1>4. Len(bytes) = 5 /\ (5 <= Len(p) => FromBytes(Between(p, 1, 5)) = num)
  BY ONLY <1>2, NumberAfterStatus
<1>5. /\ RangingCount(p).kind = "result" /\ RangingCount(p).status = meant.status
      /\ p = bytes => RangingCount(p).count = meant.count
  <2>1. RangingCount(p) = [ kind |-> "result", status |-> OK, count |-> FromBytes(Between(p, 1, 5)) ]
    BY <1>2, <1>3 DEF RangingCount
  <2>2. ASSUME p = bytes PROVE 5 <= Len(p)
    <3>1. Len(p) = 5
      BY <1>4, <2>2
    <3> QED
      BY ONLY <3>1
  <2> QED
    BY <1>1, <1>2, <1>4, <2>1, <2>2
<1> QED
  BY <1>5 DEF Faithful, Kind

LEMMA NoCountRead ==
  ASSUME NEW meant \in [ kind : Kind, status : Byte \ { OK }, count : { << "none" >> } ],
         NEW rest, NEW bytes, NEW p, Reply(meant.status, rest, bytes, p), Len(p) >= 1
  PROVE  Faithful(RangingCount(p), meant, p, bytes, { "count" })
<1>1. p[1] = meant.status
  BY ReplyIs DEF ReplyRead
<1> QED
  BY <1>1 DEF Faithful, Kind, RangingCount

LEMMA VersionBack ==
  ASSUME NEW v \in Version, NEW a, a = v[1], NEW b, b = v[2] * 16 + v[3]
  PROVE  /\ a \in Byte /\ b \in Byte /\ VersionBytes(v) = << a, b >>
         /\ << a, b \div 16, b % 16 >> = v
<1>1. v[1] \in Byte /\ v[2] \in 0 .. 15 /\ v[3] \in 0 .. 15 /\ v = << v[1], v[2], v[3] >>
  BY DEF Version
<1>2. ASSUME NEW x \in 0 .. 15, NEW y \in 0 .. 15, NEW z, z = x * 16 + y
      PROVE  z \in 0 .. 255 /\ z \div 16 = x /\ z % 16 = y
  BY <1>2
<1>3. b \in Byte /\ b \div 16 = v[2] /\ b % 16 = v[3]
  BY <1>1, <1>2 DEF Byte
<1> QED
  BY <1>1, <1>3 DEF VersionBytes

LEMMA FourPairs ==
  ASSUME NEW a1 \in Byte, NEW b1 \in Byte, NEW a2 \in Byte, NEW b2 \in Byte,
         NEW a3 \in Byte, NEW b3 \in Byte, NEW a4 \in Byte, NEW b4 \in Byte,
         NEW tail \in Seq(Byte), NEW rest,
         rest = (((<< a1, b1 >> \o << a2, b2 >>) \o << a3, b3 >>) \o << a4, b4 >>) \o tail
  PROVE  /\ rest \in Seq(Byte) /\ Len(rest) = 8 + Len(tail)
         /\ rest[1] = a1 /\ rest[2] = b1 /\ rest[3] = a2 /\ rest[4] = b2
         /\ rest[5] = a3 /\ rest[6] = b3 /\ rest[7] = a4 /\ rest[8] = b4
         /\ SubSeq(rest, 9, Len(rest)) = tail
<1>1. PICK one, two, three, four :
        /\ one = << a1, b1 >> /\ two = one \o << a2, b2 >>
        /\ three = two \o << a3, b3 >> /\ four = three \o << a4, b4 >>
  OBVIOUS
<1>2. one \in Seq(Byte) /\ 2 = Len(one) /\ one[1] = a1 /\ one[2] = b1
  BY <1>1
<1>3. two \in Seq(Byte) /\ 4 = Len(two) /\ two[3] = a2 /\ two[4] = b2 /\ Begins(two, one)
  <2>1. MorePair(two, one, 2, a2, b2)
    <3>1. 2 \in Nat
      OBVIOUS
    <3> QED
      BY <1>1, <1>2, <3>1, BeginsPair
  <2> QED
    BY <2>1 DEF MorePair
<1>4. /\ three \in Seq(Byte) /\ 6 = Len(three) /\ three[5] = a3 /\ three[6] = b3
      /\ Begins(three, two)
  <2>1. MorePair(three, two, 4, a3, b3)
    <3>1. 4 \in Nat
      OBVIOUS
    <3> QED
      BY <1>1, <1>3, <3>1, BeginsPair
  <2> QED
    BY <2>1 DEF MorePair
<1>5. /\ four \in Seq(Byte) /\ 8 = Len(four) /\ four[7] = a4 /\ four[8] = b4
      /\ Begins(four, three)
  <2>1. MorePair(four, three, 6, a4, b4)
    <3>1. 6 \in Nat
      OBVIOUS
    <3> QED
      BY <1>1, <1>4, <3>1, BeginsPair
  <2> QED
    BY <2>1 DEF MorePair
<1>6. rest = four \o tail
  BY <1>1
<1>7. TwoParts(rest, four, tail) /\ Begins(rest, four)
  BY <1>5, <1>6, JoinsParts, BeginsWith
<1>8. /\ rest \in Seq(Byte) /\ Len(rest) = 8 + Len(tail)
      /\ SubSeq(rest, 8 + 1, Len(rest)) = tail
  BY <1>5, <1>7 DEF TwoParts
<1>9. Begins(rest, three) /\ Begins(rest, two) /\ Begins(rest, one)
  <2>1. Begins(rest, three)
    BY <1>4, <1>5, <1>7, <1>8, BeginsThrough
  <2>2. Begins(rest, two)
    BY <1>3, <1>4, <1>8, <2>1, BeginsThrough
  <2>3. Begins(rest, one)
    BY <1>2, <1>3, <1>8, <2>2, BeginsThrough
  <2> QED
    BY <2>1, <2>2, <2>3
<1>10. rest[1] = a1 /\ rest[2] = b1
  BY <1>2, <1>9 DEF Begins
<1>11. rest[3] = a2 /\ rest[4] = b2
  BY <1>3, <1>9 DEF Begins
<1>12. rest[5] = a3 /\ rest[6] = b3
  BY <1>4, <1>9 DEF Begins
<1>13. rest[7] = a4 /\ rest[8] = b4
  BY <1>5, <1>7 DEF Begins
<1> QED
  BY <1>8, <1>10, <1>11, <1>12, <1>13

LEMMA InfoRead ==
  ASSUME NEW meant \in [ kind : Kind, status : Byte, uci_version : Version,
                         mac_version : Version, phy_version : Version,
                         uci_test_version : Version, vendor_data : Seq(Byte) ],
         NEW rest, NEW bytes, NEW p, Reply(meant.status, rest, bytes, p), Len(p) >= 9,
         rest = VersionBytes(meant.uci_version) \o VersionBytes(meant.mac_version)
                  \o VersionBytes(meant.phy_version) \o VersionBytes(meant.uci_test_version)
                  \o meant.vendor_data
  PROVE  Faithful(DeviceInfo(p), meant, p, bytes, { "vendor_data" })
<1>1. PICK status, v1, v2, v3, v4, tail :
        /\ status = meant.status /\ tail = meant.vendor_data
        /\ v1 = meant.uci_version /\ v2 = meant.mac_version
        /\ v3 = meant.phy_version /\ v4 = meant.uci_test_version
  OBVIOUS
<1>2. v1 \in Version /\ v2 \in Version /\ v3 \in Version /\ v4 \in Version /\ tail \in Seq(Byte)
  BY <1>1
<1>3. PICK a1, b1, a2, b2, a3, b3, a4, b4 :
        /\ a1 = v1[1] /\ b1 = v1[2] * 16 + v1[3] /\ a2 = v2[1] /\ b2 = v2[2] * 16 + v2[3]
        /\ a3 = v3[1] /\ b3 = v3[2] * 16 + v3[3] /\ a4 = v4[1] /\ b4 = v4[2] * 16 + v4[3]
  OBVIOUS
<1>4. /\ a1 \in Byte /\ b1 \in Byte /\ a2 \in Byte /\ b2 \in Byte
      /\ a3 \in Byte /\ b3 \in Byte /\ a4 \in Byte /\ b4 \in Byte
      /\ VersionBytes(v1) = << a1, b1 >> /\ VersionBytes(v2) = << a2, b2 >>
      /\ VersionBytes(v3) = << a3, b3 >> /\ VersionBytes(v4) = << a4, b4 >>
      /\ << a1, b1 \div 16, b1 % 16 >> = v1 /\ << a2, b2 \div 16, b2 % 16 >> = v2
      /\ << a3, b3 \div 16, b3 % 16 >> = v3 /\ << a4, b4 \div 16, b4 % 16 >> = v4
  BY <1>2, <1>3, VersionBack
<1>5. rest = (((<< a1, b1 >> \o << a2, b2 >>) \o << a3, b3 >>) \o << a4, b4 >>) \o tail
  BY <1>1, <1>4
<1>6. /\ rest \in Seq(Byte) /\ Len(rest) = 8 + Len(tail)
      /\ rest[1] = a1 /\ rest[2] = b1 /\ rest[3] = a2 /\ rest[4] = b2
      /\ rest[5] = a3 /\ rest[6] = b3 /\ rest[7] = a4 /\ rest[8] = b4
      /\ SubSeq(rest, 9, Len(rest)) = tail
  BY ONLY <1>2, <1>4, <1>5, FourPairs
<1>7. ReplyRead(status, rest, bytes, p)
  BY <1>1, ReplyIs
<1>8. /\ bytes = << status >> \o rest /\ bytes \in Seq(Byte) /\ p \in Seq(Byte)
      /\ Begins(bytes, p) /\ p[1] = status /\ status \in Byte
  BY <1>1, <1>7 DEF ReplyRead
<1>9. \A i \in 1 .. 8 : p[i + 1] = rest[i]
  <2>1. Reply(status, rest, bytes, p)
    BY <1>1
  <2>2. \A i \in 1 .. Len(rest) : i + 1 <= Len(p) => p[i + 1] = rest[i]
    BY ONLY <2>1, AfterStatus
  <2>3. Len(rest) \in Nat /\ 8 <= Len(rest) /\ Len(p) \in Nat /\ 9 <= Len(p)
    <3>1. Len(tail) \in Nat /\ Len(p) \in Nat
      BY <1>2, <1>8
    <3> QED
      BY <1>6, <3>1
  <2> QED
    BY ONLY <2>2, <2>3
<1>10. ASSUME p = bytes PROVE From(p, 9) = tail
  <2>1. Reply(status, rest, bytes, bytes)
    BY <1>1, <1>10
  <2>2. 8 \in 0 .. Len(rest)
    <3>1. Len(tail) \in Nat
      BY <1>2
    <3> QED
      BY <1>6, <3>1
  <2>3. From(bytes, 1 + 8) = SubSeq(rest, 8 + 1, Len(rest))
    BY ONLY <2>1, <2>2, RestAfterStatus
  <2>4. 1 + 8 = 9 /\ 8 + 1 = 9
    OBVIOUS
  <2> QED
    BY ONLY <1>6, <1>10, <2>3, <2>4
<1>11. /\ VersionAt(p, 1) = v1 /\ VersionAt(p, 3) = v2
       /\ VersionAt(p, 5) = v3 /\ VersionAt(p, 7) = v4
  <2>1. /\ p[1 + 1] = a1 /\ p[1 + 2] = b1 /\ p[3 + 1] = a2 /\ p[3 + 2] = b2
        /\ p[5 + 1] = a3 /\ p[5 + 2] = b3 /\ p[7 + 1] = a4 /\ p[7 + 2] = b4
    <3>1. /\ p[1 + 1] = rest[1] /\ p[2 + 1] = rest[2] /\ p[3 + 1] = rest[3]
          /\ p[4 + 1] = rest[4] /\ p[5 + 1] = rest[5] /\ p[6 + 1] = rest[6]
          /\ p[7 + 1] = rest[7] /\ p[8 + 1] = rest[8]
      BY ONLY <1>9
    <3> QED
      BY ONLY <1>6, <3>1
  <2> QED
    BY ONLY <1>4, <2>1 DEF VersionAt
<1>12. DeviceInfo(p) = [ kind |-> "result", status |-> status, uci_version |-> v1,
                        mac_version |-> v2, phy_version |-> v3, uci_test_version |-> v4,
                        vendor_data |-> From(p, 9) ]
  BY ONLY <1>8, <1>11 DEF DeviceInfo
<1> QED
  BY <1>1, <1>10, <1>12 DEF Faithful, Kind

LEMMA ByteIsNat == ASSUME NEW b \in Byte PROVE b \in Nat /\ b <= 255
  BY DEF Byte

\* Parameters and their statuses, side by side.
Pairs(list) == [ i \in DOMAIN list |-> << list[i].param, list[i].status >> ]

PairsLaid(list, flat) ==
  /\ flat \in Seq(Byte) /\ Len(flat) = Len(list) * 2
  /\ \A i \in 1 .. Len(list) :
       flat[(i - 1) * 2 + 1] = list[i].param /\ flat[(i - 1) * 2 + 2] = list[i].status

LEMMA PairsFlat ==
  ASSUME NEW list \in Seq(Rejection), NEW flat, flat = FlattenSeq(Pairs(list))
  PROVE  PairsLaid(list, flat)
<1>1. PICK pairs, n : pairs = Pairs(list) /\ n = Len(list)
  OBVIOUS
<1>1a. n \in Nat /\ DOMAIN list = 1 .. n
  BY <1>1
<1>2. \A i \in 1 .. n : list[i].param \in Byte /\ list[i].status \in Byte
  <2>1. \A i \in 1 .. n : list[i] \in Rejection
    BY <1>1, <1>1a
  <2> QED
    BY <2>1 DEF Rejection
<1>3. /\ pairs \in Seq(Seq(Byte)) /\ Len(pairs) = n
      /\ \A i \in 1 .. n : /\ pairs[i][1] = list[i].param /\ pairs[i][2] = list[i].status
                           /\ Len(pairs[i]) = 2
  <2>1. pairs = [ i \in 1 .. n |-> << list[i].param, list[i].status >> ]
    BY <1>1, <1>1a DEF Pairs
  <2>2. \A i \in 1 .. n : << list[i].param, list[i].status >> \in Seq(Byte)
    BY <1>2
  <2>3. pairs \in Seq(Seq(Byte)) /\ Len(pairs) = n
    BY ONLY <1>1a, <2>1, <2>2
  <2> QED
    BY <2>1, <2>3
<1>4. flat \in Seq(Byte) /\ Uniform(pairs, 2, flat)
  <2>1. 2 \in Nat /\ \A i \in 1 .. Len(pairs) : Len(pairs[i]) = 2
    BY <1>3
  <2> QED
    BY ONLY <1>1, <1>3, <2>1, flat = FlattenSeq(Pairs(list)), FlattenUniform
<1>5. Len(flat) = n * 2
  BY <1>3, <1>4 DEF Uniform
<1>6. ASSUME NEW i \in 1 .. n
      PROVE  flat[(i - 1) * 2 + 1] = list[i].param /\ flat[(i - 1) * 2 + 2] = list[i].status
  <2>1. PICK a, b, slice :
          a = (i - 1) * 2 /\ b = i * 2 /\ slice = SubSeq(flat, a + 1, b)
    OBVIOUS
  <2>2. a \in Nat /\ b \in Nat /\ a <= b /\ b <= Len(flat) /\ b - a = 2
    BY <1>1a, <1>5, <2>1
  <2>3. \A j \in 1 .. b - a : slice[j] = flat[j + a]
    BY ONLY <1>4, <2>1, <2>2, SliceAt
  <2>4. slice = pairs[i]
    BY <1>3, <1>4, <2>1 DEF Uniform
  <2>5. slice[1] = flat[a + 1] /\ slice[2] = flat[a + 2]
    BY <2>2, <2>3
  <2> QED
    BY <1>3, <2>1, <2>4, <2>5
<1> QED
  BY <1>1, <1>1a, <1>4, <1>5, <1>6 DEF PairsLaid

LEMMA ConfigAccepted ==
  ASSUME NEW meant \in [ kind : Kind, status : { OK }, rejected : { << >> } ],
         NEW rest, NEW bytes, NEW p, Reply(meant.status, rest, bytes, p),
         ParseAppConfigResponse(p) # Raised
  PROVE  Faithful(ParseAppConfigResponse(p), meant, p, bytes, { })
<1>1. PICK status : status = meant.status
  OBVIOUS
<1>2. p \in Seq(Byte) /\ Len(p) \in Nat /\ (Len(p) >= 1 => p[1] = OK)
  <2>1. ReplyRead(status, rest, bytes, p)
    BY <1>1, ReplyIs
  <2> QED
    BY <1>1, <2>1 DEF ReplyRead
<1>3. p # << >> /\ Len(p) >= 1
  BY <1>2 DEF ParseAppConfigResponse
<1>4. ParseAppConfigResponse(p) = AppConfigResult(OK, << >>)
  BY <1>2, <1>3 DEF ParseAppConfigResponse
<1> QED
  BY <1>4 DEF Faithful, AppConfigResult, Kind

LEMMA ConfigRefused ==
  ASSUME NEW meant \in [ kind : Kind, status : Byte \ { OK },
                         rejected : { r \in Seq(Rejection) : Len(r) <= 255 } ],
         NEW bytes, NEW p,
         Reply(meant.status, << Len(meant.rejected) >> \o FlattenSeq(Pairs(meant.rejected)),
               bytes, p),
         ParseAppConfigResponse(p) # Raised
  PROVE  Faithful(ParseAppConfigResponse(p), meant, p, bytes, { })
<1>1. PICK status, list, m, flat, head, rest :
        /\ status = meant.status /\ list = meant.rejected /\ m = Len(list)
        /\ flat = FlattenSeq(Pairs(list)) /\ head = << m >> /\ rest = head \o flat
  OBVIOUS
<1>2. /\ list \in Seq(Rejection) /\ m \in Nat /\ m <= 255 /\ DOMAIN list = 1 .. m
      /\ status # OK /\ Reply(status, rest, bytes, p)
  BY <1>1
<1>3. /\ flat \in Seq(Byte) /\ Len(flat) = m * 2
      /\ \A i \in 1 .. m :
           flat[(i - 1) * 2 + 1] = list[i].param /\ flat[(i - 1) * 2 + 2] = list[i].status
  <2>1. PairsLaid(list, flat)
    BY ONLY <1>1, <1>2, PairsFlat
  <2> QED
    BY <1>1, <2>1 DEF PairsLaid
<1>4. head \in Seq(Byte) /\ Len(head) = 1 /\ head[1] = m
  <2>1. m \in Byte
    BY <1>2, ByteUpTo255
  <2> QED
    BY <1>1, <2>1
<1>5. /\ rest \in Seq(Byte) /\ Len(rest) = 1 + m * 2 /\ rest[1] = m
      /\ \A i \in 1 .. m * 2 : rest[1 + i] = flat[i]
  BY <1>1, <1>3, <1>4, JoinAt
<1>6. /\ p \in Seq(Byte) /\ Len(p) \in Nat /\ (Len(p) >= 1 => p[1] = status)
      /\ \A i \in 1 .. Len(rest) : i + 1 <= Len(p) => p[i + 1] = rest[i]
  <2>1. ReplyRead(status, rest, bytes, p)
    BY ONLY <1>2, ReplyIs
  <2>2. \A i \in 1 .. Len(rest) : i + 1 <= Len(p) => p[i + 1] = rest[i]
    BY ONLY <1>2, AfterStatus
  <2> QED
    BY <2>1, <2>2 DEF ReplyRead
<1>7. p # << >> /\ Len(p) >= 1 /\ p[1] = status
  BY <1>6 DEF ParseAppConfigResponse
<1>8. Len(p) >= 2 /\ Len(p) >= 2 + p[2] * 2
  <2>1. ~(Len(p) < 2 \/ Len(p) < 2 + p[2] * 2)
    BY <1>2, <1>7 DEF ParseAppConfigResponse
  <2>2. 2 \in 1 .. Len(p)
    BY <1>6, <2>1
  <2>3. p[2] \in Nat
    <3>1. p[2] \in Byte
      BY <1>6, <2>2
    <3> QED
      BY ONLY <3>1, ByteIsNat
  <2> QED
    BY <1>6, <2>1, <2>3
<1>9. p[2] = m
  <2>1. 1 \in 1 .. Len(rest)
    BY <1>2, <1>5
  <2>2. 1 + 1 <= Len(p)
    BY <1>8
  <2> QED
    BY <1>5, <1>6, <2>1, <2>2
<1>10. ASSUME NEW i \in 1 .. m
       PROVE  p[1 + 2 * i] = list[i].param /\ p[2 + 2 * i] = list[i].status
  <2>1. PICK a \in Nat : a = (i - 1) * 2
    <3>1. (i - 1) * 2 \in Nat
      BY <1>2
    <3> QED
      BY <3>1
  <2>2. /\ 1 + 2 * i = (a + 2) + 1 /\ 2 + 2 * i = (a + 3) + 1
        /\ a + 2 = 1 + (a + 1) /\ a + 3 = 1 + (a + 2)
        /\ a + 1 \in 1 .. m * 2 /\ a + 2 \in 1 .. m * 2
        /\ a + 2 \in 1 .. 1 + m * 2 /\ a + 3 \in 1 .. 1 + m * 2
        /\ (a + 2) + 1 <= 2 + m * 2 /\ (a + 3) + 1 <= 2 + m * 2
    BY <1>2, <2>1
  <2>3. p[(a + 2) + 1] = rest[a + 2] /\ p[(a + 3) + 1] = rest[a + 3]
    <3>1. (a + 2) + 1 <= Len(p) /\ (a + 3) + 1 <= Len(p)
      <4>1. 2 + m * 2 <= Len(p) /\ m * 2 \in Nat
        BY <1>2, <1>6, <1>8, <1>9
      <4> QED
        BY ONLY <1>2, <1>6, <2>1, <2>2, <4>1
    <3>2. a + 2 \in 1 .. Len(rest) /\ a + 3 \in 1 .. Len(rest)
      BY <1>5, <2>2
    <3> QED
      BY ONLY <1>6, <3>1, <3>2
  <2>4. rest[a + 2] = flat[a + 1] /\ rest[a + 3] = flat[a + 2]
    BY <1>5, <2>2
  <2>5. flat[a + 1] = list[i].param /\ flat[a + 2] = list[i].status
    BY <1>3, <2>1
  <2> QED
    BY <2>2, <2>3, <2>4, <2>5
<1>11. Rejected(p, m) = list
  <2>1. \A i \in 1 .. m : list[i] \in Rejection
    BY <1>2
  <2>2. \A i \in 1 .. m : [ param |-> list[i].param, status |-> list[i].status ] = list[i]
    BY <2>1 DEF Rejection
  <2>3. Rejected(p, m) = [ i \in 1 .. m |-> [ param |-> list[i].param, status |-> list[i].status ] ]
    BY <1>10 DEF Rejected
  <2>4. Rejected(p, m) = [ i \in 1 .. m |-> list[i] ]
    BY <2>2, <2>3
  <2> QED
    BY <1>1, <1>2, <2>4
<1>12. ParseAppConfigResponse(p) = AppConfigResult(status, list)
  BY <1>2, <1>7, <1>8, <1>9, <1>11 DEF ParseAppConfigResponse
<1> QED
  BY <1>1, <1>12 DEF Faithful, AppConfigResult, Kind

-----------------------------------------------------------------------------
(* The notifications.                                                       *)

\* A notification, whole or cut short.
Part(bytes, p) ==
  /\ bytes \in Seq(Byte) /\ p \in Seq(Byte) /\ Begins(bytes, p)
  /\ Len(p) \in Nat /\ Len(bytes) \in Nat

LEMMA PartIs ==
  ASSUME NEW bytes \in Seq(Byte), NEW n \in 0 .. Len(bytes), NEW p, p = SubSeq(bytes, 1, n)
  PROVE  Part(bytes, p)
<1>1. p \in Seq(Byte) /\ Begins(bytes, p)
  BY TakeIsBegin
<1> QED
  BY <1>1 DEF Part

LEMMA SessionStatusRead ==
  ASSUME NEW meant \in [ kind : Kind, session_id : Number(4), state : Byte, reason_code : Byte ],
         NEW bytes, NEW p, Part(bytes, p),
         bytes = ToBytes(meant.session_id, 4) \o << meant.state, meant.reason_code >>,
         ParseSessionStatus(p) # Raised
  PROVE  Faithful(ParseSessionStatus(p), meant, p, bytes, { })
<1>1. PICK num, head, a, b :
        /\ num = meant.session_id /\ head = ToBytes(num, 4)
        /\ a = meant.state /\ b = meant.reason_code
  OBVIOUS
<1>2. num \in Number(4) /\ a \in Byte /\ b \in Byte /\ bytes = head \o << a, b >>
  BY <1>1
<1>3. head \in Seq(Byte) /\ Len(head) = 4
  <2>1. 4 \in Nat
    OBVIOUS
  <2> QED
    BY <1>1, <1>2, <2>1, NumberType
<1>4. p \in Seq(Byte) /\ Len(p) \in Nat /\ Len(p) >= 6 /\ Begins(bytes, p)
  <2>1. ~(Len(p) < 6)
    BY DEF ParseSessionStatus
  <2> QED
    BY <2>1 DEF Part
<1>5. /\ bytes \in Seq(Byte) /\ Len(bytes) = 6 /\ bytes[5] = a /\ bytes[6] = b
      /\ Begins(bytes, head)
  <2>1. MorePair(bytes, head, 4, a, b)
    <3>1. 4 \in Nat /\ 4 = Len(head)
      BY <1>3
    <3> QED
      BY ONLY <1>2, <1>3, <3>1, BeginsPair
  <2>2. 4 + 2 = 6 /\ 4 + 1 = 5
    OBVIOUS
  <2> QED
    BY ONLY <2>1, <2>2 DEF MorePair
<1>6. p[5] = a /\ p[6] = b /\ \A i \in 1 .. 4 : p[i] = head[i]
  <2>1. \A i \in 1 .. Len(p) : p[i] = bytes[i]
    BY <1>4 DEF Begins
  <2>2. \A i \in 1 .. 4 : bytes[i] = head[i]
    BY <1>3, <1>5 DEF Begins
  <2> QED
    BY <1>4, <1>5, <2>1, <2>2
<1>7. FromBytes(Between(p, 0, 4)) = num
  <2>1. Holds(p, 0, ToBytes(num, 4))
    <3>1. \A i \in 1 .. Len(head) : 0 + i = i /\ p[i] = head[i]
      BY <1>3, <1>6
    <3> QED
      BY ONLY <1>1, <3>1 DEF Holds
  <2>2. 4 \in Nat /\ 0 \in Nat /\ 4 = 0 + 4 /\ 4 <= Len(p)
    BY <1>4
  <2> QED
    BY ONLY <1>2, <1>4, <2>1, <2>2, HeldNumber
<1>8. ParseSessionStatus(p) = [ kind |-> "result", session_id |-> num, state |-> a,
                                reason_code |-> b ]
  BY <1>6, <1>7 DEF ParseSessionStatus
<1> QED
  BY <1>1, <1>8 DEF Faithful, Kind

\* One field more.
Extended(next, s, at, t) ==
  /\ next \in Seq(Byte) /\ Len(next) = at + Len(t)
  /\ Begins(next, s) /\ next = s \o t

LEMMA Extending ==
  ASSUME NEW s \in Seq(Byte), NEW t \in Seq(Byte), NEW at \in Nat, Len(s) = at,
         NEW next, next = s \o t
  PROVE  Extended(next, s, at, t)
<1>1. next \in Seq(Byte) /\ Len(next) = Len(s) + Len(t) /\ Begins(next, s)
  BY ONLY s \in Seq(Byte), t \in Seq(Byte), next = s \o t, BeginsWith
<1> QED
  BY <1>1 DEF Extended

HeaderParts(bytes, f1, f2, z, f3, m, f4, e, flat) ==
  /\ f1 \in Seq(Byte) /\ Len(f1) = 4 /\ f2 \in Seq(Byte) /\ Len(f2) = 4
  /\ z \in Seq(Byte) /\ Len(z) = 1 /\ f3 \in Seq(Byte) /\ Len(f3) = 4
  /\ m \in Seq(Byte) /\ Len(m) = 3 /\ f4 \in Seq(Byte) /\ Len(f4) = 4
  /\ e \in Seq(Byte) /\ Len(e) = 5 /\ flat \in Seq(Byte)
  /\ bytes = f1 \o f2 \o z \o f3 \o m \o f4 \o e \o flat

HeaderHolds(bytes, p, f1, f2, f3, m, f4, e, flat) ==
  /\ Holds(p, 0, f1) /\ Holds(p, 4, f2) /\ Holds(p, 9, f3) /\ Holds(p, 13, m)
  /\ Holds(p, 16, f4) /\ Holds(p, 20, e)
  /\ \A i \in 1 .. Len(flat) : bytes[25 + i] = flat[i]
  /\ Len(bytes) = 25 + Len(flat)

LEMMA HeaderHeld ==
  ASSUME NEW bytes, NEW p, Part(bytes, p), Len(p) >= 25,
         NEW f1, NEW f2, NEW z, NEW f3, NEW m, NEW f4, NEW e, NEW flat,
         HeaderParts(bytes, f1, f2, z, f3, m, f4, e, flat)
  PROVE  HeaderHolds(bytes, p, f1, f2, f3, m, f4, e, flat)
<1>1. PICK s0, s1, s2, s3, s4, s5, s6, s7 :
        /\ s0 = << >> /\ s1 = f1 /\ s2 = s1 \o f2 /\ s3 = s2 \o z /\ s4 = s3 \o f3
        /\ s5 = s4 \o m /\ s6 = s5 \o f4 /\ s7 = s6 \o e
  OBVIOUS
<1>2. /\ f1 \in Seq(Byte) /\ Len(f1) = 4 /\ f2 \in Seq(Byte) /\ Len(f2) = 4
      /\ z \in Seq(Byte) /\ Len(z) = 1 /\ f3 \in Seq(Byte) /\ Len(f3) = 4
      /\ m \in Seq(Byte) /\ Len(m) = 3 /\ f4 \in Seq(Byte) /\ Len(f4) = 4
      /\ e \in Seq(Byte) /\ Len(e) = 5 /\ flat \in Seq(Byte) /\ Len(flat) \in Nat
  BY DEF HeaderParts
<1>3. bytes = s7 \o flat
  BY <1>1 DEF HeaderParts
<1>4. /\ 0 \in Nat /\ 4 \in Nat /\ 8 \in Nat /\ 9 \in Nat /\ 13 \in Nat /\ 16 \in Nat
      /\ 20 \in Nat /\ 25 \in Nat
  OBVIOUS
<1>5. s1 \in Seq(Byte) /\ Len(s1) = 4 /\ s0 \in Seq(Byte) /\ Len(s0) = 0 /\ s1 = s0 \o f1
  BY <1>1, <1>2
<1>6. s2 \in Seq(Byte) /\ Len(s2) = 8 /\ Begins(s2, s1)
  <2>1. Extended(s2, s1, 4, f2)
    BY ONLY <1>1, <1>2, <1>4, <1>5, Extending
  <2> QED
    BY <1>2, <2>1 DEF Extended
<1>7. s3 \in Seq(Byte) /\ Len(s3) = 9 /\ Begins(s3, s2)
  <2>1. Extended(s3, s2, 8, z)
    BY ONLY <1>1, <1>2, <1>4, <1>6, Extending
  <2> QED
    BY <1>2, <2>1 DEF Extended
<1>8. s4 \in Seq(Byte) /\ Len(s4) = 13 /\ Begins(s4, s3)
  <2>1. Extended(s4, s3, 9, f3)
    BY ONLY <1>1, <1>2, <1>4, <1>7, Extending
  <2> QED
    BY <1>2, <2>1 DEF Extended
<1>9. s5 \in Seq(Byte) /\ Len(s5) = 16 /\ Begins(s5, s4)
  <2>1. Extended(s5, s4, 13, m)
    BY ONLY <1>1, <1>2, <1>4, <1>8, Extending
  <2> QED
    BY <1>2, <2>1 DEF Extended
<1>10. s6 \in Seq(Byte) /\ Len(s6) = 20 /\ Begins(s6, s5)
  <2>1. Extended(s6, s5, 16, f4)
    BY ONLY <1>1, <1>2, <1>4, <1>9, Extending
  <2> QED
    BY <1>2, <2>1 DEF Extended
<1>11. s7 \in Seq(Byte) /\ Len(s7) = 25 /\ Begins(s7, s6)
  <2>1. Extended(s7, s6, 20, e)
    BY ONLY <1>1, <1>2, <1>4, <1>10, Extending
  <2> QED
    BY <1>2, <2>1 DEF Extended
<1>12. bytes \in Seq(Byte) /\ Len(bytes) = 25 + Len(flat) /\ Begins(bytes, s7)
  <2>1. Extended(bytes, s7, 25, flat)
    BY ONLY <1>2, <1>3, <1>4, <1>11, Extending
  <2> QED
    BY <2>1 DEF Extended
<1>13. p \in Seq(Byte) /\ Begins(bytes, p) /\ Len(p) \in Nat
  BY DEF Part
<1>14. Begins(bytes, s6)
  BY ONLY <1>10, <1>11, <1>12, BeginsThrough
<1>15. Begins(bytes, s5)
  BY ONLY <1>9, <1>10, <1>12, <1>14, BeginsThrough
<1>16. Begins(bytes, s4)
  BY ONLY <1>8, <1>9, <1>12, <1>15, BeginsThrough
<1>17. Begins(bytes, s3)
  BY ONLY <1>7, <1>8, <1>12, <1>16, BeginsThrough
<1>18. Begins(bytes, s2)
  BY ONLY <1>6, <1>7, <1>12, <1>17, BeginsThrough
<1>19. Begins(bytes, s1)
  BY ONLY <1>5, <1>6, <1>12, <1>18, BeginsThrough
<1>20. Holds(p, 0, f1)
  <2>1. 0 + Len(f1) <= Len(p) /\ Begins(bytes, s0 \o f1)
    BY <1>2, <1>5, <1>13, <1>19
  <2> QED
    BY ONLY <1>2, <1>4, <1>5, <1>12, <1>13, <2>1, FieldAt
<1>21. Holds(p, 4, f2)
  <2>1. 4 + Len(f2) <= Len(p) /\ Begins(bytes, s1 \o f2)
    BY <1>1, <1>2, <1>13, <1>18
  <2> QED
    BY ONLY <1>2, <1>4, <1>5, <1>12, <1>13, <2>1, FieldAt
<1>22. Holds(p, 9, f3)
  <2>1. 9 + Len(f3) <= Len(p) /\ Begins(bytes, s3 \o f3)
    BY <1>1, <1>2, <1>13, <1>16
  <2> QED
    BY ONLY <1>2, <1>4, <1>7, <1>12, <1>13, <2>1, FieldAt
<1>23. Holds(p, 13, m)
  <2>1. 13 + Len(m) <= Len(p) /\ Begins(bytes, s4 \o m)
    BY <1>1, <1>2, <1>13, <1>15
  <2> QED
    BY ONLY <1>2, <1>4, <1>8, <1>12, <1>13, <2>1, FieldAt
<1>24. Holds(p, 16, f4)
  <2>1. 16 + Len(f4) <= Len(p) /\ Begins(bytes, s5 \o f4)
    BY <1>1, <1>2, <1>13, <1>14
  <2> QED
    BY ONLY <1>2, <1>4, <1>9, <1>12, <1>13, <2>1, FieldAt
<1>25. Holds(p, 20, e)
  <2>1. 20 + Len(e) <= Len(p) /\ Begins(bytes, s6 \o e)
    BY <1>1, <1>2, <1>12, <1>13
  <2> QED
    BY ONLY <1>2, <1>4, <1>10, <1>12, <1>13, <2>1, FieldAt
<1>26. \A i \in 1 .. Len(flat) : bytes[25 + i] = flat[i]
  <2>1. Holds(s7 \o flat, Len(s7), flat)
    BY <1>2, <1>11, HoldsEnd
  <2> QED
    BY <1>3, <1>11, <2>1 DEF Holds
<1> QED
  BY <1>12, <1>20, <1>21, <1>22, <1>23, <1>24, <1>25, <1>26 DEF HeaderHolds

\* What is left of a cut notification is the beginning of what is left of it whole.
LEMMA RestIsPart ==
  ASSUME NEW bytes, NEW p, Part(bytes, p), NEW k \in Nat, k <= Len(p),
         NEW flat \in Seq(Byte), Len(bytes) = k + Len(flat),
         \A i \in 1 .. Len(flat) : bytes[k + i] = flat[i]
  PROVE  Part(flat, From(p, k))
<1>1. PICK raw, n, l : raw = From(p, k) /\ n = Len(p) /\ l = Len(flat)
  OBVIOUS
<1>2. /\ p \in Seq(Byte) /\ n \in Nat /\ l \in Nat /\ n <= k + l
      /\ \A i \in 1 .. n : bytes[i] = p[i]
  BY <1>1 DEF Part, Begins
<1>3. raw \in Seq(Byte) /\ Len(raw) = n - k /\ \A i \in 1 .. n - k : raw[i] = p[i + k]
  <2>1. k \in 0 .. Len(p)
    BY <1>1, <1>2
  <2>2. raw = SubSeq(p, k + 1, Len(p))
    BY <1>1 DEF From
  <2> QED
    BY ONLY <1>1, <1>2, <2>1, <2>2, DropAt
<1>4. ASSUME NEW i \in 1 .. n - k PROVE flat[i] = raw[i]
  <2>1. i + k \in 1 .. n /\ i \in 1 .. l /\ i + k = k + i
    BY <1>1, <1>2
  <2>2. bytes[k + i] = flat[i] /\ bytes[i + k] = p[i + k]
    BY <1>1, <1>2, <2>1
  <2> QED
    BY <1>3, <2>1, <2>2
<1>5. n - k <= l /\ n - k \in Nat
  BY <1>1, <1>2
<1>6. Begins(flat, raw)
  BY <1>1, <1>3, <1>4, <1>5 DEF Begins
<1> QED
  BY <1>1, <1>2, <1>3, <1>5, <1>6 DEF Part

\* The header of a round.
HeaderRight(data, meant) ==
  /\ data.kind = "result"
  /\ data.sequence_number = meant.sequence_number
  /\ data.session_handle = meant.session_handle
  /\ data.ranging_interval_ms = meant.ranging_interval_ms
  /\ data.measurement_type = meant.measurement_type
  /\ data.mac_address_size_bytes = meant.mac_address_size_bytes
  /\ data.primary_session_id = meant.primary_session_id
  /\ data.n_measurements = meant.n_measurements

\* What of an answer the header holds.
HeaderFields(meant) ==
  /\ meant.sequence_number \in Number(4) /\ meant.session_handle \in Number(4)
  /\ meant.ranging_interval_ms \in Number(4) /\ meant.primary_session_id \in Number(4)
  /\ meant.measurement_type \in Byte /\ meant.n_measurements \in Byte
  /\ meant.mac_address_size_bytes \in { 2, 8 }

\* How a round is written.
RoundBytes(meant, flat) ==
  ToBytes(meant.sequence_number, 4) \o ToBytes(meant.session_handle, 4) \o << 0 >>
    \o ToBytes(meant.ranging_interval_ms, 4)
    \o << meant.measurement_type, 0, IF meant.mac_address_size_bytes = 2 THEN 0 ELSE 1 >>
    \o ToBytes(meant.primary_session_id, 4) \o << 0, 0, 0, 0, meant.n_measurements >>
    \o flat

LEMMA RoundParts ==
  ASSUME NEW meant, HeaderFields(meant), NEW flat \in Seq(Byte),
         NEW bytes, bytes = RoundBytes(meant, flat),
         NEW f1, f1 = ToBytes(meant.sequence_number, 4),
         NEW f2, f2 = ToBytes(meant.session_handle, 4),
         NEW f3, f3 = ToBytes(meant.ranging_interval_ms, 4),
         NEW f4, f4 = ToBytes(meant.primary_session_id, 4),
         NEW m, m = << meant.measurement_type, 0, IF meant.mac_address_size_bytes = 2 THEN 0 ELSE 1 >>,
         NEW e, e = << 0, 0, 0, 0, meant.n_measurements >>
  PROVE  HeaderParts(bytes, f1, f2, << 0 >>, f3, m, f4, e, flat)
<1>1. /\ f1 \in Seq(Byte) /\ Len(f1) = 4 /\ f2 \in Seq(Byte) /\ Len(f2) = 4
      /\ f3 \in Seq(Byte) /\ Len(f3) = 4 /\ f4 \in Seq(Byte) /\ Len(f4) = 4
  <2>1. 4 \in Nat
    OBVIOUS
  <2> QED
    BY <2>1, NumberType DEF HeaderFields
<1>2. (IF meant.mac_address_size_bytes = 2 THEN 0 ELSE 1) \in Byte
  BY ZeroByte
<1>3. /\ m \in Seq(Byte) /\ Len(m) = 3 /\ e \in Seq(Byte) /\ Len(e) = 5
      /\ << 0 >> \in Seq(Byte) /\ Len(<< 0 >>) = 1
  BY <1>2, ZeroByte DEF HeaderFields
<1>4. bytes = f1 \o f2 \o << 0 >> \o f3 \o m \o f4 \o e \o flat
  BY DEF RoundBytes
<1> QED
  BY <1>1, <1>3, <1>4 DEF HeaderParts

\* What is decoded of a round before its measurements.
HeaderIs(data, meant, flat) ==
  /\ HeaderRight(data, meant)
  /\ DOMAIN data = { "kind", "sequence_number", "session_handle", "ranging_interval_ms",
                     "measurement_type", "mac_address_size_bytes", "primary_session_id",
                     "n_measurements", "measurements_raw" }
  /\ Part(flat, data.measurements_raw)

LEMMA RoundHeaderRead ==
  ASSUME NEW meant, HeaderFields(meant), NEW flat \in Seq(Byte),
         NEW bytes, bytes = RoundBytes(meant, flat), NEW p, Part(bytes, p),
         NEW data, data = ParseRangingData(p), data # Raised
  PROVE  HeaderIs(data, meant, flat)
<1>0. PICK n1, n2, n3, n4 :
        /\ n1 = meant.sequence_number /\ n2 = meant.session_handle
        /\ n3 = meant.ranging_interval_ms /\ n4 = meant.primary_session_id
  OBVIOUS
<1>1. PICK f1, f2, f3, f4, m, e :
        /\ f1 = ToBytes(n1, 4) /\ f2 = ToBytes(n2, 4) /\ f3 = ToBytes(n3, 4) /\ f4 = ToBytes(n4, 4)
        /\ m = << meant.measurement_type, 0, IF meant.mac_address_size_bytes = 2 THEN 0 ELSE 1 >>
        /\ e = << 0, 0, 0, 0, meant.n_measurements >>
  OBVIOUS
<1>2. n1 \in Number(4) /\ n2 \in Number(4) /\ n3 \in Number(4) /\ n4 \in Number(4)
  BY <1>0 DEF HeaderFields
<1>3. p \in Seq(Byte) /\ Len(p) \in Nat /\ Len(p) >= 25
  <2>1. ~(Len(p) < 25)
    BY DEF ParseRangingData
  <2>2. p \in Seq(Byte) /\ Len(p) \in Nat
    BY DEF Part
  <2> QED
    BY <2>1, <2>2
<1>4. HeaderHolds(bytes, p, f1, f2, f3, m, f4, e, flat)
  <2>1. HeaderParts(bytes, f1, f2, << 0 >>, f3, m, f4, e, flat)
    BY <1>0, <1>1, RoundParts
  <2> QED
    BY <1>3, <2>1, HeaderHeld
<1>5. /\ FromBytes(Between(p, 0, 4)) = n1 /\ FromBytes(Between(p, 4, 8)) = n2
      /\ FromBytes(Between(p, 9, 13)) = n3 /\ FromBytes(Between(p, 16, 20)) = n4
  <2>1. /\ Holds(p, 0, ToBytes(n1, 4)) /\ Holds(p, 4, ToBytes(n2, 4))
        /\ Holds(p, 9, ToBytes(n3, 4)) /\ Holds(p, 16, ToBytes(n4, 4))
    BY <1>1, <1>4 DEF HeaderHolds
  <2>2. /\ 0 \in Nat /\ 4 \in Nat /\ 8 \in Nat /\ 9 \in Nat /\ 13 \in Nat /\ 16 \in Nat
        /\ 20 \in Nat /\ 4 = 0 + 4 /\ 8 = 4 + 4 /\ 13 = 9 + 4 /\ 20 = 16 + 4
        /\ 4 <= Len(p) /\ 8 <= Len(p) /\ 13 <= Len(p) /\ 20 <= Len(p)
    BY <1>3
  <2>3. FromBytes(Between(p, 0, 4)) = n1
    BY ONLY <1>2, <1>3, <2>1, <2>2, HeldNumber
  <2>4. FromBytes(Between(p, 4, 8)) = n2
    BY ONLY <1>2, <1>3, <2>1, <2>2, HeldNumber
  <2>5. FromBytes(Between(p, 9, 13)) = n3
    BY ONLY <1>2, <1>3, <2>1, <2>2, HeldNumber
  <2>6. FromBytes(Between(p, 16, 20)) = n4
    BY ONLY <1>2, <1>3, <2>1, <2>2, HeldNumber
  <2> QED
    BY <2>3, <2>4, <2>5, <2>6
<1>6. /\ p[14] = meant.measurement_type
      /\ p[16] = (IF meant.mac_address_size_bytes = 2 THEN 0 ELSE 1)
      /\ p[25] = meant.n_measurements
  <2>1. \A i \in 1 .. 3 : p[13 + i] = m[i]
    BY <1>1, <1>4 DEF HeaderHolds, Holds
  <2>2. \A i \in 1 .. 5 : p[20 + i] = e[i]
    BY <1>1, <1>4 DEF HeaderHolds, Holds
  <2>3. p[13 + 1] = m[1] /\ p[13 + 3] = m[3] /\ p[20 + 5] = e[5]
    BY <2>1, <2>2
  <2> QED
    BY <1>1, <2>3
<1>7. (IF p[16] = 0 THEN 2 ELSE 8) = meant.mac_address_size_bytes
  BY <1>6 DEF HeaderFields
<1>8. data = [ kind |-> "result", sequence_number |-> n1, session_handle |-> n2,
               ranging_interval_ms |-> n3, measurement_type |-> meant.measurement_type,
               mac_address_size_bytes |-> meant.mac_address_size_bytes,
               primary_session_id |-> n4, n_measurements |-> meant.n_measurements,
               measurements_raw |-> From(p, 25) ]
  BY <1>5, <1>6, <1>7 DEF ParseRangingData
<1>9. HeaderRight(data, meant)
  BY <1>0, <1>8 DEF HeaderRight
<1>10. Part(flat, From(p, 25))
  <2>1. 25 \in Nat /\ 25 <= Len(p)
    BY <1>3
  <2>2. Len(bytes) = 25 + Len(flat) /\ \A i \in 1 .. Len(flat) : bytes[25 + i] = flat[i]
    BY <1>4 DEF HeaderHolds
  <2> QED
    BY <2>1, <2>2, RestIsPart
<1>11. data.measurements_raw = From(p, 25)
  BY <1>8
<1>12. DOMAIN data = { "kind", "sequence_number", "session_handle", "ranging_interval_ms",
                       "measurement_type", "mac_address_size_bytes", "primary_session_id",
                       "n_measurements", "measurements_raw" }
  BY <1>8
<1> QED
  BY ONLY <1>9, <1>10, <1>11, <1>12 DEF HeaderIs

LEMMA ReverseBack ==
  ASSUME NEW mac \in Seq(Byte), NEW rev, rev = Reverse(mac)
  PROVE  rev \in Seq(Byte) /\ Len(rev) = Len(mac) /\ Reverse(rev) = mac
<1>1. PICK n : n = Len(mac)
  OBVIOUS
<1>2. n \in Nat /\ \A i \in 1 .. n : mac[i] \in Byte /\ (n - i) + 1 \in 1 .. n
  BY <1>1
<1>3. rev = [ i \in 1 .. n |-> mac[(n - i) + 1] ]
  BY <1>1 DEF Reverse
<1>4. rev \in Seq(Byte) /\ Len(rev) = n
  BY <1>2, <1>3
<1>5. Reverse(rev) = [ i \in 1 .. n |-> rev[(n - i) + 1] ]
  BY <1>4 DEF Reverse
<1>6. \A i \in 1 .. n : rev[(n - i) + 1] = mac[i]
  <2>1. ASSUME NEW i \in 1 .. n PROVE rev[(n - i) + 1] = mac[i]
    <3>1. PICK j : j = (n - i) + 1
      OBVIOUS
    <3>2. j \in 1 .. n /\ (n - j) + 1 = i
      BY <1>2, <3>1
    <3> QED
      BY <1>3, <3>1, <3>2
  <2> QED
    BY <2>1
<1>7. Reverse(rev) = [ i \in 1 .. n |-> mac[i] ]
  BY <1>5, <1>6
<1> QED
  BY <1>1, <1>2, <1>4, <1>7

\* A measurement of the type TWR, and whatever follows it.
TwrParts(flat, size, rev, pair, dist, more) ==
  /\ rev \in Seq(Byte) /\ Len(rev) = size /\ pair \in Seq(Byte) /\ Len(pair) = 2
  /\ dist \in Seq(Byte) /\ Len(dist) = 2 /\ more \in Seq(Byte)
  /\ flat = ((rev \o pair) \o dist) \o more

TwrHolds(raw, size, rev, pair, dist) ==
  Holds(raw, 0, rev) /\ Holds(raw, size, pair) /\ Holds(raw, size + 2, dist)

LEMMA TwrHeld ==
  ASSUME NEW flat, NEW raw, Part(flat, raw), NEW size \in Nat, Len(raw) >= size + 4,
         NEW rev, NEW pair, NEW dist, NEW more, TwrParts(flat, size, rev, pair, dist, more)
  PROVE  TwrHolds(raw, size, rev, pair, dist)
<1>1. PICK s0, s2, s3 : s0 = << >> /\ s2 = rev \o pair /\ s3 = s2 \o dist
  OBVIOUS
<1>2. /\ rev \in Seq(Byte) /\ Len(rev) = size /\ pair \in Seq(Byte) /\ Len(pair) = 2
      /\ dist \in Seq(Byte) /\ Len(dist) = 2 /\ more \in Seq(Byte) /\ flat = s3 \o more
      /\ s0 \in Seq(Byte) /\ Len(s0) = 0 /\ 0 \in Nat
  BY <1>1 DEF TwrParts
<1>3. PICK at2, at3 : at2 = size + 2 /\ at3 = size + 4
  OBVIOUS
<1>4. at2 \in Nat /\ at3 \in Nat /\ at2 + 2 = at3
  BY <1>3
<1>5. s2 \in Seq(Byte) /\ Len(s2) = at2 /\ Begins(s2, rev)
  <2>1. Extended(s2, rev, size, pair)
    BY ONLY <1>1, <1>2, size \in Nat, Extending
  <2> QED
    BY <1>2, <1>3, <2>1 DEF Extended
<1>6. s3 \in Seq(Byte) /\ Len(s3) = at3 /\ Begins(s3, s2)
  <2>1. Extended(s3, s2, at2, dist)
    BY ONLY <1>1, <1>2, <1>4, <1>5, Extending
  <2> QED
    BY <1>2, <1>4, <2>1 DEF Extended
<1>7. flat \in Seq(Byte) /\ Begins(flat, s3)
  BY ONLY <1>2, <1>6, BeginsWith
<1>8. Begins(flat, s2)
  BY ONLY <1>5, <1>6, <1>7, BeginsThrough
<1>9. Begins(flat, rev)
  BY ONLY <1>2, <1>5, <1>7, <1>8, BeginsThrough
<1>10. raw \in Seq(Byte) /\ Begins(flat, raw) /\ Len(raw) \in Nat /\ at3 <= Len(raw)
  BY <1>3 DEF Part
<1>11. Holds(raw, 0, rev)
  <2>1. 0 + Len(rev) <= Len(raw)
    BY <1>2, <1>3, <1>10
  <2>2. s0 \o rev = rev
    BY <1>1, <1>2
  <2>3. Begins(flat, s0 \o rev)
    BY <1>9, <2>2
  <2> QED
    BY ONLY <1>2, <1>7, <1>10, <2>1, <2>3, FieldAt
<1>12. Holds(raw, size, pair)
  <2>1. size + Len(pair) <= Len(raw) /\ Begins(flat, rev \o pair)
    BY <1>1, <1>2, <1>3, <1>8, <1>10
  <2> QED
    BY ONLY <1>2, <1>7, <1>10, <2>1, size \in Nat, FieldAt
<1>13. Holds(raw, at2, dist)
  <2>1. at2 + Len(dist) <= Len(raw) /\ Begins(flat, s2 \o dist)
    BY <1>1, <1>2, <1>4, <1>7, <1>10
  <2> QED
    BY ONLY <1>2, <1>4, <1>5, <1>7, <1>10, <2>1, FieldAt
<1> QED
  BY <1>3, <1>11, <1>12, <1>13 DEF TwrHolds

\* What of an answer a measurement holds.
TwrFields(meant) ==
  /\ meant.mac_address \in Seq(Byte) /\ Len(meant.mac_address) = meant.mac_address_size_bytes
  /\ meant.mac_address_size_bytes \in { 2, 8 } /\ meant.status \in Byte
  /\ meant.is_nlos \in BOOLEAN /\ meant.distance_cm \in Number(2)

TwrRight(twr, meant) ==
  /\ twr.mac_address = meant.mac_address /\ twr.status = meant.status
  /\ twr.is_nlos = meant.is_nlos /\ twr.distance_cm = meant.distance_cm

\* How a measurement is written when it is of the type TWR, before the angles.
TwrFlat(meant, flat, more) ==
  flat = ((Reverse(meant.mac_address) \o << meant.status, IF meant.is_nlos THEN 1 ELSE 0 >>)
            \o ToBytes(meant.distance_cm, 2)) \o more

LEMMA TwrRead ==
  ASSUME NEW meant, TwrFields(meant), NEW more \in Seq(Byte), NEW flat,
         TwrFlat(meant, flat, more), NEW raw, Part(flat, raw),
         NEW twr, twr = ParseTwr(raw, meant.mac_address_size_bytes), twr # Raised
  PROVE  TwrRight(twr, meant)
<1>1. PICK size, mac, rev, code, seen, bit, pair, num, dist :
        /\ size = meant.mac_address_size_bytes /\ mac = meant.mac_address /\ rev = Reverse(mac)
        /\ code = meant.status /\ seen = meant.is_nlos /\ bit = (IF seen THEN 1 ELSE 0)
        /\ pair = << code, bit >> /\ num = meant.distance_cm /\ dist = ToBytes(num, 2)
  OBVIOUS
<1>2. /\ mac \in Seq(Byte) /\ Len(mac) = size /\ size \in Nat /\ code \in Byte
      /\ seen \in BOOLEAN /\ num \in Number(2)
  BY <1>1 DEF TwrFields
<1>3. /\ rev \in Seq(Byte) /\ Len(rev) = size /\ Reverse(rev) = mac
  BY <1>1, <1>2, ReverseBack
<1>4. bit \in Byte /\ pair \in Seq(Byte) /\ Len(pair) = 2 /\ pair[1] = code /\ pair[2] = bit
  <2>1. bit \in Byte
    BY <1>1, ZeroByte
  <2> QED
    BY <1>1, <1>2, <2>1
<1>5. dist \in Seq(Byte) /\ Len(dist) = 2
  <2>1. 2 \in Nat
    OBVIOUS
  <2> QED
    BY <1>1, <1>2, <2>1, NumberType
<1>6. raw \in Seq(Byte) /\ Len(raw) \in Nat /\ Len(raw) >= size + 4
  <2>1. ~(Len(raw) < size + 4)
    BY <1>1 DEF ParseTwr
  <2>2. raw \in Seq(Byte) /\ Len(raw) \in Nat
    BY DEF Part
  <2> QED
    BY <1>2, <2>1, <2>2
<1>7. TwrParts(flat, size, rev, pair, dist, more)
  BY <1>1, <1>3, <1>4, <1>5 DEF TwrParts, TwrFlat
<1>8. Holds(raw, 0, rev) /\ Holds(raw, size, pair) /\ Holds(raw, size + 2, dist)
  <2>1. TwrHolds(raw, size, rev, pair, dist)
    BY <1>2, <1>6, <1>7, TwrHeld
  <2> QED
    BY <2>1 DEF TwrHolds
<1>9. Reverse(Between(raw, 0, size)) = mac
  <2>1. 0 \in Nat /\ size = 0 + Len(rev) /\ size <= Len(raw)
    BY <1>2, <1>3, <1>6
  <2>2. Between(raw, 0, size) = rev
    BY ONLY <1>2, <1>3, <1>6, <1>8, <2>1, HeldSlice
  <2> QED
    BY <1>3, <2>2
<1>10. raw[size + 1] = code /\ raw[size + 2] = bit
  <2>1. \A i \in 1 .. 2 : raw[size + i] = pair[i]
    BY <1>4, <1>8 DEF Holds
  <2> QED
    BY <1>4, <2>1
<1>11. FromBytes(Between(raw, size + 2, size + 4)) = num
  <2>1. PICK at, end : at = size + 2 /\ end = size + 4
    OBVIOUS
  <2>2. at \in Nat /\ end \in Nat /\ end = at + 2 /\ 2 \in Nat /\ end <= Len(raw)
    BY <1>2, <1>6, <2>1
  <2>3. Holds(raw, at, ToBytes(num, 2))
    BY <1>1, <1>8, <2>1
  <2>4. FromBytes(Between(raw, at, end)) = num
    BY ONLY <1>2, <1>6, <2>2, <2>3, HeldNumber
  <2> QED
    BY <2>1, <2>4
<1>12. twr = [ kind |-> "result", mac_address |-> mac, status |-> code,
               is_nlos |-> bit # 0, distance_cm |-> num ]
  BY <1>1, <1>9, <1>10, <1>11 DEF ParseTwr
<1>13. (bit # 0) = seen
  BY <1>1, <1>2
<1> QED
  BY <1>1, <1>12, <1>13 DEF TwrRight

\* The fields of a measurement.
TwrNames == { "mac_address", "status", "is_nlos", "distance_cm" }

LEMMA TwrNamed ==
  ASSUME NEW raw, NEW size, NEW twr, twr = ParseTwr(raw, size), twr # Raised
  PROVE  DOMAIN twr = { "kind" } \cup TwrNames /\ twr.kind = "result"
<1>1. twr = [ kind |-> "result", mac_address |-> Reverse(Between(raw, 0, size)),
              status |-> raw[size + 1], is_nlos |-> raw[size + 2] # 0,
              distance_cm |-> FromBytes(Between(raw, size + 2, size + 4)) ]
  BY DEF ParseTwr
<1>2. DOMAIN twr = { "kind", "mac_address", "status", "is_nlos", "distance_cm" }
  BY <1>1
<1>3. twr.kind = "result"
  BY <1>1
<1> QED
  BY <1>2, <1>3 DEF TwrNames

LEMMA MeasurementIs ==
  ASSUME NEW meant, TwrFields(meant)
  PROVE  /\ MeasurementBytes(meant) \in Seq(Byte)
         /\ meant.measurement_type = 1 => TwrFlat(meant, MeasurementBytes(meant), << 170, 170 >>)
<1>1. PICK mac, rev, code, bit, num, dist :
        /\ mac = meant.mac_address /\ rev = Reverse(mac) /\ code = meant.status
        /\ bit = (IF meant.is_nlos THEN 1 ELSE 0) /\ num = meant.distance_cm
        /\ dist = ToBytes(num, 2)
  OBVIOUS
<1>2. mac \in Seq(Byte) /\ code \in Byte /\ num \in Number(2)
  BY <1>1 DEF TwrFields
<1>3. rev \in Seq(Byte) /\ << code, bit >> \in Seq(Byte) /\ dist \in Seq(Byte)
  <2>1. bit \in Byte
    BY <1>1, ZeroByte
  <2>2. 2 \in Nat
    OBVIOUS
  <2> QED
    BY <1>1, <1>2, <2>1, <2>2, ReverseBack, NumberType
<1>4. << 170, 170 >> \in Seq(Byte) /\ << 0 >> \in Seq(Byte)
  BY DEF Byte
<1>5. PICK twr : twr = ((rev \o << code, bit >>) \o dist) \o << 170, 170 >>
  OBVIOUS
<1>6. twr \in Seq(Byte) /\ << 0 >> \o twr \in Seq(Byte)
  BY <1>3, <1>4, <1>5, JoinAt
<1>7. MeasurementBytes(meant) = IF meant.measurement_type = 1 THEN twr ELSE << 0 >> \o twr
  BY <1>1, <1>5 DEF MeasurementBytes
<1>8. ASSUME meant.measurement_type = 1
      PROVE  TwrFlat(meant, MeasurementBytes(meant), << 170, 170 >>)
  <2>1. MeasurementBytes(meant) = twr
    BY <1>7, <1>8
  <2> QED
    BY <1>1, <1>5, <2>1 DEF TwrFlat
<1> QED
  BY <1>6, <1>7, <1>8

\* The measurements of a round, side by side.
Measurements(meant) ==
  FlattenSeq([ i \in 1 .. meant.n_measurements |-> MeasurementBytes(meant) ])

LEMMA MeasurementsAre ==
  ASSUME NEW meant, TwrFields(meant), meant.n_measurements \in Byte \ { 0 },
         NEW flat, flat = Measurements(meant)
  PROVE  /\ flat \in Seq(Byte)
         /\ meant.measurement_type = 1 => \E more \in Seq(Byte) : TwrFlat(meant, flat, more)
<1>1. PICK n, one, list :
        /\ n = meant.n_measurements /\ one = MeasurementBytes(meant)
        /\ list = [ i \in 1 .. n |-> one ]
  OBVIOUS
<1>2. n \in Nat /\ n # 0 /\ one \in Seq(Byte)
  BY <1>1, MeasurementIs, ByteIsNat
<1>3. list \in Seq(Seq(Byte)) /\ Len(list) = n
  BY ONLY <1>1, <1>2
<1>4. list # << >> /\ Head(list) = one /\ Tail(list) \in Seq(Seq(Byte))
  <2>1. list # << >>
    BY <1>2, <1>3
  <2>2. Tail(list) \in Seq(Seq(Byte)) /\ Head(list) = list[1]
    BY ONLY <1>3, <2>1, TailAt
  <2>3. list[1] = one
    BY <1>1, <1>2
  <2> QED
    BY <2>1, <2>2, <2>3
<1>5. PICK rest : rest = FlattenSeq(Tail(list))
  OBVIOUS
<1>6. flat \in Seq(Byte) /\ rest \in Seq(Byte) /\ flat = one \o rest
  <2>1. Joins(Seq(Byte))
    BY SequencesJoin
  <2>2. flat = FlattenSeq(list)
    BY <1>1 DEF Measurements
  <2>3. FlattenSeq(list) \in Seq(Byte) /\ FlattenSeq(Tail(list)) \in Seq(Byte)
    BY ONLY <1>3, <1>4, <2>1, FlattenInto
  <2>4. FlattenSeq(list) = Head(list) \o FlattenSeq(Tail(list))
    BY ONLY <1>3, <1>4, <2>1, FlattenFirst
  <2> QED
    BY <1>4, <1>5, <2>2, <2>3, <2>4
<1>7. ASSUME meant.measurement_type = 1
      PROVE  \E more \in Seq(Byte) : TwrFlat(meant, flat, more)
  <2>1. PICK rev, pair, dist, tail, head :
          /\ rev = Reverse(meant.mac_address) /\ dist = ToBytes(meant.distance_cm, 2)
          /\ pair = << meant.status, IF meant.is_nlos THEN 1 ELSE 0 >>
          /\ tail = << 170, 170 >> /\ head = (rev \o pair) \o dist
    OBVIOUS
  <2>2. one = head \o tail
    BY <1>1, <1>7, <2>1, MeasurementIs DEF TwrFlat
  <2>3. head \in Seq(Byte) /\ tail \in Seq(Byte)
    <3>1. tail \in Seq(Byte)
      BY <2>1 DEF Byte
    <3>2. rev \in Seq(Byte) /\ dist \in Seq(Byte)
      <4>1. 2 \in Nat
        OBVIOUS
      <4> QED
        BY <2>1, <4>1, ReverseBack, NumberType DEF TwrFields
    <3>3. pair \in Seq(Byte)
      <4>1. (IF meant.is_nlos THEN 1 ELSE 0) \in Byte
        BY ZeroByte
      <4>2. meant.status \in Byte
        BY DEF TwrFields
      <4> QED
        BY <2>1, <4>1, <4>2
    <3> QED
      BY <2>1, <3>1, <3>2, <3>3, JoinAt
  <2>4. flat = head \o (tail \o rest)
    BY <1>6, <2>2, <2>3, JoinAssociates
  <2>5. tail \o rest \in Seq(Byte)
    BY <1>6, <2>3, JoinAt
  <2>6. TwrFlat(meant, flat, tail \o rest)
    BY <2>1, <2>4 DEF TwrFlat
  <2> QED
    BY <2>5, <2>6
<1> QED
  BY <1>6, <1>7

\* A round is read as it was meant, but for a measurement laid out otherwise.
RoundRight(parsed, meant) ==
  \A field \in DOMAIN meant :
    parsed[field] = meant[field] \/ (meant.measurement_type # 1 /\ field \in TwrNames)

HeaderNames ==
  { "kind", "sequence_number", "session_handle", "ranging_interval_ms", "measurement_type",
    "mac_address_size_bytes", "primary_session_id", "n_measurements" }

LEMMA HeaderMatches ==
  ASSUME NEW data, NEW meant, HeaderRight(data, meant), meant.kind = "result",
         NEW field \in HeaderNames
  PROVE  data[field] = meant[field]
  BY DEF HeaderRight, HeaderNames

LEMMA HeaderOnlyRead ==
  ASSUME NEW meant \in DataHeader({ 0 }), NEW bytes,
         bytes = RoundBytes(meant, Measurements(meant)), NEW p, Part(bytes, p),
         ParseRound(p) # Raised
  PROVE  RoundRight(ParseRound(p), meant) /\ Measurements(meant) = << >>
<1>1. PICK data, flat : data = ParseRangingData(p) /\ flat = Measurements(meant)
  OBVIOUS
<1>2. HeaderFields(meant) /\ meant.kind = "result" /\ DOMAIN meant = HeaderNames
      /\ meant.n_measurements = 0
  BY ZeroByte DEF DataHeader, HeaderFields, Kind, HeaderNames
<1>3. flat = << >> /\ flat \in Seq(Byte)
  <2>1. [ i \in 1 .. 0 |-> MeasurementBytes(meant) ] = << >>
    OBVIOUS
  <2>2. flat = FlattenSeq(<< >>)
    BY <1>1, <1>2, <2>1 DEF Measurements
  <2>3. flat = << >>
    BY <2>2, FlattenEmpty
  <2> QED
    BY ONLY <2>3
<1>4. data # Raised
  BY <1>1 DEF ParseRound
<1>5. HeaderIs(data, meant, flat)
  BY ONLY <1>1, <1>2, <1>3, <1>4, bytes = RoundBytes(meant, Measurements(meant)), Part(bytes, p),
     RoundHeaderRead
<1>6. HeaderRight(data, meant) /\ data.n_measurements = 0
  BY <1>2, <1>5 DEF HeaderIs, HeaderRight
<1>7. ParseRound(p) = data
  BY <1>1, <1>4, <1>6 DEF ParseRound
<1>8. \A field \in HeaderNames : data[field] = meant[field]
  BY <1>2, <1>6, HeaderMatches
<1> QED
  BY <1>1, <1>2, <1>3, <1>7, <1>8 DEF RoundRight

LEMMA MeasuredRead ==
  ASSUME NEW meant \in DataMeasured, NEW bytes,
         bytes = RoundBytes(meant, Measurements(meant)), NEW p, Part(bytes, p),
         ParseRound(p) # Raised
  PROVE  RoundRight(ParseRound(p), meant)
<1>1. PICK data, flat, twr, parsed :
        /\ data = ParseRangingData(p) /\ flat = Measurements(meant) /\ parsed = ParseRound(p)
        /\ twr = ParseTwr(data.measurements_raw, data.mac_address_size_bytes)
  OBVIOUS
<1>2. /\ HeaderFields(meant) /\ TwrFields(meant) /\ meant.kind = "result"
      /\ DOMAIN meant = HeaderNames \cup TwrNames /\ meant.n_measurements \in Byte \ { 0 }
  <2>1. meant.mac_address \in Seq(Byte)
    BY DEF DataMeasured
  <2> QED
    BY <2>1 DEF DataMeasured, HeaderFields, TwrFields, Kind, HeaderNames, TwrNames
<1>3. /\ flat \in Seq(Byte)
      /\ meant.measurement_type = 1 => \E more \in Seq(Byte) : TwrFlat(meant, flat, more)
  BY ONLY <1>1, <1>2, MeasurementsAre
<1>4. data # Raised
  BY <1>1 DEF ParseRound
<1>5. HeaderIs(data, meant, flat)
  BY ONLY <1>1, <1>2, <1>3, <1>4, bytes = RoundBytes(meant, Measurements(meant)), Part(bytes, p),
     RoundHeaderRead
<1>6. /\ HeaderRight(data, meant) /\ Part(flat, data.measurements_raw)
      /\ DOMAIN data = HeaderNames \cup { "measurements_raw" }
  BY <1>5 DEF HeaderIs, HeaderNames
<1>7. ~(data.n_measurements < 1)
  <2>1. data.n_measurements = meant.n_measurements
    BY <1>6 DEF HeaderRight
  <2>2. meant.n_measurements \in Nat /\ meant.n_measurements # 0
    BY <1>2, ByteIsNat
  <2> QED
    BY <2>1, <2>2
<1>8. /\ twr # Raised
      /\ parsed = [ field \in DOMAIN twr \cup DOMAIN data |->
                      IF field \in DOMAIN twr THEN twr[field] ELSE data[field] ]
  BY <1>1, <1>4, <1>7 DEF ParseRound
<1>9. DOMAIN twr = { "kind" } \cup TwrNames /\ twr.kind = "result"
  BY <1>1, <1>8, TwrNamed
<1>10. ASSUME NEW field \in HeaderNames PROVE parsed[field] = meant[field]
  <2>1. CASE field = "kind"
    BY <1>2, <1>8, <1>9, <2>1
  <2>2. CASE field # "kind"
    <3>1. field \notin DOMAIN twr /\ field \in DOMAIN data
      BY <1>6, <1>9, <2>2 DEF HeaderNames, TwrNames
    <3>2. data[field] = meant[field]
      BY <1>2, <1>6, HeaderMatches
    <3> QED
      BY <1>8, <3>1, <3>2
  <2> QED
    BY <2>1, <2>2
<1>11. ASSUME NEW field \in TwrNames, meant.measurement_type = 1
       PROVE  parsed[field] = meant[field]
  <2>1. TwrRight(twr, meant)
    <3>1. PICK more \in Seq(Byte) : TwrFlat(meant, flat, more)
      BY <1>3, <1>11
    <3>2. twr = ParseTwr(data.measurements_raw, meant.mac_address_size_bytes)
      BY <1>1, <1>6 DEF HeaderRight
    <3> QED
      BY ONLY <1>2, <1>6, <1>8, <3>1, <3>2, TwrRead
  <2>2. twr[field] = meant[field]
    BY <2>1, <1>11 DEF TwrRight, TwrNames
  <2>3. parsed[field] = twr[field]
    BY <1>8, <1>9
  <2> QED
    BY <2>2, <2>3
<1> QED
  BY <1>1, <1>2, <1>10, <1>11 DEF RoundRight

-----------------------------------------------------------------------------
(* What the device writes.                                                  *)

\* A response: the status, and what comes after it.
Written(meant, rest) ==
  /\ meant.status \in Byte /\ rest \in Seq(Byte)
  /\ Encoded(meant) = << meant.status >> \o rest

VersionsRest(meant) ==
  VersionBytes(meant.uci_version) \o VersionBytes(meant.mac_version)
    \o VersionBytes(meant.phy_version) \o VersionBytes(meant.uci_test_version)
    \o meant.vendor_data

LEMMA Responds ==
  ASSUME request.method \in DOMAIN Methods
  PROVE  ~Notified
  BY MethodsAre DEF Notified, Notifications

LEMMA VersionType == ASSUME NEW v \in Version PROVE VersionBytes(v) \in Seq(Byte)
<1>1. PICK a, b : a = v[1] /\ b = v[2] * 16 + v[3]
  OBVIOUS
<1>2. a \in Byte /\ b \in Byte /\ VersionBytes(v) = << a, b >>
  BY <1>1, VersionBack
<1> QED
  BY <1>2

LEMMA InfoWritten ==
  ASSUME request.method = "get_device_info", NEW meant \in Answer(request.method)
  PROVE  /\ Written(meant, VersionsRest(meant))
         /\ meant \in [ kind : Kind, status : Byte, uci_version : Version,
                        mac_version : Version, phy_version : Version,
                        uci_test_version : Version, vendor_data : Seq(Byte) ]
<1>1. meant \in [ kind : Kind, status : Byte, uci_version : Version,
                  mac_version : Version, phy_version : Version,
                  uci_test_version : Version, vendor_data : Seq(Byte) ]
  BY DEF Answer
<1>2. Encoded(meant) = << meant.status >> \o VersionsRest(meant)
  <2>1. ~Notified
    BY MethodsAre, Responds
  <2> QED
    BY <2>1 DEF Encoded, ReplyBytes, VersionsRest
<1>3. VersionsRest(meant) \in Seq(Byte)
  <2>1. PICK v1, v2, v3, v4, tail :
          /\ v1 = VersionBytes(meant.uci_version) /\ v2 = VersionBytes(meant.mac_version)
          /\ v3 = VersionBytes(meant.phy_version) /\ v4 = VersionBytes(meant.uci_test_version)
          /\ tail = meant.vendor_data
    OBVIOUS
  <2>2. /\ v1 \in Seq(Byte) /\ v2 \in Seq(Byte) /\ v3 \in Seq(Byte) /\ v4 \in Seq(Byte)
        /\ tail \in Seq(Byte)
    BY <1>1, <2>1, VersionType
  <2>3. v1 \o v2 \in Seq(Byte)
    BY ONLY <2>2
  <2>4. v1 \o v2 \o v3 \in Seq(Byte)
    BY ONLY <2>2, <2>3
  <2>5. v1 \o v2 \o v3 \o v4 \in Seq(Byte)
    BY ONLY <2>2, <2>4
  <2>6. v1 \o v2 \o v3 \o v4 \o tail \in Seq(Byte)
    BY ONLY <2>2, <2>5
  <2> QED
    BY <2>1, <2>6 DEF VersionsRest
<1> QED
  BY <1>1, <1>2, <1>3 DEF Written

LEMMA CapsWritten ==
  ASSUME request.method = "get_caps_raw", NEW meant \in Answer(request.method)
  PROVE  /\ Written(meant, meant.caps)
         /\ meant \in [ kind : Kind, status : Byte, caps : Seq(Byte) ]
<1>1. meant \in [ kind : Kind, status : Byte, caps : Seq(Byte) ]
  BY DEF Answer
<1>2. ~Notified
  BY MethodsAre, Responds
<1>3. Encoded(meant) = << meant.status >> \o meant.caps
  BY <1>2 DEF Encoded, ReplyBytes
<1> QED
  BY <1>1, <1>3 DEF Written

LEMMA HandleWritten ==
  ASSUME request.method = "session_init", NEW meant \in Answer(request.method)
  PROVE  /\ Written(meant, ToBytes(meant.session_handle, 4))
         /\ meant \in [ kind : Kind, status : Byte, session_handle : Number(4) ]
<1>1. meant \in [ kind : Kind, status : Byte, session_handle : Number(4) ]
  BY DEF Answer
<1>2. ~Notified
  BY MethodsAre, Responds
<1>3. Encoded(meant) = << meant.status >> \o ToBytes(meant.session_handle, 4)
  BY <1>2 DEF Encoded, ReplyBytes
<1>4. ToBytes(meant.session_handle, 4) \in Seq(Byte)
  <2>1. 4 \in Nat
    OBVIOUS
  <2> QED
    BY <1>1, <2>1, NumberType
<1> QED
  BY <1>1, <1>3, <1>4 DEF Written

LEMMA ValueWritten ==
  ASSUME request.method \in { "get_session_state", "get_session_count" },
         NEW meant \in Answer(request.method)
  PROVE  /\ Written(meant, << meant.value >>)
         /\ meant \in [ kind : Kind, status : Byte, value : Byte ]
<1>1. meant \in [ kind : Kind, status : Byte, value : Byte ]
  BY DEF Answer
<1>2. ~Notified
  BY MethodsAre, Responds
<1>3. Encoded(meant) = << meant.status >> \o << meant.value >>
  BY <1>2 DEF Encoded, ReplyBytes
<1>4. << meant.value >> \in Seq(Byte)
  BY <1>1
<1> QED
  BY <1>1, <1>3, <1>4 DEF Written

LEMMA CountWritten ==
  ASSUME request.method = "get_ranging_count", NEW meant \in Answer(request.method)
  PROVE  \/ /\ Written(meant, ToBytes(meant.count, 4))
            /\ meant \in [ kind : Kind, status : { OK }, count : Number(4) ]
         \/ /\ Written(meant, << >>)
            /\ meant \in [ kind : Kind, status : Byte \ { OK }, count : { << "none" >> } ]
<1>1. ~Notified
  BY MethodsAre, Responds
<1>2. \/ meant \in [ kind : Kind, status : { OK }, count : Number(4) ]
      \/ meant \in [ kind : Kind, status : Byte \ { OK }, count : { << "none" >> } ]
  BY DEF Answer
<1>3. CASE meant \in [ kind : Kind, status : { OK }, count : Number(4) ]
  <2>1. Encoded(meant) = << meant.status >> \o ToBytes(meant.count, 4)
    BY <1>1, <1>3 DEF Encoded, ReplyBytes
  <2>2. ToBytes(meant.count, 4) \in Seq(Byte)
    <3>1. 4 \in Nat
      OBVIOUS
    <3> QED
      BY <1>3, <3>1, NumberType
  <2>3. meant.status \in Byte
    BY <1>3, ZeroByte DEF OK
  <2> QED
    BY <1>3, <2>1, <2>2, <2>3 DEF Written
<1>4. CASE meant \in [ kind : Kind, status : Byte \ { OK }, count : { << "none" >> } ]
  <2>1. Encoded(meant) = << meant.status >> \o << >>
    BY <1>1, <1>4 DEF Encoded, ReplyBytes
  <2>2. << >> \in Seq(Byte) /\ meant.status \in Byte
    BY <1>4
  <2> QED
    BY <1>4, <2>1, <2>2 DEF Written
<1> QED
  BY <1>2, <1>3, <1>4

ConfigRest(meant) == << Len(meant.rejected) >> \o FlattenSeq(Pairs(meant.rejected))

LEMMA ConfigWritten ==
  ASSUME request.method = "session_set_app_config", NEW meant \in Answer(request.method)
  PROVE  /\ Written(meant, ConfigRest(meant))
         /\ \/ meant \in [ kind : Kind, status : { OK }, rejected : { << >> } ]
            \/ meant \in [ kind : Kind, status : Byte \ { OK },
                           rejected : { r \in Seq(Rejection) : Len(r) <= 255 } ]
<1>1. ~Notified
  BY MethodsAre, Responds
<1>2. \/ meant \in [ kind : Kind, status : { OK }, rejected : { << >> } ]
      \/ meant \in [ kind : Kind, status : Byte \ { OK },
                     rejected : { r \in Seq(Rejection) : Len(r) <= 255 } ]
  BY DEF Answer
<1>3. PICK list, m, flat :
        list = meant.rejected /\ m = Len(list) /\ flat = FlattenSeq(Pairs(list))
  OBVIOUS
<1>4. meant.status \in Byte /\ list \in Seq(Rejection) /\ Len(list) <= 255
  <2>1. << >> \in Seq(Rejection) /\ Len(<< >>) <= 255
    OBVIOUS
  <2> QED
    BY <1>2, <1>3, <2>1, ZeroByte DEF OK
<1>5. m \in Byte
  <2>1. m \in Nat /\ m <= 255
    BY <1>3, <1>4
  <2> QED
    BY ONLY <2>1, ByteUpTo255
<1>6. flat \in Seq(Byte)
  <2>1. PairsLaid(list, flat)
    BY ONLY <1>3, <1>4, PairsFlat
  <2> QED
    BY <2>1 DEF PairsLaid
<1>7. ConfigRest(meant) = << m >> \o flat
  BY <1>3 DEF ConfigRest
<1>8. ConfigRest(meant) \in Seq(Byte)
  BY <1>5, <1>6, <1>7, JoinAt
<1>9. Encoded(meant) = << meant.status >> \o ConfigRest(meant)
  BY <1>1 DEF Encoded, ReplyBytes, ConfigRest, Pairs
<1> QED
  BY <1>2, <1>4, <1>8, <1>9 DEF Written

WithFields ==
  { "get_device_info", "get_caps_raw", "session_init", "get_session_state", "get_session_count",
    "get_ranging_count", "session_set_app_config" }

LEMMA StatusWritten ==
  ASSUME request.method \in DOMAIN Methods \ WithFields, NEW meant \in Answer(request.method)
  PROVE  Written(meant, << >>) /\ meant \in [ kind : Kind, status : Byte ]
<1>1. ~Notified
  BY Responds
<1>2. request.method \in { "reset", "session_deinit", "ranging_start", "ranging_stop" }
  BY MethodsAre DEF WithFields
<1>3. meant \in [ kind : Kind, status : Byte ]
  BY <1>2 DEF Answer
<1>4. Encoded(meant) = << meant.status >> \o << >>
  BY <1>1, <1>2 DEF Encoded, ReplyBytes
<1> QED
  BY <1>3, <1>4 DEF Written

LEMMA ResponseWritten ==
  ASSUME request.method \in DOMAIN Methods, NEW meant \in Answer(request.method)
  PROVE  \E rest : Written(meant, rest)
<1>1. CASE request.method \notin WithFields
  BY <1>1, StatusWritten
<1>2. CASE request.method \in WithFields
  BY <1>2, InfoWritten, CapsWritten, HandleWritten, ValueWritten, CountWritten, ConfigWritten
  DEF WithFields
<1> QED
  BY <1>1, <1>2

LEMMA StatusNotificationWritten ==
  ASSUME request.method = "SESSION_STATUS_NTF", NEW meant \in Answer(request.method)
  PROVE  /\ meant \in [ kind : Kind, session_id : Number(4), state : Byte, reason_code : Byte ]
         /\ Encoded(meant) = ToBytes(meant.session_id, 4) \o << meant.state, meant.reason_code >>
         /\ Encoded(meant) \in Seq(Byte)
<1>1. meant \in [ kind : Kind, session_id : Number(4), state : Byte, reason_code : Byte ]
  BY DEF Answer
<1>2. Notified
  BY DEF Notified, Notifications
<1>3. Encoded(meant) = ToBytes(meant.session_id, 4) \o << meant.state, meant.reason_code >>
  BY <1>2 DEF Encoded, NotificationBytes
<1>4. ToBytes(meant.session_id, 4) \in Seq(Byte) /\ << meant.state, meant.reason_code >> \in Seq(Byte)
  <2>1. 4 \in Nat
    OBVIOUS
  <2> QED
    BY <1>1, <2>1, NumberType
<1>5. Encoded(meant) \in Seq(Byte)
  BY <1>3, <1>4, JoinAt
<1> QED
  BY <1>1, <1>3, <1>5

LEMMA RoundWritten ==
  ASSUME request.method = "RANGING_DATA_NTF", NEW meant \in Answer(request.method)
  PROVE  /\ meant \in DataHeader({ 0 }) \cup DataMeasured
         /\ Encoded(meant) = RoundBytes(meant, Measurements(meant))
         /\ Encoded(meant) \in Seq(Byte)
<1>1. meant \in DataHeader({ 0 }) \cup DataMeasured
  BY DEF Answer
<1>2. Notified
  BY DEF Notified, Notifications
<1>3. Encoded(meant) = RoundBytes(meant, Measurements(meant))
  BY <1>2 DEF Encoded, NotificationBytes, RoundBytes, Measurements
<1>4. HeaderFields(meant) /\ Measurements(meant) \in Seq(Byte)
  <2>1. CASE meant \in DataHeader({ 0 })
    <3>1. HeaderFields(meant) /\ meant.n_measurements = 0
      BY <2>1, ZeroByte DEF DataHeader, HeaderFields
    <3>2. [ i \in 1 .. 0 |-> MeasurementBytes(meant) ] = << >>
      OBVIOUS
    <3>3. Measurements(meant) = << >>
      BY <3>1, <3>2, FlattenEmpty DEF Measurements
    <3> QED
      BY <3>1, <3>3
  <2>2. CASE meant \in DataMeasured
    <3>1. HeaderFields(meant)
      BY <2>2 DEF DataMeasured, HeaderFields
    <3>2. TwrFields(meant) /\ meant.n_measurements \in Byte \ { 0 }
      BY <2>2 DEF DataMeasured, TwrFields
    <3> QED
      BY <3>1, <3>2, MeasurementsAre
  <2> QED
    BY <1>1, <2>1, <2>2
<1>5. Encoded(meant) \in Seq(Byte)
  <2>1. PICK f1, f2, f3, f4, m, e, flat :
          /\ f1 = ToBytes(meant.sequence_number, 4) /\ f2 = ToBytes(meant.session_handle, 4)
          /\ f3 = ToBytes(meant.ranging_interval_ms, 4) /\ f4 = ToBytes(meant.primary_session_id, 4)
          /\ m = << meant.measurement_type, 0, IF meant.mac_address_size_bytes = 2 THEN 0 ELSE 1 >>
          /\ e = << 0, 0, 0, 0, meant.n_measurements >> /\ flat = Measurements(meant)
    OBVIOUS
  <2>2. HeaderParts(Encoded(meant), f1, f2, << 0 >>, f3, m, f4, e, flat)
    BY <1>3, <1>4, <2>1, RoundParts
  <2>3. /\ f1 \in Seq(Byte) /\ f2 \in Seq(Byte) /\ << 0 >> \in Seq(Byte) /\ f3 \in Seq(Byte)
        /\ m \in Seq(Byte) /\ f4 \in Seq(Byte) /\ e \in Seq(Byte) /\ flat \in Seq(Byte)
        /\ Encoded(meant) = f1 \o f2 \o << 0 >> \o f3 \o m \o f4 \o e \o flat
    BY <2>2 DEF HeaderParts
  <2>4. f1 \o f2 \in Seq(Byte)
    BY ONLY <2>3
  <2>5. f1 \o f2 \o << 0 >> \in Seq(Byte)
    BY ONLY <2>3, <2>4
  <2>6. f1 \o f2 \o << 0 >> \o f3 \in Seq(Byte)
    BY ONLY <2>3, <2>5
  <2>7. f1 \o f2 \o << 0 >> \o f3 \o m \in Seq(Byte)
    BY ONLY <2>3, <2>6
  <2>8. f1 \o f2 \o << 0 >> \o f3 \o m \o f4 \in Seq(Byte)
    BY ONLY <2>3, <2>7
  <2>9. f1 \o f2 \o << 0 >> \o f3 \o m \o f4 \o e \in Seq(Byte)
    BY ONLY <2>3, <2>8
  <2> QED
    BY ONLY <2>3, <2>9
<1> QED
  BY <1>1, <1>3, <1>5

LEMMA EncodedType ==
  ASSUME request.method \in Names, NEW meant \in Answer(request.method)
  PROVE  Encoded(meant) \in Seq(Byte)
<1>1. CASE request.method \in DOMAIN Methods
  <2>1. PICK rest : Written(meant, rest)
    BY <1>1, ResponseWritten
  <2>2. << meant.status >> \in Seq(Byte) /\ rest \in Seq(Byte)
        /\ Encoded(meant) = << meant.status >> \o rest
    BY <2>1 DEF Written
  <2> QED
    BY <2>2, JoinAt
<1>2. CASE request.method \in Notifications
  BY <1>2, StatusNotificationWritten, RoundWritten DEF Notifications
<1> QED
  BY <1>1, <1>2 DEF Names

-----------------------------------------------------------------------------
(* What the client reads.                                                   *)

\* The fields that take whatever bytes are left, or as many as are left.
Loose == { "caps", "vendor_data", "count" }

LEMMA Looser ==
  ASSUME NEW parsed, NEW meant, NEW p, NEW bytes, NEW loose,
         Faithful(parsed, meant, p, bytes, loose), loose \subseteq Loose
  PROVE  Faithful(parsed, meant, p, bytes, Loose)
  BY DEF Faithful

LEMMA WrittenReply ==
  ASSUME NEW meant, NEW rest, Written(meant, rest),
         NEW n \in 0 .. Len(Encoded(meant)), NEW p, p = SubSeq(Encoded(meant), 1, n)
  PROVE  Reply(meant.status, rest, Encoded(meant), p) /\ p \in Seq(Byte) /\ Len(p) \in Nat
<1>1. Reply(meant.status, rest, Encoded(meant), p)
  BY DEF Written, Reply
<1>2. ReplyRead(meant.status, rest, Encoded(meant), p)
  BY <1>1, ReplyIs
<1> QED
  BY <1>1, <1>2 DEF ReplyRead

\* A response that is parsed is as long as its parser wants it.
LEMMA LongEnough ==
  ASSUME NEW method, method # "session_set_app_config", NEW p, Len(p) \in Nat,
         ParseResponse(method, p) # Raised
  PROVE  MinimumSize(method) <= Len(p)
<1>1. ~(Len(p) < MinimumSize(method))
  BY DEF ParseResponse
<1>2. MinimumSize(method) \in { 1, 2, 5, 9 }
  BY DEF MinimumSize
<1> QED
  BY <1>1, <1>2

LEMMA ResponseRight ==
  ASSUME request.method \in DOMAIN Methods, NEW meant \in Answer(request.method),
         NEW n \in 0 .. Len(Encoded(meant)), NEW p, p = SubSeq(Encoded(meant), 1, n),
         ParseResponse(request.method, p) # Raised
  PROVE  Faithful(ParseResponse(request.method, p), meant, p, Encoded(meant), Loose)
<1>1. PICK method, parsed, bytes :
        method = request.method /\ parsed = ParseResponse(method, p) /\ bytes = Encoded(meant)
  OBVIOUS
<1>2. parsed # Raised
  BY <1>1
<1>3. ASSUME method # "session_set_app_config"
      PROVE  Len(p) \in Nat /\ MinimumSize(method) <= Len(p)
  <2>1. PICK rest : Written(meant, rest)
    BY <1>1, ResponseWritten
  <2>2. Len(p) \in Nat
    BY <2>1, WrittenReply
  <2> QED
    BY <1>1, <1>2, <1>3, <2>2, LongEnough
<1>4. CASE method = "get_device_info"
  <2>1. Reply(meant.status, VersionsRest(meant), bytes, p)
    BY <1>1, <1>4, InfoWritten, WrittenReply
  <2>2. Len(p) >= 9
    BY <1>3, <1>4 DEF MinimumSize
  <2>3. parsed = DeviceInfo(p)
    BY <1>1, <1>2, <1>4 DEF ParseResponse
  <2>4. Faithful(DeviceInfo(p), meant, p, bytes, { "vendor_data" })
    BY <1>1, <1>4, <2>1, <2>2, InfoWritten, InfoRead DEF VersionsRest
  <2> QED
    BY <1>1, <2>3, <2>4, Looser DEF Loose
<1>5. CASE method = "get_caps_raw"
  <2>1. Reply(meant.status, meant.caps, bytes, p)
    BY <1>1, <1>5, CapsWritten, WrittenReply
  <2>2. Len(p) >= 1
    BY <1>3, <1>5 DEF MinimumSize
  <2>3. parsed = [ kind |-> "result", status |-> p[1], caps |-> From(p, 1) ]
    BY <1>1, <1>2, <1>5 DEF ParseResponse
  <2>4. Faithful(parsed, meant, p, bytes, { "caps" })
    BY <1>1, <1>5, <2>1, <2>2, <2>3, CapsWritten, CapsRead
  <2> QED
    BY <1>1, <2>4, Looser DEF Loose
<1>6. CASE method = "session_init"
  <2>1. Reply(meant.status, ToBytes(meant.session_handle, 4), bytes, p)
    BY <1>1, <1>6, HandleWritten, WrittenReply
  <2>2. Len(p) >= 5
    BY <1>3, <1>6 DEF MinimumSize
  <2>3. parsed = SessionInitResult(p)
    BY <1>1, <1>2, <1>6 DEF ParseResponse
  <2>4. Faithful(SessionInitResult(p), meant, p, bytes, { })
    BY <1>1, <1>6, <2>1, <2>2, HandleWritten, HandleRead
  <2> QED
    BY <1>1, <2>3, <2>4, Looser DEF Loose
<1>7. CASE method \in { "get_session_state", "get_session_count" }
  <2>1. Reply(meant.status, << meant.value >>, bytes, p)
    BY <1>1, <1>7, ValueWritten, WrittenReply
  <2>2. Len(p) >= 2
    BY <1>3, <1>7 DEF MinimumSize
  <2>3. parsed = [ kind |-> "result", status |-> p[1], value |-> p[2] ]
    BY <1>1, <1>2, <1>7 DEF ParseResponse
  <2>4. Faithful(parsed, meant, p, bytes, { })
    BY <1>1, <1>7, <2>1, <2>2, <2>3, ValueWritten, ValueRead
  <2> QED
    BY <1>1, <2>4, Looser DEF Loose
<1>8. CASE method = "get_ranging_count"
  <2>1. Len(p) >= 1
    BY <1>3, <1>8 DEF MinimumSize
  <2>2. parsed = RangingCount(p)
    BY <1>1, <1>2, <1>8 DEF ParseResponse
  <2>3. CASE /\ Written(meant, ToBytes(meant.count, 4))
             /\ meant \in [ kind : Kind, status : { OK }, count : Number(4) ]
    <3>1. Reply(meant.status, ToBytes(meant.count, 4), bytes, p)
      BY <1>1, <2>3, WrittenReply
    <3>2. Faithful(RangingCount(p), meant, p, bytes, { "count" })
      BY <2>1, <2>3, <3>1, CountRead
    <3> QED
      BY <1>1, <2>2, <3>2, Looser DEF Loose
  <2>4. CASE /\ Written(meant, << >>)
             /\ meant \in [ kind : Kind, status : Byte \ { OK }, count : { << "none" >> } ]
    <3>1. Reply(meant.status, << >>, bytes, p)
      BY <1>1, <2>4, WrittenReply
    <3>2. Faithful(RangingCount(p), meant, p, bytes, { "count" })
      BY <2>1, <2>4, <3>1, NoCountRead
    <3> QED
      BY <1>1, <2>2, <3>2, Looser DEF Loose
  <2> QED
    BY <1>1, <1>8, <2>3, <2>4, CountWritten
<1>9. CASE method = "session_set_app_config"
  <2>1. Reply(meant.status, ConfigRest(meant), bytes, p)
    BY <1>1, <1>9, ConfigWritten, WrittenReply
  <2>2. parsed = ParseAppConfigResponse(p)
    BY <1>1, <1>9 DEF ParseResponse
  <2>3. Faithful(ParseAppConfigResponse(p), meant, p, bytes, { })
    BY <1>1, <1>2, <1>9, <2>1, <2>2, ConfigWritten, ConfigAccepted, ConfigRefused DEF ConfigRest
  <2> QED
    BY <1>1, <2>2, <2>3, Looser DEF Loose
<1>10. CASE method \notin WithFields
  <2>1. Reply(meant.status, << >>, bytes, p)
    BY <1>1, <1>10, StatusWritten, WrittenReply
  <2>2. Len(p) >= 1
    BY <1>3, <1>10 DEF MinimumSize, WithFields
  <2>3. parsed = [ kind |-> "result", status |-> p[1] ]
    BY <1>1, <1>2, <1>10 DEF ParseResponse, WithFields
  <2>4. Faithful(parsed, meant, p, bytes, { })
    BY <1>1, <1>10, <2>1, <2>2, <2>3, StatusWritten, StatusRead
  <2> QED
    BY <1>1, <2>4, Looser DEF Loose
<1> QED
  BY <1>4, <1>5, <1>6, <1>7, <1>8, <1>9, <1>10 DEF WithFields

\* What a notification says, field by field.
NotificationRight(parsed, meant) ==
  \A field \in DOMAIN meant :
    \/ parsed[field] = meant[field]
    \/ /\ request.method = "RANGING_DATA_NTF" /\ meant.measurement_type # 1
       /\ field \in TwrNames

LEMMA NotificationRead ==
  ASSUME request.method \in Notifications, NEW meant \in Answer(request.method),
         NEW n \in 0 .. Len(Encoded(meant)), NEW p, p = SubSeq(Encoded(meant), 1, n),
         ParseNotification(request.method, p) # Raised
  PROVE  NotificationRight(ParseNotification(request.method, p), meant)
<1>1. PICK bytes : bytes = Encoded(meant)
  OBVIOUS
<1>2. Part(bytes, p)
  <2>1. bytes \in Seq(Byte)
    BY <1>1, EncodedType DEF Names
  <2> QED
    BY <1>1, <2>1, PartIs
<1>3. CASE request.method = "SESSION_STATUS_NTF"
  <2>1. ParseNotification(request.method, p) = ParseSessionStatus(p)
    BY <1>3 DEF ParseNotification
  <2>2. Faithful(ParseSessionStatus(p), meant, p, bytes, { })
    BY <1>1, <1>2, <1>3, <2>1, StatusNotificationWritten, SessionStatusRead
  <2> QED
    BY <2>1, <2>2 DEF Faithful, NotificationRight
<1>4. CASE request.method = "RANGING_DATA_NTF"
  <2>1. ParseNotification(request.method, p) = ParseRound(p)
    BY <1>4 DEF ParseNotification
  <2>2. RoundRight(ParseRound(p), meant)
    BY <1>1, <1>2, <1>4, <2>1, RoundWritten, HeaderOnlyRead, MeasuredRead
  <2> QED
    BY <1>4, <2>1, <2>2 DEF RoundRight, NotificationRight
<1> QED
  BY <1>3, <1>4 DEF Notifications

-----------------------------------------------------------------------------
(* The inductive invariant.                                                 *)

LEMMA AnswerKind ==
  ASSUME NEW method \in Names, NEW meant \in Answer(method)
  PROVE  "kind" \in DOMAIN meant /\ meant.kind = "result"
<1>1. CASE method \in { "SESSION_STATUS_NTF", "RANGING_DATA_NTF" }
  <2>1. CASE method = "SESSION_STATUS_NTF"
    BY <2>1 DEF Answer, Kind
  <2>2. CASE method = "RANGING_DATA_NTF"
    <3>1. meant \in DataHeader({ 0 }) \cup DataMeasured
      BY <2>2 DEF Answer
    <3> QED
      BY <3>1 DEF DataHeader, DataMeasured, Kind
  <2> QED
    BY <1>1, <2>1, <2>2
<1>2. CASE method \notin { "SESSION_STATUS_NTF", "RANGING_DATA_NTF" }
  BY <1>2 DEF Answer, Kind
<1> QED
  BY <1>1, <1>2

\* What Answered says of the bytes and of what they are parsed to.
ParsedRight ==
  IF Notified THEN NotificationRight(Parsed, answer)
  ELSE Faithful(Parsed, answer, payload, Encoded(answer), Loose)

LEMMA AnsweredRead ==
  ASSUME request \in Requests, Answered, Parsed # Raised
  PROVE  ParsedRight /\ Parsed.kind = "result"
<1>1. request.method \in Names /\ answer \in Answer(request.method)
  BY RequestFields, AnswersAssumption DEF Answered
<1>2. PICK n \in 0 .. Len(Encoded(answer)) : payload = SubSeq(Encoded(answer), 1, n)
  BY DEF Answered
<1>3. "kind" \in DOMAIN answer /\ answer.kind = "result"
  BY <1>1, AnswerKind
<1>4. CASE Notified
  <2>1. Parsed = ParseNotification(request.method, payload) /\ request.method \in Notifications
    BY <1>4 DEF Parsed, Notified
  <2>2. NotificationRight(Parsed, answer)
    BY <1>1, <1>2, <2>1, NotificationRead
  <2>3. Parsed.kind = "result"
    BY <1>3, <2>2 DEF NotificationRight, TwrNames
  <2> QED
    BY <1>4, <2>2, <2>3 DEF ParsedRight
<1>5. CASE ~Notified
  <2>1. Parsed = ParseResponse(request.method, payload) /\ request.method \in DOMAIN Methods
    BY <1>1, <1>5 DEF Parsed, Notified, Names
  <2>2. Faithful(Parsed, answer, payload, Encoded(answer), Loose)
    BY <1>1, <1>2, <2>1, ResponseRight
  <2>3. Parsed.kind = "result"
    BY <1>3, <2>2 DEF Faithful, Loose
  <2> QED
    BY <1>5, <2>2, <2>3 DEF ParsedRight
<1> QED
  BY <1>4, <1>5

\* What a call means does not depend on how far it has got.
LEMMA EncodedNext ==
  ASSUME request' = request, NEW meant, answer' = meant
  PROVE  Encoded(answer)' = Encoded(meant)
  BY DEF Encoded, Notified, NotificationBytes, ReplyBytes

LEMMA AnsweredNext ==
  ASSUME request' = request, answer' = answer, payload' = payload
  PROVE  Answered' <=> Answered
<1>1. Encoded(answer)' = Encoded(answer)
  BY EncodedNext
<1> QED
  BY <1>1 DEF Answered

LEMMA ParsedNext ==
  ASSUME request' = request, payload' = payload
  PROVE  Parsed' = Parsed
  BY DEF Parsed, Notified

LEMMA WholeIsMessage ==
  ASSUME request \in Requests, ~Notified, RequestPayload(request) # Raised
  PROVE  /\ request.method \in DOMAIN Methods
         /\ Whole \in Message /\ Whole.payload = RequestPayload(request).bytes
         /\ Whole.payload = << >> => request.method \in WithoutHandle
<1>1. request.method \in DOMAIN Methods
  BY RequestFields DEF Names, Notified
<1>2. /\ RequestPayload(request).bytes \in Seq(Byte)
      /\ RequestPayload(request).bytes = << >> => request.method \in WithoutHandle
  BY <1>1, PayloadType
<1>3. Whole \in Message /\ Whole.payload = RequestPayload(request).bytes
  BY <1>1, <1>2, CommandIsMessage DEF Whole
<1> QED
  BY <1>1, <1>2, <1>3

LEMMA InitSafe == ASSUME Init PROVE SafeInv
<1>1. result.kind = "none" /\ result = NoResult
  BY DEF Init, NoResult
<1>2. TypeOK
  BY <1>1 DEF Init, TypeOK
<1>3. WireInv
  BY DEF Init, WireInv
<1>4. AnswerInv
  BY <1>1 DEF Init, AnswerInv
<1> QED
  BY <1>2, <1>3, <1>4 DEF SafeInv

LEMMA CallSafe == ASSUME SafeInv, Call PROVE SafeInv'
<1>1. /\ request \in Requests /\ packets = << >> /\ received = NoMessage
      /\ ~Notified /\ result = NoResult
  BY DEF SafeInv, TypeOK, WireInv, AnswerInv, Call
<1>2. /\ request' = request /\ received' = received /\ answer' = answer /\ payload' = payload
      /\ phase = "calling"
  BY DEF Call
<1>3. ~Notified'
  BY <1>1, <1>2 DEF Notified
<1>4. CASE RequestPayload(request) = Raised
  <2>1. phase' = "returned" /\ result' = Raised /\ packets' = packets
    BY <1>4 DEF Call
  <2>2. TypeOK'
    <3>1. Raised.kind = "raised"
      BY DEF Raised
    <3> QED
      BY <1>2, <2>1, <3>1 DEF SafeInv, TypeOK
  <2>3. WireInv'
    BY <1>3, <2>1 DEF WireInv
  <2>4. AnswerInv'
    BY <2>1 DEF AnswerInv
  <2> QED
    BY <2>2, <2>3, <2>4 DEF SafeInv
<1>5. CASE RequestPayload(request) # Raised
  <2>1. phase' = "sent" /\ packets' = Cut(Whole) /\ result' = result
    BY <1>5 DEF Call, Cut, Whole
  <2>2. PICK all : all = Cut(Whole)
    OBVIOUS
  <2>3. all \in Seq(Packet) /\ Len(all) \in Nat
    <3>1. Whole \in Message
      BY <1>1, <1>5, WholeIsMessage
    <3> QED
      BY <2>2, <3>1, CutParts
  <2>4. TypeOK'
    BY <1>2, <2>1, <2>2, <2>3 DEF SafeInv, TypeOK
  <2>5. WireInv'
    <3>1. Whole' = Whole /\ RequestPayload(request)' = RequestPayload(request)
      BY <1>2 DEF Whole
    <3>2. 0 \in 0 .. Len(all) /\ all = SubSeq(all, 0 + 1, Len(all))
      BY <2>3
    <3>3. received' = Gathered(Whole, 0)
      BY <1>1, <1>2 DEF Gathered
    <3>4. \E k \in 0 .. Len(Cut(Whole)) :
            /\ packets' = SubSeq(Cut(Whole), k + 1, Len(Cut(Whole)))
            /\ received' = Gathered(Whole, k)
      BY <2>1, <2>2, <3>2, <3>3
    <3> QED
      BY <1>3, <1>5, <2>1, <3>1, <3>4 DEF WireInv
  <2>6. AnswerInv'
    BY <1>1, <2>1 DEF AnswerInv, NoResult
  <2> QED
    BY <2>4, <2>5, <2>6 DEF SafeInv
<1> QED
  BY <1>4, <1>5

\* The packet that is next, and those after it.
LEMMA NextPacket ==
  ASSUME NEW all \in Seq(Packet), NEW k \in 0 .. Len(all),
         NEW rest, rest = SubSeq(all, k + 1, Len(all)), rest # << >>
  PROVE  /\ k \in 0 .. Len(all) - 1 /\ Head(rest) = all[k + 1]
         /\ Tail(rest) = SubSeq(all, (k + 1) + 1, Len(all))
         /\ Tail(rest) \in Seq(Packet)
<1>1. PICK n \in Nat : n = Len(all)
  OBVIOUS
<1>0. PICK i : i = k + 1
  OBVIOUS
<1>2. /\ rest \in Seq(Packet) /\ Len(rest) = n - k
      /\ \A j \in 1 .. n - k : rest[j] = all[j + k]
  BY <1>1, DropAt
<1>3. n - k # 0
  BY <1>2
<1>4. k \in 0 .. n - 1 /\ i \in 0 .. n /\ 1 \in 1 .. n - k /\ 1 + k = i
  BY <1>0, <1>1, <1>3
<1>5. /\ Tail(rest) \in Seq(Packet) /\ Head(rest) = rest[1] /\ Len(Tail(rest)) = Len(rest) - 1
      /\ \A j \in 1 .. Len(rest) - 1 : Tail(rest)[j] = rest[j + 1]
  BY ONLY <1>2, rest # << >>, TailAt
<1>6. PICK later : later = SubSeq(all, i + 1, Len(all))
  OBVIOUS
<1>7. /\ later \in Seq(Packet) /\ Len(later) = n - i
      /\ \A j \in 1 .. n - i : later[j] = all[j + i]
  BY <1>0, <1>1, <1>4, <1>6, DropAt
<1>8. Tail(rest) = later
  <2>1. Len(Tail(rest)) = n - i
    BY <1>0, <1>1, <1>2, <1>5
  <2>2. ASSUME NEW j \in 1 .. n - i PROVE Tail(rest)[j] = later[j]
    <3>1. j + 1 \in 1 .. n - k /\ j \in 1 .. Len(rest) - 1 /\ (j + 1) + k = j + i
      BY <1>0, <1>1, <1>2
    <3> QED
      BY <1>2, <1>5, <1>7, <3>1
  <2> QED
    BY <1>5, <1>7, <2>1, <2>2, SameItems
<1> QED
  BY <1>0, <1>1, <1>2, <1>4, <1>5, <1>6, <1>8

LEMMA ReceiveSafe == ASSUME SafeInv, Receive PROVE SafeInv'
<1>1. /\ phase = "sent" /\ packets # << >> /\ phase' = phase /\ request' = request
      /\ answer' = answer /\ payload' = payload /\ result' = result
      /\ received' = Merged(received, Head(packets)) /\ packets' = Tail(packets)
  BY DEF Receive
<1>2. ~Notified /\ request \in Requests
  BY <1>1 DEF SafeInv, WireInv, TypeOK
<1>3. /\ RequestPayload(request) # Raised
      /\ \E k \in 0 .. Len(Cut(Whole)) :
           /\ packets = SubSeq(Cut(Whole), k + 1, Len(Cut(Whole)))
           /\ received = Gathered(Whole, k)
  BY <1>1, <1>2 DEF SafeInv, WireInv
<1>4. PICK k \in 0 .. Len(Cut(Whole)) :
        /\ packets = SubSeq(Cut(Whole), k + 1, Len(Cut(Whole)))
        /\ received = Gathered(Whole, k)
  BY <1>3
<1>5. PICK message, all : message = Whole /\ all = Cut(Whole)
  OBVIOUS
<1>6. message \in Message /\ all \in Seq(Packet) /\ Len(all) \in Nat
  BY <1>2, <1>3, <1>5, WholeIsMessage, CutParts
<1>7. /\ k \in 0 .. Len(all) - 1 /\ Head(packets) = all[k + 1]
      /\ Tail(packets) = SubSeq(all, (k + 1) + 1, Len(all)) /\ Tail(packets) \in Seq(Packet)
  BY <1>1, <1>4, <1>5, <1>6, NextPacket
<1>8. received' = Gathered(message, k + 1) /\ Gathered(message, k + 1) \in Message
  BY <1>1, <1>4, <1>5, <1>6, <1>7, GatherStep
<1>9. TypeOK'
  BY <1>1, <1>7, <1>8 DEF SafeInv, TypeOK
<1>10. WireInv'
  <2>1. ~Notified' /\ Whole' = Whole /\ RequestPayload(request)' = RequestPayload(request)
    BY <1>1, <1>2 DEF Notified, Whole
  <2>2. k + 1 \in 0 .. Len(all)
    BY <1>6, <1>7
  <2>3. \E j \in 0 .. Len(Cut(Whole)) :
          /\ packets' = SubSeq(Cut(Whole), j + 1, Len(Cut(Whole)))
          /\ received' = Gathered(Whole, j)
    BY <1>1, <1>5, <1>7, <1>8, <2>2
  <2> QED
    BY <1>1, <1>3, <2>1, <2>3 DEF WireInv
<1>11. AnswerInv'
  <2>1. result' = NoResult
    BY <1>1 DEF SafeInv, AnswerInv
  <2> QED
    BY <1>1, <2>1 DEF AnswerInv, NoResult
<1> QED
  BY <1>9, <1>10, <1>11 DEF SafeInv

LEMMA RespondSafe == ASSUME SafeInv, Respond PROVE SafeInv'
<1>1. /\ phase = "sent" /\ phase' = "answered" /\ request' = request /\ packets' = packets
      /\ received' = received /\ result' = result
  BY DEF Respond
<1>2. PICK meant \in Answers(request.method) :
        /\ answer' = meant
        /\ \E n \in 0 .. Len(Encoded(meant)) : payload' = SubSeq(Encoded(meant), 1, n)
  BY DEF Respond
<1>3. PICK n \in 0 .. Len(Encoded(meant)) : payload' = SubSeq(Encoded(meant), 1, n)
  BY <1>2
<1>4. request \in Requests /\ result = NoResult
  BY <1>1 DEF SafeInv, TypeOK, AnswerInv
<1>5. request.method \in Names /\ meant \in Answer(request.method)
  BY <1>4, RequestFields, AnswersAssumption
<1>6. payload' \in Seq(Byte)
  BY <1>3, <1>5, EncodedType, TakeIsBegin
<1>7. TypeOK'
  BY <1>1, <1>2, <1>6 DEF SafeInv, TypeOK
<1>8. WireInv'
  <2>1. Notified' = Notified
    BY <1>1 DEF Notified
  <2> QED
    BY <1>1, <2>1 DEF SafeInv, WireInv
<1>9. AnswerInv'
  <2>1. Encoded(answer)' = Encoded(meant)
    BY <1>1, <1>2, EncodedNext
  <2>2. Answered'
    BY <1>1, <1>2, <1>3, <2>1 DEF Answered
  <2> QED
    BY <1>1, <1>4, <2>2 DEF AnswerInv, NoResult
<1> QED
  BY <1>7, <1>8, <1>9 DEF SafeInv

LEMMA ReturnSafe == ASSUME SafeInv, Return PROVE SafeInv'
<1>1. /\ phase = "answered" /\ phase' = "returned" /\ request' = request /\ packets' = packets
      /\ received' = received /\ answer' = answer /\ payload' = payload /\ result' = Parsed
  BY DEF Return, Parsed
<1>2. request \in Requests /\ Answered
  BY <1>1 DEF SafeInv, TypeOK, AnswerInv
<1>3. TypeOK'
  <2>1. Parsed = Raised \/ Parsed.kind = "result"
    BY <1>2, AnsweredRead
  <2>2. Parsed.kind \in { "none", "raised", "result" }
    BY <2>1 DEF Raised
  <2> QED
    BY <1>1, <2>2 DEF SafeInv, TypeOK
<1>4. WireInv'
  <2>1. Notified' = Notified
    BY <1>1 DEF Notified
  <2> QED
    BY <1>1, <2>1 DEF SafeInv, WireInv
<1>5. AnswerInv'
  BY <1>1, <1>2, AnsweredNext, ParsedNext DEF AnswerInv
<1> QED
  BY <1>3, <1>4, <1>5 DEF SafeInv

LEMMA StutterSafe == ASSUME SafeInv, UNCHANGED vars PROVE SafeInv'
<1>1. /\ phase' = phase /\ request' = request /\ packets' = packets /\ received' = received
      /\ answer' = answer /\ payload' = payload /\ result' = result
  BY DEF vars
<1>2. TypeOK'
  BY <1>1 DEF SafeInv, TypeOK
<1>3. WireInv'
  BY <1>1 DEF SafeInv, WireInv, Notified, Whole
<1>4. AnswerInv'
  BY <1>1, AnsweredNext, ParsedNext DEF SafeInv, AnswerInv
<1> QED
  BY <1>2, <1>3, <1>4 DEF SafeInv

-----------------------------------------------------------------------------
(* The properties.                                                          *)

LEMMA NextSafe == ASSUME SafeInv, [Next]_vars PROVE SafeInv'
  BY CallSafe, ReceiveSafe, RespondSafe, ReturnSafe, StutterSafe DEF Next

\* The inductive invariant: at every point of a call the packets on the line and
\* the fragments that the device has put together are the two parts of the one
\* encoded command, and what the client parses is the beginning of an answer.
THEOREM SafeInvariant == Spec => []SafeInv
  BY InitSafe, NextSafe, PTL DEF Spec

\* The types of all variables.
THEOREM TypeCorrect == Spec => []TypeOK
<1>1. SafeInv => TypeOK
  BY DEF SafeInv
<1> QED
  BY <1>1, SafeInvariant, PTL

\* Only a message without payload has an empty last packet.
LEMMA LastPacketEmpty ==
  ASSUME NEW m \in Message, NEW first, first = Cut(m), NEW n, n = Len(first),
         first[n].payload = << >>
  PROVE  n = 1 /\ m.payload = << >>
<1>1. PICK length, before : length = Len(m.payload) /\ before = (n - 1) * MaxPayloadSize
  OBVIOUS
<1>2. n \in Nat \ {0} /\ PartOf(m, MaxPayloadSize, first, n)
  BY CutParts
<1>3. m.payload \in Seq(Byte) /\ length \in Nat
  BY <1>1, MessageFields
<1>4. n = PacketCount(length, MaxPayloadSize)
  <2>1. PICK c : c = PacketCount(length, MaxPayloadSize)
    OBVIOUS
  <2>2. c \in Nat
    <3>1. MaxPayloadSize \in Nat \ {0}
      BY DEF MaxPayloadSize
    <3> QED
      BY ONLY <1>3, <2>1, <3>1, Counted
  <2>3. DOMAIN first = 1 .. c
    BY <1>1, <2>1 DEF Cut, SplitIntoPackets
  <2>4. first \in Seq(Packet)
    BY CutParts
  <2> QED
    BY <1>2, <2>1, <2>2, <2>3, <2>4
<1>5. before <= length /\ first[n].payload = SubSeq(m.payload, before + 1, length) /\ before \in Nat
  BY <1>1, <1>2 DEF PartOf
<1>6. before = length
  <2>1. Len(SubSeq(m.payload, before + 1, length)) = length - before
    BY <1>1, <1>3, <1>5, SliceAt
  <2>2. length - before = 0
    <3>1. SubSeq(m.payload, before + 1, length) = << >>
      BY <1>5
    <3>2. Len(<< >>) = 0
      OBVIOUS
    <3> QED
      BY ONLY <2>1, <3>1, <3>2
  <2> QED
    BY <1>3, <1>5, <2>2
<1>7. n = 1
  <2>1. MaxPayloadSize \in Nat \ {0}
    BY DEF MaxPayloadSize
  <2>2. n > 1 => (n - 1) * MaxPayloadSize < length
    BY ONLY <1>3, <1>4, <2>1, Counted
  <2> QED
    BY <1>1, <1>2, <1>3, <1>6, <2>2
<1>8. length = 0
  <2>1. (n - 1) * MaxPayloadSize = 0
    BY <1>7 DEF MaxPayloadSize
  <2> QED
    BY <1>1, <1>6, <2>1
<1>9. m.payload = << >>
  BY ONLY <1>1, <1>3, <1>8, NoItems
<1> QED
  BY <1>7, <1>9

LEMMA BoundaryFlags == ASSUME SafeInv PROVE BoundaryFlagEndsMessage
<1> SUFFICES ASSUME phase = "sent", packets # << >>
             PROVE  /\ \A i \in 1 .. Len(packets) :
                         /\ packets[i] \in Packet
                         /\ packets[i].pbf <=> i < Len(packets)
                    /\ packets[Len(packets)].payload = << >> =>
                         received = NoMessage /\ request.method \in WithoutHandle
  BY DEF BoundaryFlagEndsMessage
<1>1. ~Notified /\ request \in Requests
  BY DEF SafeInv, WireInv, TypeOK
<1>2. /\ RequestPayload(request) # Raised
      /\ \E k \in 0 .. Len(Cut(Whole)) :
           /\ packets = SubSeq(Cut(Whole), k + 1, Len(Cut(Whole)))
           /\ received = Gathered(Whole, k)
  BY <1>1 DEF SafeInv, WireInv
<1>3. PICK k \in 0 .. Len(Cut(Whole)) :
        /\ packets = SubSeq(Cut(Whole), k + 1, Len(Cut(Whole)))
        /\ received = Gathered(Whole, k)
  BY <1>2
<1>4. PICK message, all, n : message = Whole /\ all = Cut(Whole) /\ n = Len(all)
  OBVIOUS
<1>5. /\ message \in Message /\ all \in Seq(Packet) /\ n \in Nat \ {0} /\ all = Cut(message)
      /\ \A i \in 1 .. n : PartOf(message, MaxPayloadSize, all, i)
  BY <1>1, <1>2, <1>4, WholeIsMessage, CutParts
<1>6. /\ packets \in Seq(Packet) /\ Len(packets) = n - k
      /\ \A i \in 1 .. n - k : packets[i] = all[i + k]
  BY <1>3, <1>4, <1>5, DropAt
<1>7. k \in 0 .. n - 1
  BY <1>3, <1>4, <1>5, <1>6
<1>8. ASSUME NEW i \in 1 .. Len(packets)
      PROVE  packets[i] \in Packet /\ (packets[i].pbf <=> i < Len(packets))
  <2>0. Len(packets) = n - k /\ i \in 1 .. n - k
    BY <1>6
  <2>1. i + k \in 1 .. n /\ i \in 1 .. n - k /\ (i + k # n <=> i < n - k)
    BY ONLY <1>5, <1>7, <2>0
  <2>2. packets[i] = all[i + k]
    BY <1>6, <2>1
  <2>3. all[i + k].pbf = (i + k # n)
    BY <1>4, <1>5, <2>1 DEF PartOf
  <2>4. packets[i] \in Packet
    BY <1>6
  <2>5. packets[i].pbf = (i + k # n)
    BY <2>2, <2>3
  <2> QED
    BY ONLY <2>0, <2>1, <2>4, <2>5
<1>9. ASSUME packets[Len(packets)].payload = << >>
      PROVE  received = NoMessage /\ request.method \in WithoutHandle
  <2>1. all[n].payload = << >>
    <3>1. n - k \in 1 .. n - k /\ (n - k) + k = n
      BY <1>5, <1>7
    <3> QED
      BY <1>6, <1>9, <3>1
  <2>2. n = 1 /\ message.payload = << >>
    BY <1>4, <1>5, <2>1, LastPacketEmpty
  <2>3. k = 0
    BY <1>7, <2>2
  <2>4. received = NoMessage
    BY <1>3, <2>3 DEF Gathered
  <2>5. request.method \in WithoutHandle
    BY <1>1, <1>2, <1>4, <2>2, WholeIsMessage
  <2> QED
    BY <2>4, <2>5
<1> QED
  BY <1>8, <1>9

\* send_command, split_into_packets: the boundary flag ends the message, and no
\* packet is empty but the only one of a command without payload.
THEOREM FlagEndsMessage == Spec => []BoundaryFlagEndsMessage
  BY BoundaryFlags, SafeInvariant, PTL

\* At its last byte the device has the command.
LEMMA HasWhole ==
  ASSUME SafeInv, phase = "sent", packets = << >>, ~Notified
  PROVE  received.payload = RequestPayload(request).bytes /\ RequestPayload(request) # Raised
<1>1. request \in Requests
  BY DEF SafeInv, TypeOK
<1>2. /\ RequestPayload(request) # Raised
      /\ \E k \in 0 .. Len(Cut(Whole)) :
           /\ packets = SubSeq(Cut(Whole), k + 1, Len(Cut(Whole)))
           /\ received = Gathered(Whole, k)
  BY DEF SafeInv, WireInv
<1>3. PICK k \in 0 .. Len(Cut(Whole)) :
        /\ packets = SubSeq(Cut(Whole), k + 1, Len(Cut(Whole)))
        /\ received = Gathered(Whole, k)
  BY <1>2
<1>4. PICK message, all, n : message = Whole /\ all = Cut(Whole) /\ n = Len(all)
  OBVIOUS
<1>5. /\ message \in Message /\ message.payload = RequestPayload(request).bytes
      /\ all \in Seq(Packet) /\ n \in Nat /\ all = Cut(message)
  BY <1>1, <1>2, <1>4, WholeIsMessage, CutParts
<1>6. k = n
  <2>1. Len(packets) = n - k
    BY <1>3, <1>4, <1>5, DropAt
  <2>2. Len(packets) = 0
    OBVIOUS
  <2> QED
    BY <1>3, <1>4, <1>5, <2>1, <2>2
<1>7. received = message
  BY <1>3, <1>4, <1>5, <1>6, GatheredWhole
<1> QED
  BY <1>2, <1>5, <1>7

LEMMA ReadsConfig == ASSUME SafeInv PROVE DeviceReadsConfig
<1> SUFFICES ASSUME request.method = "session_set_app_config", phase = "sent", packets = << >>
             PROVE  ReadsAsPassed(request, received.payload)
  BY DEF DeviceReadsConfig, ReadsAsPassed
<1>1. request \in Requests
  BY DEF SafeInv, TypeOK
<1>2. ~Notified
  BY MethodsAre, Responds
<1>3. received.payload = RequestPayload(request).bytes /\ RequestPayload(request) # Raised
  BY <1>2, HasWhole
<1> QED
  BY <1>1, <1>3, ReadsPassed

\* session_set_app_config, encode_app_config: the device reads exactly what was
\* passed, whatever the destinations and the values, or the call raised.
THEOREM ReadsWhatWasPassed == Spec => []DeviceReadsConfig
  BY ReadsConfig, SafeInvariant, PTL

LEMMA NotMisread == ASSUME SafeInv PROVE NeverMisread
<1> SUFFICES ASSUME result.kind = "result", NEW field \in DOMAIN answer
             PROVE  result[field] = answer[field] \/ Truncated(field) \/ OtherLayout(field)
  BY DEF NeverMisread
<1>1. result # NoResult /\ result # Raised
  BY DEF NoResult, Raised
<1>2. phase = "returned" /\ Answered /\ result = Parsed /\ request \in Requests
  BY <1>1 DEF SafeInv, TypeOK, AnswerInv
<1>3. ParsedRight
  BY <1>1, <1>2, AnsweredRead
<1>4. CASE Notified
  BY <1>2, <1>3, <1>4 DEF ParsedRight, NotificationRight, OtherLayout, TwrNames
<1>5. CASE ~Notified
  BY <1>2, <1>3, <1>5 DEF ParsedRight, Faithful, Truncated, Loose
<1> QED
  BY <1>4, <1>5

\* The parsers of core/models.py and core/client.py: whatever the device answers
\* and wherever its answer is cut, what is returned is what was meant.
THEOREM ReadsWhatWasMeant == Spec => []NeverMisread
  BY NotMisread, SafeInvariant, PTL
=============================================================================
