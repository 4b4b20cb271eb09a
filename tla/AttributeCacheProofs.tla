------------------------ MODULE AttributeCacheProofs ------------------------
(***************************************************************************)
(* Proofs about AttributeCache, for any finite set of attributes and any   *)
(* bounds.  Whatever answers, reports, saves and restarts do to the cache, *)
(* a value in it is one the device has had: so are the values that every   *)
(* frame brings, those of every event in the queue and those of every row. *)
(* Frames in the air are in the order of their values, so that only one    *)
(* that was overtaken turns the cache back; and the last event about an    *)
(* attribute in the queue says what is cached, so that the rows do too     *)
(* when the queue is empty.                                                *)
(***************************************************************************)
EXTENDS AttributeCache, FiniteSetTheorems, SequenceTheorems, TLAPS

\* Values the device has had.
HadOf(values, attrs) == \A a \in attrs : values[a] <= real[a]
Had(values) == values \in [Attrs -> Nat] /\ HadOf(values, Attrs)

AnyFrame == [kind : {"read", "write", "configure", "report"}, good : SUBSET Attrs,
             bad : SUBSET Attrs, values : [Attrs -> Nat], overtaken : BOOLEAN]

ValueEvent == [kind : {"updated", "supported", "unsupported", "cleared"},
               attr : Attrs, value : Nat]
DeviceEvent == [kind : {"save_device"}, cache : [Attrs -> Nat], unsupported : SUBSET Attrs]

\* What an event will write are values the device has had.
EventHad(e) == /\ e.kind = "save_device" => Had(e.cache)
               /\ e.kind \in {"updated", "cleared"} => e.value <= real[e.attr]

\* The inductive invariant in parts.
AirInv ==
  air \in Seq(AnyFrame) /\ \A i \in DOMAIN air : HadOf(air[i].values, air[i].good)
SavesInv ==
  saves \in Seq(ValueEvent \cup DeviceEvent) /\ \A i \in DOMAIN saves : EventHad(saves[i])
HadInv ==
  /\ real \in [Attrs -> Nat]
  /\ Had(cache) /\ Had(attrRows)
  /\ AirInv /\ SavesInv
  /\ unsupported \subseteq Attrs /\ unsupportedRows \subseteq Attrs

-----------------------------------------------------------------------------
(* Sequences.                                                              *)

\* A finite set is listed by a sequence of its members.
LEMMA SetListed ==
  ASSUME NEW S, IsFiniteSet(S)
  PROVE  SetToSeq(S) \in Seq(S)
<1>1. Cardinality(S) \in Nat /\ ExistsBijection(1 .. Cardinality(S), S)
  BY FS_CardinalityType
<1>2. \E f \in [1 .. Cardinality(S) -> S] : IsInjective(f)
  BY <1>1 DEF ExistsBijection, Bijection, Injection
<1>3. SetToSeq(S) \in [1 .. Cardinality(S) -> S]
  BY <1>2 DEF SetToSeq
<1> QED BY <1>1, <1>3

\* What is left of a sequence without one of its elements.
LEMMA RemovedAt ==
  ASSUME NEW S, NEW s \in Seq(S), NEW i \in DOMAIN s
  PROVE  /\ RemoveAt(s, i) \in Seq(S)
         /\ DOMAIN RemoveAt(s, i) = 1 .. Len(s) - 1
         /\ \A j \in DOMAIN RemoveAt(s, i) : RemoveAt(s, i)[j] = s[IF j < i THEN j ELSE j + 1]
<1> DEFINE p == SubSeq(s, 1, i - 1)
           q == SubSeq(s, i + 1, Len(s))
<1>0. i \in 1 .. Len(s) /\ Len(s) \in Nat
  OBVIOUS
<1>1. /\ p \in Seq(S) /\ Len(p) = i - 1
      /\ \A j \in 1 .. i - 1 : p[j] = s[j]
  <2>1. 1 \in Int /\ i - 1 \in Int /\ \A j \in 1 .. i - 1 : s[j] \in S
    BY <1>0
  <2>2. /\ p \in Seq(S) /\ Len(p) = IF 1 <= i - 1 THEN (i - 1) - 1 + 1 ELSE 0
        /\ \A j \in 1 .. (i - 1) - 1 + 1 : p[j] = s[1 + j - 1]
    BY <2>1, SubSeqProperties
  <2> HIDE DEF p
  <2> QED BY <1>0, <2>2
<1>2. /\ q \in Seq(S) /\ Len(q) = Len(s) - i
      /\ \A j \in 1 .. Len(s) - i : q[j] = s[i + j]
  <2>1. i + 1 \in Int /\ Len(s) \in Int /\ \A j \in i + 1 .. Len(s) : s[j] \in S
    BY <1>0
  <2>2. /\ q \in Seq(S) /\ Len(q) = IF i + 1 <= Len(s) THEN Len(s) - (i + 1) + 1 ELSE 0
        /\ \A j \in 1 .. Len(s) - (i + 1) + 1 : q[j] = s[(i + 1) + j - 1]
    BY <2>1, SubSeqProperties
  <2> HIDE DEF q
  <2> QED BY <1>0, <2>2
<1> HIDE DEF p, q
<1>3. p \o q \in Seq(S) /\ Len(p \o q) = Len(p) + Len(q)
  BY <1>1, <1>2, ConcatProperties
<1>4. \A j \in 1 .. Len(p) + Len(q) :
        (p \o q)[j] = IF j <= Len(p) THEN p[j] ELSE q[j - Len(p)]
  BY <1>1, <1>2, ConcatProperties
<1>5. ASSUME NEW j \in 1 .. Len(s) - 1
      PROVE  (p \o q)[j] = s[IF j < i THEN j ELSE j + 1]
  <2>1. CASE j < i
    BY <1>0, <1>1, <1>2, <1>4, <2>1
  <2>2. CASE ~(j < i)
    <3>1. j - (i - 1) \in 1 .. Len(s) - i /\ i + (j - (i - 1)) = j + 1
      BY <1>0, <2>2
    <3>2. (p \o q)[j] = q[j - (i - 1)]
      <4>1. Len(p) = i - 1 /\ Len(q) = Len(s) - i
        BY <1>1, <1>2
      <4>2. j \in 1 .. Len(p) + Len(q) /\ ~(j <= Len(p))
        BY <1>0, <2>2, <4>1
      <4> QED BY <1>4, <4>1, <4>2
    <3> QED BY <1>2, <2>2, <3>1, <3>2
  <2> QED BY <2>1, <2>2
<1>6. Len(p \o q) = Len(s) - 1
  BY <1>0, <1>1, <1>2, <1>3
<1>7. RemoveAt(s, i) = p \o q
  BY DEF RemoveAt, p, q
<1>8. DOMAIN (p \o q) = 1 .. Len(s) - 1
  BY <1>3, <1>6
<1> QED BY <1>3, <1>5, <1>7, <1>8

\* The events for attributes whose values the device has had.
LEMMA EventsHad ==
  ASSUME NEW kind \in {"updated", "supported", "unsupported", "cleared"},
         NEW attrs \in SUBSET Attrs, NEW values \in [Attrs -> Nat],
         kind \in {"updated", "cleared"} => HadOf(values, attrs)
  PROVE  /\ EventsFor(kind, attrs, values) \in Seq(ValueEvent)
         /\ \A i \in DOMAIN EventsFor(kind, attrs, values) :
              EventHad(EventsFor(kind, attrs, values)[i])
<1> DEFINE list == SetToSeq(attrs)
<1>1. list \in Seq(attrs)
  <2>1. IsFiniteSet(attrs)
    BY AttrsAreFinite, FS_Subset
  <2> QED BY <2>1, SetListed
<1> HIDE DEF list
<1>2. /\ DOMAIN list = 1 .. Len(list) /\ Len(list) \in Nat
      /\ \A i \in DOMAIN list : list[i] \in attrs /\ list[i] \in Attrs
  BY <1>1
<1>3. EventsFor(kind, attrs, values)
        = [i \in 1 .. Len(list) |-> CacheEvent(kind, list[i], values[list[i]])]
  BY <1>2 DEF EventsFor, list
<1>4. ASSUME NEW i \in 1 .. Len(list)
      PROVE  /\ CacheEvent(kind, list[i], values[list[i]]) \in ValueEvent
             /\ EventHad(CacheEvent(kind, list[i], values[list[i]]))
  <2>1. /\ list[i] \in Attrs /\ values[list[i]] \in Nat
        /\ kind \in {"updated", "cleared"} => values[list[i]] <= real[list[i]]
    BY <1>2, <1>4 DEF HadOf
  <2> QED BY <2>1 DEF CacheEvent, ValueEvent, EventHad
<1> QED BY <1>2, <1>3, <1>4

\* Events are appended to the queue.
LEMMA SavesGrow ==
  ASSUME SavesInv, real' = real,
         NEW more \in Seq(ValueEvent \cup DeviceEvent),
         \A i \in DOMAIN more : EventHad(more[i]), Save(more)
  PROVE  SavesInv'
<1>1. saves' = saves \o more /\ saves \in Seq(ValueEvent \cup DeviceEvent)
  BY DEF Save, SavesInv
<1>2. saves' \in Seq(ValueEvent \cup DeviceEvent) /\ Len(saves') = Len(saves) + Len(more)
      /\ Len(saves) \in Nat /\ Len(more) \in Nat
  BY <1>1
<1>3. ASSUME NEW i \in DOMAIN saves' PROVE EventHad(saves[i])'
  <2>1. i \in 1 .. Len(saves) + Len(more)
    BY <1>2, <1>3
  <2>2. CASE i <= Len(saves)
    <3>1. i \in DOMAIN saves /\ saves'[i] = saves[i]
      BY <1>1, <1>2, <2>1, <2>2
    <3> QED BY <3>1 DEF SavesInv, EventHad, Had, HadOf
  <2>3. CASE i > Len(saves)
    <3>1. i - Len(saves) \in DOMAIN more /\ saves'[i] = more[i - Len(saves)]
      BY <1>1, <1>2, <2>1, <2>3
    <3> QED BY <3>1 DEF EventHad, Had, HadOf
  <2> QED BY <1>2, <2>1, <2>2, <2>3
<1> QED BY <1>2, <1>3 DEF SavesInv

\* Two lists of good events make one.
LEMMA EventsJoined ==
  ASSUME NEW p \in Seq(ValueEvent), NEW q \in Seq(ValueEvent),
         \A i \in DOMAIN p : EventHad(p[i]), \A i \in DOMAIN q : EventHad(q[i])
  PROVE  p \o q \in Seq(ValueEvent) /\ \A i \in DOMAIN (p \o q) : EventHad((p \o q)[i])
<1>1. p \o q \in Seq(ValueEvent) /\ Len(p \o q) = Len(p) + Len(q)
      /\ Len(p) \in Nat /\ Len(q) \in Nat
  OBVIOUS
<1>2. ASSUME NEW i \in DOMAIN (p \o q) PROVE EventHad((p \o q)[i])
  <2>1. i \in 1 .. Len(p) + Len(q)
    BY <1>1, <1>2
  <2>2. CASE i <= Len(p)
    <3>1. i \in DOMAIN p /\ (p \o q)[i] = p[i]
      BY <1>1, <2>1, <2>2
    <3> QED BY <3>1
  <2>3. CASE i > Len(p)
    <3>1. i - Len(p) \in DOMAIN q /\ (p \o q)[i] = q[i - Len(p)]
      BY <1>1, <2>1, <2>3
    <3> QED BY <3>1
  <2> QED BY <1>1, <2>1, <2>2, <2>3
<1> QED BY <1>1, <1>2

\* The device's values only grow.
Grows == /\ real \in [Attrs -> Nat] /\ real' \in [Attrs -> Nat]
         /\ \A a \in Attrs : real[a] <= real'[a]

\* Values that it has had it has had for ever.
LEMMA StaysHad ==
  ASSUME Grows, NEW values \in [Attrs -> Nat], NEW attrs \in SUBSET Attrs,
         HadOf(values, attrs)
  PROVE  HadOf(values, attrs)'
BY DEF Grows, HadOf

\* A frame is appended to those on their way.
LEMMA AirGrows ==
  ASSUME AirInv, Grows, NEW frame \in AnyFrame, HadOf(frame.values, frame.good)',
         air' = Append(air, frame)
  PROVE  AirInv'
<1>1. /\ air' \in Seq(AnyFrame) /\ Len(air') = Len(air) + 1 /\ Len(air) \in Nat
      /\ \A i \in 1 .. Len(air) : air'[i] = air[i]
      /\ air'[Len(air) + 1] = frame
  BY DEF AirInv
<1>2. ASSUME NEW i \in DOMAIN air' PROVE HadOf(air[i].values, air[i].good)'
  <2>1. CASE i = Len(air) + 1
    BY <1>1, <2>1 DEF HadOf
  <2>2. CASE i \in 1 .. Len(air)
    <3>1. PICK f \in AnyFrame : f = air[i] /\ f = air'[i] /\ HadOf(f.values, f.good)
      BY <1>1, <2>2 DEF AirInv
    <3>2. HadOf(f.values, f.good)'
      <4>1. f.values \in [Attrs -> Nat] /\ f.good \in SUBSET Attrs
        BY DEF AnyFrame
      <4> QED BY <3>1, <4>1, StaysHad
    <3> QED BY <3>1, <3>2 DEF HadOf
  <2> QED BY <1>1, <1>2, <2>1, <2>2
<1> QED BY <1>1, <1>2 DEF AirInv

-----------------------------------------------------------------------------
(* The steps.                                                              *)

\* A change of the device's values leaves those that it has had.
LEMMA HadStays ==
  ASSUME HadInv, Grows, AirInv', cache' = cache, attrRows' = attrRows, saves' = saves,
         unsupported' = unsupported, unsupportedRows' = unsupportedRows
  PROVE  HadInv'
<1>1. \A values : Had(values) => values \in [Attrs -> Nat] /\ HadOf(values, Attrs)'
  BY StaysHad DEF Had
<1>2. Had(cache)' /\ Had(attrRows)'
  BY <1>1 DEF HadInv, Had, HadOf
<1>3. SavesInv'
  <2>1. ASSUME NEW i \in DOMAIN saves PROVE EventHad(saves[i])'
    <3>1. PICK e \in ValueEvent \cup DeviceEvent : e = saves[i] /\ EventHad(e)
      BY DEF HadInv, SavesInv
    <3>2. CASE e \in DeviceEvent
      <4>1. e.kind = "save_device" /\ HadOf(e.cache, Attrs)' /\ e.cache \in [Attrs -> Nat]
        BY <1>1, <3>1, <3>2 DEF EventHad, DeviceEvent
      <4> QED BY <3>1, <4>1 DEF EventHad, Had, HadOf
    <3>3. CASE e \in ValueEvent
      <4>1. e.attr \in Attrs /\ e.value \in Nat /\ e.kind # "save_device"
        BY <3>3 DEF ValueEvent
      <4>2. e.kind \in {"updated", "cleared"} => e.value <= real'[e.attr]
        BY <3>1, <4>1 DEF EventHad, Grows
      <4> QED BY <3>1, <4>1, <4>2 DEF EventHad
    <3> QED BY <3>2, <3>3
  <2> QED BY <2>1 DEF HadInv, SavesInv
<1> QED BY <1>2, <1>3 DEF HadInv, Grows

\* What does not touch the cache, the device's values, the queue or the rows.
LEMMA HadUnchanged ==
  ASSUME HadInv, real' = real, cache' = cache, attrRows' = attrRows, saves' = saves,
         unsupported' = unsupported, unsupportedRows' = unsupportedRows,
         air' \in Seq(AnyFrame),
         \A i \in DOMAIN air' : \E j \in DOMAIN air : air'[i] = air[j]
  PROVE  HadInv'
<1>1. Grows
  BY DEF HadInv, Grows
<1>2. AirInv'
  <2>1. ASSUME NEW i \in DOMAIN air' PROVE HadOf(air[i].values, air[i].good)'
    BY DEF HadInv, AirInv, HadOf
  <2> QED BY <2>1 DEF AirInv
<1> QED BY <1>1, <1>2, HadStays

\* The device answers: what it says is what it has from then on.
LEMMA AnswerHad ==
  ASSUME HadInv, NEW request \in Request, Answer(request)
  PROVE  HadInv'
<1> DEFINE written == IF request.kind = "write" THEN request.attrs ELSE {}
           After(attrs) == [a \in Attrs |-> IF a \in attrs THEN real[a] + 1 ELSE real[a]]
           Said(good) == [kind |-> request.kind, good |-> good,
                          bad |-> IF request.kind = "write" THEN written \ good
                                  ELSE request.attrs \ supported,
                          values |-> After(written), overtaken |-> FALSE]
<1>1. PICK good \in SUBSET (request.attrs \cap supported) :
        real' = After(written \cap good) /\ air' = Append(air, Said(good))
  BY DEF Answer
<1>2. request.attrs \subseteq Attrs /\ request.kind \in {"read", "write", "configure"}
  BY DEF Request
<1>3. real \in [Attrs -> Nat] /\ \A attrs : After(attrs) \in [Attrs -> Nat]
  BY DEF HadInv
<1>4. Grows
  BY <1>1, <1>3 DEF Grows
<1>5. Said(good) \in AnyFrame /\ Said(good).values = After(written) /\ Said(good).good = good
  BY <1>2, <1>3 DEF AnyFrame
<1>6. \A a \in good : After(written)[a] <= real'[a]
  BY <1>1, <1>2, <1>3
<1>7. PICK frame \in AnyFrame :
        /\ air' = Append(air, frame)
        /\ \A a \in frame.good : frame.values[a] <= real'[a]
  <2> HIDE DEF Said, After
  <2> QED BY <1>1, <1>5, <1>6
<1>8. AirInv'
  <2>1. HadOf(frame.values, frame.good)'
    BY <1>7 DEF HadOf
  <2> QED BY <1>4, <1>7, <2>1, AirGrows DEF HadInv
<1> QED BY <1>4, <1>8, HadStays DEF Answer, rowVarsOfCache

\* A frame is handled: the cache and the events get what it brings.
LEMMA HandleHad ==
  ASSUME HadInv, NEW i \in DOMAIN air, Handle(i)
  PROVE  HadInv'
<1>1. PICK frame \in AnyFrame : frame = air[i] /\ HadOf(frame.values, frame.good)
  BY DEF HadInv, AirInv
<1>2. /\ frame.values \in [Attrs -> Nat] /\ frame.good \subseteq Attrs
      /\ frame.bad \subseteq Attrs
  BY DEF AnyFrame
<1>3. /\ Updates(frame) \subseteq frame.good
      /\ NowSupported(frame) \subseteq Attrs /\ NowUnsupported(frame) \subseteq Attrs
  BY <1>2 DEF Updates, NowSupported, NowUnsupported
<1>4. /\ real' = real /\ attrRows' = attrRows /\ unsupportedRows' = unsupportedRows
      /\ cache' = [a \in Attrs |-> IF a \in Updates(frame) THEN frame.values[a] ELSE cache[a]]
      /\ unsupported' = (unsupported \ NowSupported(frame)) \cup NowUnsupported(frame)
      /\ Save(EventsFor("updated", Updates(frame), frame.values) \o
              EventsFor("supported", NowSupported(frame), frame.values) \o
              EventsFor("unsupported", NowUnsupported(frame), frame.values))
      /\ air' = [j \in 1 .. Len(air) - 1 |-> IF j < i THEN [air[j] EXCEPT !.overtaken = TRUE]
                                             ELSE air[j + 1]]
  BY <1>1 DEF Handle, deviceVars, rowVarsOfCache
<1>5. Had(cache)'
  BY <1>1, <1>2, <1>3, <1>4 DEF HadInv, Had, HadOf
<1>6. SavesInv'
  <2> DEFINE updated == EventsFor("updated", Updates(frame), frame.values)
             known == EventsFor("supported", NowSupported(frame), frame.values)
             unknown == EventsFor("unsupported", NowUnsupported(frame), frame.values)
             Good(list) == list \in Seq(ValueEvent) /\ \A k \in DOMAIN list : EventHad(list[k])
  <2>1. HadOf(frame.values, Updates(frame))
    BY <1>1, <1>3 DEF HadOf
  <2>2. Good(updated)
    BY <1>2, <1>3, <2>1, EventsHad
  <2>3. Good(known) /\ Good(unknown)
    BY <1>2, <1>3, EventsHad
  <2> HIDE DEF updated, known, unknown
  <2>4. Good(updated \o known)
    BY <2>2, <2>3, EventsJoined
  <2>5. Good(updated \o known \o unknown)
    BY <2>3, <2>4, EventsJoined
  <2>6. PICK more : more = updated \o known \o unknown
    OBVIOUS
  <2>7. more \in Seq(ValueEvent \cup DeviceEvent) /\ \A k \in DOMAIN more : EventHad(more[k])
    BY <2>5, <2>6
  <2>8. Save(more)
    BY <1>4, <2>6 DEF updated, known, unknown
  <2> QED BY <1>4, <2>7, <2>8, SavesGrow DEF HadInv
<1>7. AirInv'
  <2>1. air \in Seq(AnyFrame) /\ Len(air) \in Nat /\ i \in 1 .. Len(air)
    BY DEF HadInv, AirInv
  <2>2. ASSUME NEW j \in 1 .. Len(air) - 1
        PROVE  \E f \in AnyFrame : /\ air'[j] = f
                                   /\ \A a \in f.good : f.values[a] <= real'[a]
    <3>1. CASE j < i
      <4>1. PICK f \in AnyFrame : f = air[j] /\ HadOf(f.values, f.good)
        BY <2>1 DEF HadInv, AirInv
      <4>2. /\ [f EXCEPT !.overtaken = TRUE] \in AnyFrame
            /\ [f EXCEPT !.overtaken = TRUE].good = f.good
            /\ [f EXCEPT !.overtaken = TRUE].values = f.values
        BY DEF AnyFrame
      <4>3. air'[j] = [f EXCEPT !.overtaken = TRUE]
        BY <1>4, <3>1, <4>1
      <4> QED BY <1>4, <4>1, <4>2, <4>3 DEF HadOf
    <3>2. CASE ~(j < i)
      <4>1. PICK f \in AnyFrame : f = air[j + 1] /\ HadOf(f.values, f.good)
        BY <2>1 DEF HadInv, AirInv
      <4> QED BY <1>4, <3>2, <4>1 DEF HadOf
    <3> QED BY <3>1, <3>2
  <2>3. air' \in Seq(AnyFrame) /\ DOMAIN air' = 1 .. Len(air) - 1
    <3>1. Len(air) - 1 \in Nat
      BY <2>1
    <3>2. \A j \in 1 .. Len(air) - 1 : air'[j] \in AnyFrame
      BY <2>2
    <3>3. air' \in [1 .. Len(air) - 1 -> AnyFrame]
      BY <1>4, <3>2
    <3> QED BY <3>1, <3>3
  <2> QED BY <2>2, <2>3 DEF AirInv, HadOf
<1> QED BY <1>2, <1>3, <1>4, <1>5, <1>6, <1>7 DEF HadInv, Had, HadOf

\* The cache is saved when the device is announced; a quirk gets a copy or none.
LEMMA InitializedHad ==
  ASSUME HadInv, InitializedPlain \/ \E copied \in BOOLEAN : InitializedCustom(copied)
  PROVE  HadInv'
<1> DEFINE event == [kind |-> "save_device", cache |-> cache, unsupported |-> unsupported]
<1>1. /\ real' = real /\ air' = air /\ attrRows' = attrRows
      /\ unsupportedRows' = unsupportedRows /\ Save(<<event>>)
      /\ cache' = cache \/ cache' = [a \in Attrs |-> None]
      /\ unsupported' = unsupported \/ unsupported' = {}
  BY DEF InitializedPlain, InitializedCustom, deviceVars, rowVarsOfCache
<1>2. PICK e : e = event
  OBVIOUS
<1>3. e \in DeviceEvent /\ EventHad(e)
  BY <1>2 DEF HadInv, Had, DeviceEvent, EventHad
<1>4. PICK more : more = <<e>>
  OBVIOUS
<1>5. more \in Seq(ValueEvent \cup DeviceEvent) /\ \A k \in DOMAIN more : EventHad(more[k])
  BY <1>3, <1>4
<1>6. SavesInv'
  BY <1>1, <1>2, <1>4, <1>5, SavesGrow DEF HadInv
<1>7. Had(cache)'
  BY <1>1 DEF HadInv, Had, HadOf, None
<1> QED BY <1>1, <1>6, <1>7 DEF HadInv, Had, HadOf, AirInv

\* Clearing an attribute saves that it has no value.
LEMMA ClearHad ==
  ASSUME HadInv, NEW a \in Attrs, ClearAttribute(a)
  PROVE  HadInv'
<1>1. /\ real' = real /\ air' = air /\ attrRows' = attrRows
      /\ unsupported' = unsupported /\ unsupportedRows' = unsupportedRows
      /\ cache' = [cache EXCEPT ![a] = 0]
      /\ saves' = saves \/ Save(<<CacheEvent("cleared", a, None)>>)
  BY DEF ClearAttribute, deviceVars, rowVarsOfCache, None
<1>2. real[a] \in Nat
  BY DEF HadInv
<1>3. PICK e : e = CacheEvent("cleared", a, None)
  OBVIOUS
<1>4. e \in ValueEvent /\ EventHad(e)
  BY <1>2, <1>3 DEF CacheEvent, ValueEvent, EventHad, None
<1>5. PICK more : more = <<e>>
  OBVIOUS
<1>6. more \in Seq(ValueEvent \cup DeviceEvent) /\ \A k \in DOMAIN more : EventHad(more[k])
  BY <1>4, <1>5
<1>7. SavesInv'
  <2>1. CASE Save(more)
    BY <1>1, <1>6, <2>1, SavesGrow DEF HadInv
  <2>2. CASE saves' = saves
    BY <1>1, <2>2 DEF HadInv, SavesInv, EventHad, Had, HadOf
  <2> QED BY <1>1, <1>3, <1>5, <2>1, <2>2
<1>8. Had(cache)'
  BY <1>1, <1>2 DEF HadInv, Had, HadOf
<1> QED BY <1>1, <1>7, <1>8 DEF HadInv, Had, HadOf, AirInv

\* The worker writes what an event says, or what is in the cache.
LEMMA WorkerHad ==
  ASSUME HadInv, SaveWorker
  PROVE  HadInv'
<1>1. /\ real' = real /\ air' = air /\ cache' = cache /\ unsupported' = unsupported
      /\ saves # <<>> /\ saves' = Tail(saves)
  BY DEF SaveWorker, deviceVars
<1>2. /\ saves \in Seq(ValueEvent \cup DeviceEvent) /\ Tail(saves) \in Seq(ValueEvent \cup DeviceEvent)
      /\ Len(saves) \in Nat \ {0} /\ Len(Tail(saves)) = Len(saves) - 1
      /\ Head(saves) = saves[1] /\ \A i \in 1 .. Len(saves) - 1 : Tail(saves)[i] = saves[i + 1]
  BY <1>1, EmptySeq DEF HadInv, SavesInv
<1>3. SavesInv'
  <2>1. ASSUME NEW i \in DOMAIN saves' PROVE EventHad(saves[i])'
    <3>1. i + 1 \in DOMAIN saves /\ saves'[i] = saves[i + 1]
      BY <1>1, <1>2
    <3> QED BY <1>1, <3>1 DEF HadInv, SavesInv, EventHad, Had, HadOf
  <2> QED BY <1>1, <1>2, <2>1 DEF SavesInv
<1>4. PICK e \in ValueEvent \cup DeviceEvent : e = Head(saves) /\ EventHad(e)
  BY <1>2 DEF HadInv, SavesInv
<1>5. Had(attrRows)' /\ unsupportedRows' \subseteq Attrs
  <2>1. CASE ~Keyed(e)
    BY <1>1, <1>4, <2>1 DEF SaveWorker, rowVarsOfCache, HadInv, Had, HadOf
  <2>2. CASE Keyed(e) /\ e \in DeviceEvent
    <3>1. e.kind = "save_device" /\ Had(e.cache) /\ e.unsupported \subseteq Attrs
      BY <1>4, <2>2 DEF DeviceEvent, EventHad
    <3>2. Had(SavedCaches(e).cache) /\ SavedCaches(e).unsupported \subseteq Attrs
      BY <3>1 DEF SavedCaches, HadInv
    <3>3. /\ attrRows' = [a \in Attrs |-> IF SavedCaches(e).cache[a] # None
                                          THEN SavedCaches(e).cache[a] ELSE attrRows[a]]
          /\ unsupportedRows' = unsupportedRows \cup SavedCaches(e).unsupported
      BY <1>4, <2>2, <3>1 DEF SaveWorker
    <3> QED BY <1>1, <3>2, <3>3 DEF HadInv, Had, HadOf
  <2>3. CASE Keyed(e) /\ e \in ValueEvent
    <3>1. /\ e.kind \in {"updated", "supported", "unsupported", "cleared"}
          /\ e.attr \in Attrs /\ e.value \in Nat
          /\ e.kind \in {"updated", "cleared"} => e.value <= real[e.attr]
      BY <1>4, <2>3 DEF ValueEvent, EventHad
    <3>2. attrRows' = IF e.kind \in {"updated", "cleared"}
                      THEN [attrRows EXCEPT ![e.attr] = e.value] ELSE attrRows
      BY <1>4, <2>3, <3>1 DEF SaveWorker
    <3>3. unsupportedRows' \subseteq unsupportedRows \cup {e.attr}
      BY <1>4, <2>3, <3>1 DEF SaveWorker
    <3>4. Had(attrRows)'
      BY <1>1, <3>1, <3>2 DEF HadInv, Had, HadOf
    <3> QED BY <3>1, <3>3, <3>4 DEF HadInv
  <2> QED BY <2>1, <2>2, <2>3
<1> QED BY <1>1, <1>3, <1>5 DEF HadInv, AirInv, Had, HadOf

\* A restart takes the cache from the rows.
LEMMA RestartHad ==
  ASSUME HadInv, RestartCache
  PROVE  HadInv'
<1>1. /\ real' = real /\ air' = <<>> /\ saves' = <<>> /\ cache' = attrRows
      /\ attrRows' = attrRows /\ unsupported' = unsupportedRows
      /\ unsupportedRows' = unsupportedRows
  BY DEF RestartCache, deviceVars, rowVarsOfCache
<1> QED BY <1>1 DEF HadInv, AirInv, SavesInv, Had, HadOf

\* Every step keeps the invariant.
LEMMA NextHad == HadInv /\ [CacheNext]_cacheVars => HadInv'
<1> SUFFICES ASSUME HadInv, [CacheNext]_cacheVars PROVE HadInv'
  OBVIOUS
<1>1. /\ air \in Seq(AnyFrame) /\ \A i \in DOMAIN air : air[i] = air[i]
  BY DEF HadInv, AirInv
<1>2. ASSUME NEW attrs \in SUBSET Attrs,
             ReadAttributes(attrs) \/ WriteAttributes(attrs) \/ ConfigureReporting(attrs)
      PROVE  HadInv'
  BY <1>1, <1>2, HadUnchanged
     DEF ReadAttributes, WriteAttributes, ConfigureReporting, Ask, deviceVars, rowVarsOfCache
<1>3. ASSUME NEW request \in Request, Answer(request) PROVE HadInv'
  BY <1>3, AnswerHad
<1>4. ASSUME NEW a \in Attrs, Report(a) PROVE HadInv'
  <2>1. PICK frame : frame = [kind |-> "report", good |-> {a}, bad |-> {},
                              values |-> real, overtaken |-> FALSE]
    OBVIOUS
  <2>2. frame \in AnyFrame /\ \A x \in frame.good : frame.values[x] <= real[x]
    BY <2>1 DEF HadInv, AnyFrame
  <2>3. real' = real /\ air' = Append(air, frame)
    BY <1>4, <2>1 DEF Report, deviceVars
  <2>4. HadOf(frame.values, frame.good)'
    BY <2>2, <2>3 DEF HadOf
  <2>5. Grows
    BY <2>3 DEF Grows, HadInv
  <2>6. AirInv'
    BY <2>2, <2>3, <2>4, <2>5, AirGrows DEF HadInv
  <2> QED BY <1>4, <2>5, <2>6, HadStays DEF Report, rowVarsOfCache
<1>5. ASSUME NEW a \in Attrs, ValueChanges(a) PROVE HadInv'
  <2>1. real' = [real EXCEPT ![a] = real[a] + 1] /\ air' = air
    BY <1>5 DEF ValueChanges
  <2>2. Grows
    BY <2>1 DEF Grows, HadInv
  <2>3. AirInv'
    <3>1. ASSUME NEW i \in DOMAIN air PROVE HadOf(air[i].values, air[i].good)'
      <4>1. PICK f \in AnyFrame : f = air[i] /\ HadOf(f.values, f.good)
        BY DEF HadInv, AirInv
      <4>2. f.values \in [Attrs -> Nat] /\ f.good \in SUBSET Attrs
        BY DEF AnyFrame
      <4>3. HadOf(f.values, f.good)'
        BY <2>2, <4>1, <4>2, StaysHad
      <4> QED BY <2>1, <4>1, <4>3 DEF HadOf
    <3> QED BY <2>1, <3>1 DEF HadInv, AirInv
  <2> QED BY <1>5, <2>2, <2>3, HadStays DEF ValueChanges, rowVarsOfCache
<1>6. ASSUME NEW a \in Attrs, SupportChanges(a) PROVE HadInv'
  BY <1>1, <1>6, HadUnchanged DEF SupportChanges, rowVarsOfCache
<1>7. ASSUME NEW a \in Attrs, ClearAttribute(a) PROVE HadInv'
  BY <1>7, ClearHad
<1>8. CASE RequestLost
  BY <1>1, <1>8, HadUnchanged DEF RequestLost, deviceVars, rowVarsOfCache
<1>9. ASSUME NEW i \in DOMAIN air, FrameLost(i) PROVE HadInv'
  <2>1. i \in 1 .. Len(air) /\ Len(air) \in Nat
    BY <1>1
  <2>2. /\ RemoveAt(air, i) \in Seq(AnyFrame)
        /\ \A j \in DOMAIN RemoveAt(air, i) :
             RemoveAt(air, i)[j] = air[IF j < i THEN j ELSE j + 1]
        /\ DOMAIN RemoveAt(air, i) = 1 .. Len(air) - 1
    BY <1>1, RemovedAt
  <2>3. ASSUME NEW j \in DOMAIN RemoveAt(air, i)
        PROVE  \E k \in DOMAIN air : RemoveAt(air, i)[j] = air[k]
    <3>1. (IF j < i THEN j ELSE j + 1) \in DOMAIN air
      BY <1>1, <2>1, <2>2
    <3> QED BY <2>2, <3>1
  <2> QED BY <1>9, <2>2, <2>3, HadUnchanged DEF FrameLost, deviceVars, rowVarsOfCache
<1>10. ASSUME NEW i \in DOMAIN air, Handle(i) PROVE HadInv'
  BY <1>10, HandleHad
<1>11. CASE InitializedPlain \/ \E copied \in BOOLEAN : InitializedCustom(copied)
  BY <1>11, InitializedHad
<1>12. CASE SaveWorker
  BY <1>12, WorkerHad
<1>13. CASE RestartCache
  BY <1>13, RestartHad
<1>14. CASE UNCHANGED cacheVars
  BY <1>1, <1>14, HadUnchanged DEF cacheVars
<1> QED BY <1>2, <1>3, <1>4, <1>5, <1>6, <1>7, <1>8, <1>9, <1>10, <1>11, <1>12, <1>13, <1>14
        DEF CacheNext

\* Nothing is ever cached that the device has not had: no value that it refused
\* to take, or that it has not answered yet, however answers, reports, saves and
\* restarts interleave.
THEOREM NothingMadeUp == CacheSpec => []CachedWasReal
<1>1. CacheInit => HadInv
  BY DEF CacheInit, HadInv, Had, HadOf, AirInv, SavesInv, None
<1>2. HadInv => CachedWasReal
  BY DEF HadInv, Had, HadOf, CachedWasReal
<1> QED BY <1>1, <1>2, NextHad, PTL DEF CacheSpec

-----------------------------------------------------------------------------
(* Types.  That the cache and the rows stay within the device's values is    *)
(* HadInv; the rest follows from what the frames bring.                     *)

CacheTypeInv ==
  /\ real \in [Attrs -> 1 .. MaxVersion]
  /\ supported \subseteq Attrs
  /\ asked \in Seq(Request)
  /\ \A i \in DOMAIN air : air[i] \in Frame
  /\ device \in {"new", "plain", "custom"}
  /\ stamped \subseteq {a \in Attrs : cache[a] # None}
  /\ saved \in BOOLEAN

\* A frame is appended to those on their way.
LEMMA AirTyped ==
  ASSUME HadInv, CacheTypeInv, NEW frame \in Frame, air' = Append(air, frame)
  PROVE  \A i \in DOMAIN air' : air'[i] \in Frame
<1>1. /\ Len(air) \in Nat /\ DOMAIN air = 1 .. Len(air) /\ DOMAIN air' = 1 .. Len(air) + 1
      /\ \A i \in 1 .. Len(air) : air'[i] = air[i]
      /\ air'[Len(air) + 1] = frame
  BY DEF HadInv, AirInv
<1> QED BY <1>1 DEF CacheTypeInv

\* The answer to a request says what the device has, at most one more than it had.
LEMMA AnswerTyped ==
  ASSUME HadInv, CacheTypeInv, NEW request \in Request, Answer(request)
  PROVE  CacheTypeInv'
<1> DEFINE written == IF request.kind = "write" THEN request.attrs ELSE {}
           After(attrs) == [a \in Attrs |-> IF a \in attrs THEN real[a] + 1 ELSE real[a]]
           Said(good) == [kind |-> request.kind, good |-> good,
                          bad |-> IF request.kind = "write" THEN written \ good
                                  ELSE request.attrs \ supported,
                          values |-> After(written), overtaken |-> FALSE]
<1>1. PICK good \in SUBSET (request.attrs \cap supported) :
        real' = After(written \cap good) /\ air' = Append(air, Said(good))
  BY DEF Answer
<1>2. /\ request.attrs \subseteq Attrs /\ request.kind \in {"read", "write", "configure"}
      /\ request.kind = "write" => \A a \in request.attrs : real[a] < MaxVersion
      /\ asked # <<>> /\ asked' = Tail(asked)
      /\ UNCHANGED <<supported, device, cache, stamped, saved>>
  BY DEF Request, Answer, rowVarsOfCache
<1>3. /\ real \in [Attrs -> 1 .. MaxVersion] /\ MaxVersion \in Nat
      /\ \A a \in written : real[a] < MaxVersion
  BY <1>2, AttributeBounds DEF CacheTypeInv
<1>4. ASSUME NEW attrs, attrs \subseteq written PROVE After(attrs) \in [Attrs -> 1 .. MaxVersion]
  BY <1>3, <1>4
<1>5. real' \in [Attrs -> 1 .. MaxVersion] /\ After(written) \in [Attrs -> 1 .. MaxVersion]
  <2>1. written \cap good \subseteq written /\ written \subseteq written
    OBVIOUS
  <2>2. After(written \cap good) \in [Attrs -> 1 .. MaxVersion]
    BY <1>4, <2>1
  <2> HIDE DEF written, After
  <2>3. After(written) \in [Attrs -> 1 .. MaxVersion]
    BY <1>4, <2>1
  <2> QED BY <1>1, <2>2, <2>3 DEF written
<1>6. Said(good) \in Frame
  BY <1>2, <1>5 DEF Frame
<1>7. \A i \in DOMAIN air' : air'[i] \in Frame
  <2> HIDE DEF Said
  <2> QED BY <1>1, <1>6, AirTyped
<1>8. Tail(asked) \in Seq(Request)
  BY <1>2 DEF CacheTypeInv
<1> QED BY <1>2, <1>5, <1>7, <1>8 DEF CacheTypeInv

\* The cache gets the values of a frame, and the times of those.
LEMMA HandleTyped ==
  ASSUME HadInv, CacheTypeInv, NEW i \in DOMAIN air, Handle(i)
  PROVE  CacheTypeInv'
<1>1. PICK frame \in Frame : frame = air[i]
  BY DEF CacheTypeInv
<1>2. /\ cache' = [a \in Attrs |-> IF a \in Updates(frame) THEN frame.values[a] ELSE cache[a]]
      /\ stamped' = stamped \cup Updates(frame)
      /\ air' = [j \in 1 .. Len(air) - 1 |-> IF j < i THEN [air[j] EXCEPT !.overtaken = TRUE]
                                             ELSE air[j + 1]]
      /\ UNCHANGED <<real, supported, asked, device, saved>>
  BY <1>1 DEF Handle, deviceVars, rowVarsOfCache
<1>3. /\ Updates(frame) \subseteq Attrs /\ \A a \in Updates(frame) : frame.values[a] # None
  BY DEF Updates, Frame, None
<1>4. stamped' \subseteq {a \in Attrs : cache'[a] # None}
  BY <1>2, <1>3 DEF CacheTypeInv
<1>5. ASSUME NEW j \in DOMAIN air' PROVE air'[j] \in Frame
  <2>1. /\ Len(air) \in Nat /\ DOMAIN air = 1 .. Len(air) /\ j \in 1 .. Len(air) - 1
        /\ i \in 1 .. Len(air)
    BY <1>2 DEF HadInv, AirInv
  <2>2. CASE j < i
    <3>1. PICK f \in Frame : f = air[j]
      BY <2>1 DEF CacheTypeInv
    <3>2. [f EXCEPT !.overtaken = TRUE] \in Frame
      BY DEF Frame
    <3> QED BY <1>2, <2>1, <2>2, <3>1, <3>2
  <2>3. CASE ~(j < i)
    <3>1. air[j + 1] \in Frame
      BY <2>1 DEF CacheTypeInv
    <3> QED BY <1>2, <2>1, <2>3, <3>1
  <2> QED BY <2>2, <2>3
<1> QED BY <1>2, <1>4, <1>5 DEF CacheTypeInv

\* Every step keeps the types.
LEMMA NextCacheTypes == HadInv /\ CacheTypeInv /\ [CacheNext]_cacheVars => CacheTypeInv'
<1> SUFFICES ASSUME HadInv, CacheTypeInv, [CacheNext]_cacheVars PROVE CacheTypeInv'
  OBVIOUS
<1> USE DEF deviceVars, rowVarsOfCache
<1>1. /\ air \in Seq(AnyFrame) /\ MaxVersion \in Nat
      /\ cache \in [Attrs -> Nat] /\ attrRows \in [Attrs -> Nat]
  BY AttributeBounds DEF HadInv, AirInv, Had
<1>2. ASSUME NEW attrs \in SUBSET Attrs \ {{}},
             ReadAttributes(attrs) \/ WriteAttributes(attrs) \/ ConfigureReporting(attrs)
      PROVE  CacheTypeInv'
  <2>1. PICK request \in Request : Ask(request)
    BY <1>2 DEF ReadAttributes, WriteAttributes, ConfigureReporting, Request
  <2>2. asked' \in Seq(Request)
    BY <2>1 DEF Ask, CacheTypeInv
  <2> QED BY <2>1, <2>2 DEF Ask, CacheTypeInv
<1>3. ASSUME NEW request \in Request, Answer(request) PROVE CacheTypeInv'
  BY <1>3, AnswerTyped
<1>4. ASSUME NEW a \in Attrs, Report(a) PROVE CacheTypeInv'
  <2>1. [kind |-> "report", good |-> {a}, bad |-> {}, values |-> real, overtaken |-> FALSE]
          \in Frame
    BY DEF Frame, CacheTypeInv
  <2>2. PICK frame \in Frame : air' = Append(air, frame)
    BY <1>4, <2>1 DEF Report
  <2>3. \A i \in DOMAIN air' : air'[i] \in Frame
    BY <2>2, AirTyped
  <2> QED BY <1>4, <2>3 DEF Report, CacheTypeInv
<1>5. ASSUME NEW a \in Attrs, ValueChanges(a) PROVE CacheTypeInv'
  <2>1. real' \in [Attrs -> 1 .. MaxVersion]
    BY <1>1, <1>5 DEF ValueChanges, CacheTypeInv
  <2> QED BY <1>5, <2>1 DEF ValueChanges, CacheTypeInv
<1>6. ASSUME NEW a \in Attrs, SupportChanges(a) PROVE CacheTypeInv'
  <2>1. supported' \subseteq Attrs
    BY <1>6 DEF SupportChanges, CacheTypeInv
  <2> QED BY <1>6, <2>1 DEF SupportChanges, CacheTypeInv
<1>7. ASSUME NEW a \in Attrs, ClearAttribute(a) PROVE CacheTypeInv'
  BY <1>1, <1>7 DEF ClearAttribute, CacheTypeInv
<1>8. CASE RequestLost
  BY <1>8 DEF RequestLost, CacheTypeInv
<1>9. ASSUME NEW i \in DOMAIN air, FrameLost(i) PROVE CacheTypeInv'
  <2>1. ASSUME NEW j \in DOMAIN air' PROVE air'[j] \in Frame
    <3>1. /\ DOMAIN air' = 1 .. Len(air) - 1 /\ Len(air) \in Nat /\ DOMAIN air = 1 .. Len(air)
          /\ air'[j] = air[IF j < i THEN j ELSE j + 1]
      BY <1>1, <1>9, RemovedAt DEF FrameLost
    <3>2. (IF j < i THEN j ELSE j + 1) \in DOMAIN air
      BY <3>1
    <3> QED BY <3>1, <3>2 DEF CacheTypeInv
  <2> QED BY <1>9, <2>1 DEF FrameLost, CacheTypeInv
<1>10. ASSUME NEW i \in DOMAIN air, Handle(i) PROVE CacheTypeInv'
  BY <1>10, HandleTyped
<1>11. CASE InitializedPlain \/ \E copied \in BOOLEAN : InitializedCustom(copied)
  BY <1>11 DEF InitializedPlain, InitializedCustom, CacheTypeInv
<1>12. CASE SaveWorker
  <2>1. saved' \in BOOLEAN /\ UNCHANGED <<deviceVars, asked, air, device, cache, stamped>>
    BY <1>12 DEF SaveWorker, CacheTypeInv
  <2> QED BY <2>1 DEF CacheTypeInv
<1>13. CASE RestartCache
  BY <1>13 DEF RestartCache, CacheTypeInv
<1>14. CASE UNCHANGED cacheVars
  BY <1>14 DEF cacheVars, CacheTypeInv
<1> QED BY <1>2, <1>3, <1>4, <1>5, <1>6, <1>7, <1>8, <1>9, <1>10, <1>11, <1>12, <1>13, <1>14
        DEF CacheNext

\* Whatever frames are lost, overtaken or handled, and whenever the program is
\* started again, the cache and its rows hold values the device can have, and
\* only what has a value has the time of its last update.
THEOREM CacheTypes == CacheSpec => []CacheTypeOK
<1>1. CacheInit => HadInv
  BY DEF CacheInit, HadInv, Had, HadOf, AirInv, SavesInv, None
<1>2. CacheInit => CacheTypeInv
  <2> SUFFICES ASSUME CacheInit PROVE CacheTypeInv
    OBVIOUS
  <2>1. real = [a \in Attrs |-> 1] /\ 1 \in 1 .. MaxVersion
    BY AttributeBounds DEF CacheInit
  <2>2. asked = <<>> /\ air = <<>> /\ stamped = {} /\ asked \in Seq(Request)
    BY DEF CacheInit
  <2>3. supported \subseteq Attrs /\ device = "new" /\ saved = FALSE
    BY DEF CacheInit
  <2>4. real \in [Attrs -> 1 .. MaxVersion]
    BY <2>1
  <2>5. /\ \A i \in DOMAIN air : air[i] \in Frame
        /\ stamped \subseteq {a \in Attrs : cache[a] # None}
    BY <2>2
  <2> QED BY <2>2, <2>3, <2>4, <2>5 DEF CacheTypeInv
<1>3. HadInv /\ CacheTypeInv => CacheTypeOK
  <2> SUFFICES ASSUME HadInv, CacheTypeInv PROVE CacheTypeOK
    OBVIOUS
  <2>1. ASSUME NEW values, Had(values) PROVE values \in [Attrs -> 0 .. MaxVersion]
    BY <2>1, AttributeBounds DEF Had, HadOf, CacheTypeInv
  <2>2. \A i \in DOMAIN asked : asked[i] \in Request
    BY DEF CacheTypeInv
  <2> QED BY <2>1, <2>2 DEF CacheTypeOK, HadInv, CacheTypeInv
<1> QED BY <1>1, <1>2, <1>3, NextHad, NextCacheTypes, PTL DEF CacheSpec

-----------------------------------------------------------------------------
(* The order of the frames.  What a frame brings was not older, when the    *)
(* device sent it, than what the frames before it bring, nor than the cache; *)
(* as long as none is handled before it, that stays so.                     *)

InOrder ==
  \A i, j \in DOMAIN air : i < j =>
    \A a \in Updates(air[i]) \cap Updates(air[j]) : air[i].values[a] <= air[j].values[a]

NotBehind ==
  \A i \in DOMAIN air : ~air[i].overtaken =>
    \A a \in Updates(air[i]) : cache[a] <= air[i].values[a]

OrderInv == HadInv /\ InOrder /\ NotBehind

\* What the frames are.
LEMMA FrameFacts ==
  ASSUME HadInv, NEW i \in DOMAIN air
  PROVE  /\ air[i] \in AnyFrame /\ Updates(air[i]) \subseteq air[i].good
         /\ air[i].good \subseteq Attrs /\ air[i].values \in [Attrs -> Nat]
         /\ \A a \in air[i].good : air[i].values[a] <= real[a]
<1>1. PICK f \in AnyFrame : f = air[i] /\ HadOf(f.values, f.good)
  BY DEF HadInv, AirInv
<1> QED BY <1>1 DEF AnyFrame, HadOf, Updates

\* A frame brings what the device has at the time it is sent.
LEMMA SentInOrder ==
  ASSUME OrderInv, NEW frame \in AnyFrame, air' = Append(air, frame), cache' = cache,
         \A a \in Attrs : real[a] <= frame.values[a]
  PROVE  InOrder' /\ NotBehind'
<1>1. /\ Len(air) \in Nat /\ DOMAIN air = 1 .. Len(air) /\ DOMAIN air' = 1 .. Len(air) + 1
      /\ \A i \in DOMAIN air : air'[i] = air[i]
      /\ air'[Len(air) + 1] = frame
  BY DEF OrderInv, HadInv, AirInv
<1>2. /\ frame.values \in [Attrs -> Nat] /\ Updates(frame) \subseteq Attrs
      /\ real \in [Attrs -> Nat] /\ cache \in [Attrs -> Nat] /\ \A a \in Attrs : cache[a] <= real[a]
  BY DEF AnyFrame, Updates, OrderInv, HadInv, Had, HadOf
<1>3. InOrder'
  <2> SUFFICES ASSUME NEW i \in DOMAIN air', NEW j \in DOMAIN air', i < j,
                      NEW a \in Updates(air'[i]) \cap Updates(air'[j])
               PROVE  air'[i].values[a] <= air'[j].values[a]
    BY DEF InOrder, Updates
  <2>1. i \in DOMAIN air /\ air'[i] = air[i]
    BY <1>1
  <2>2. CASE j \in DOMAIN air
    BY <1>1, <2>1, <2>2 DEF OrderInv, InOrder
  <2>3. CASE j = Len(air) + 1
    <3>1. /\ a \in Attrs /\ air[i].values[a] <= real[a] /\ air[i].values[a] \in Nat
      BY <2>1, FrameFacts DEF OrderInv
    <3> QED BY <1>1, <1>2, <2>1, <2>3, <3>1
  <2> QED BY <1>1, <2>2, <2>3
<1>4. NotBehind'
  <2> SUFFICES ASSUME NEW i \in DOMAIN air', ~air'[i].overtaken, NEW a \in Updates(air'[i])
               PROVE  cache[a] <= air'[i].values[a]
    BY DEF NotBehind, Updates
  <2>1. CASE i \in DOMAIN air
    BY <1>1, <2>1 DEF OrderInv, NotBehind
  <2>2. CASE i = Len(air) + 1
    BY <1>1, <1>2, <2>2
  <2> QED BY <1>1, <2>1, <2>2
<1> QED BY <1>3, <1>4

\* Frames that are handled or lost leave the others in their order.
LEMMA LeftInOrder ==
  ASSUME OrderInv, cache' = cache \/ \A a \in Attrs : cache'[a] \in {0, cache[a]},
         NEW old \in [DOMAIN air' -> DOMAIN air],
         \A j \in DOMAIN air' : air'[j] = air[old[j]],
         \A j, k \in DOMAIN air' : j < k => old[j] < old[k]
  PROVE  InOrder' /\ NotBehind'
<1>1. InOrder'
  <2> SUFFICES ASSUME NEW i \in DOMAIN air', NEW j \in DOMAIN air', i < j,
                      NEW a \in Updates(air'[i]) \cap Updates(air'[j])
               PROVE  air'[i].values[a] <= air'[j].values[a]
    BY DEF InOrder, Updates
  <2> QED BY DEF OrderInv, InOrder
<1>2. NotBehind'
  <2> SUFFICES ASSUME NEW i \in DOMAIN air', ~air'[i].overtaken, NEW a \in Updates(air'[i])
               PROVE  cache'[a] <= air'[i].values[a]
    BY DEF NotBehind, Updates
  <2>1. PICK k \in DOMAIN air : air'[i] = air[k]
    OBVIOUS
  <2>2. a \in Attrs /\ air[k].values[a] \in Nat /\ cache[a] <= air[k].values[a]
    BY <2>1, FrameFacts DEF OrderInv, NotBehind
  <2> QED BY <2>1, <2>2
<1> QED BY <1>1, <1>2

\* A frame is handled: the earlier ones are overtaken, and those after it bring
\* nothing older.
LEMMA HandleInOrder ==
  ASSUME OrderInv, NEW i \in DOMAIN air, Handle(i)
  PROVE  InOrder' /\ NotBehind'
<1> DEFINE frame == air[i]
           old == [j \in 1 .. Len(air) - 1 |-> IF j < i THEN j ELSE j + 1]
<1>1. air \in Seq(AnyFrame) /\ Len(air) \in Nat /\ DOMAIN air = 1 .. Len(air) /\ i \in 1 .. Len(air)
  BY DEF OrderInv, HadInv, AirInv
<1>2. /\ cache' = [a \in Attrs |-> IF a \in Updates(frame) THEN frame.values[a] ELSE cache[a]]
      /\ air' = [j \in 1 .. Len(air) - 1 |-> IF j < i THEN [air[j] EXCEPT !.overtaken = TRUE]
                                             ELSE air[j + 1]]
  BY DEF Handle
<1>3. DOMAIN air' = 1 .. Len(air) - 1
  BY <1>2
<1>4. ASSUME NEW j \in DOMAIN air'
      PROVE  /\ old[j] \in DOMAIN air /\ Updates(air'[j]) = Updates(air[old[j]])
             /\ air'[j].values = air[old[j]].values
             /\ ~air'[j].overtaken => ~air[old[j]].overtaken /\ i < old[j]
  <2>1. CASE j < i
    <3>1. j \in DOMAIN air /\ old[j] = j
      BY <1>1, <1>3, <2>1
    <3>2. air'[j] = [air[j] EXCEPT !.overtaken = TRUE]
      BY <1>2, <1>3, <2>1
    <3>3. PICK f \in AnyFrame : f = air[j]
      BY <3>1, FrameFacts DEF OrderInv
    <3>4. /\ [f EXCEPT !.overtaken = TRUE].kind = f.kind /\ [f EXCEPT !.overtaken = TRUE].good = f.good
          /\ [f EXCEPT !.overtaken = TRUE].values = f.values /\ [f EXCEPT !.overtaken = TRUE].overtaken
      BY DEF AnyFrame
    <3> QED BY <3>1, <3>2, <3>3, <3>4 DEF Updates
  <2>2. CASE ~(j < i)
    <3>1. old[j] = j + 1 /\ j + 1 \in DOMAIN air /\ i < j + 1 /\ air'[j] = air[j + 1]
      BY <1>1, <1>2, <1>3, <2>2
    <3> QED BY <3>1
  <2> QED BY <2>1, <2>2
<1>5. \A j, k \in DOMAIN air' : j < k => old[j] < old[k]
  BY <1>1, <1>3
<1> HIDE DEF old
<1>6. InOrder'
  <2> SUFFICES ASSUME NEW j \in DOMAIN air', NEW k \in DOMAIN air', j < k,
                      NEW a \in Updates(air'[j]) \cap Updates(air'[k])
               PROVE  air'[j].values[a] <= air'[k].values[a]
    BY DEF InOrder, Updates
  <2>1. /\ old[j] \in DOMAIN air /\ old[k] \in DOMAIN air /\ old[j] < old[k]
        /\ a \in Updates(air[old[j]]) \cap Updates(air[old[k]])
        /\ air'[j].values = air[old[j]].values /\ air'[k].values = air[old[k]].values
    BY <1>4, <1>5
  <2>2. air[old[j]].values[a] <= air[old[k]].values[a]
    BY <2>1 DEF OrderInv, InOrder
  <2> QED BY <2>1, <2>2
<1>7. NotBehind'
  <2> SUFFICES ASSUME NEW j \in DOMAIN air', ~air'[j].overtaken, NEW a \in Updates(air'[j])
               PROVE  cache'[a] <= air'[j].values[a]
    BY DEF NotBehind, Updates
  <2>1. /\ old[j] \in DOMAIN air /\ ~air[old[j]].overtaken /\ i < old[j]
        /\ a \in Updates(air[old[j]]) /\ air'[j].values = air[old[j]].values
    BY <1>4
  <2>2. a \in Attrs
    BY <2>1, FrameFacts DEF OrderInv
  <2>3. CASE a \in Updates(frame)
    <3>1. frame.values[a] <= air[old[j]].values[a]
      BY <2>1, <2>3 DEF OrderInv, InOrder
    <3> QED BY <1>2, <2>1, <2>2, <2>3, <3>1
  <2>4. CASE a \notin Updates(frame)
    <3>1. cache[a] <= air[old[j]].values[a]
      BY <2>1 DEF OrderInv, NotBehind
    <3> QED BY <1>2, <2>1, <2>2, <2>4, <3>1
  <2> QED BY <2>3, <2>4
<1> QED BY <1>6, <1>7

\* No frame is added, and the cache loses values at most.
LEMMA OrderUnchanged ==
  ASSUME OrderInv, air' = air \/ air' = <<>>,
         cache' = cache \/ air' = <<>> \/ \A a \in Attrs : cache'[a] \in {0, cache[a]}
  PROVE  InOrder' /\ NotBehind'
<1>1. CASE air' = <<>>
  BY <1>1 DEF InOrder, NotBehind
<1>2. CASE air' = air /\ air' # <<>>
  <2> DEFINE old == [j \in DOMAIN air |-> j]
  <2>1. /\ old \in [DOMAIN air' -> DOMAIN air] /\ \A j \in DOMAIN air' : air'[j] = air[old[j]]
        /\ \A j, k \in DOMAIN air' : j < k => old[j] < old[k]
    BY <1>2
  <2> HIDE DEF old
  <2> QED BY <1>2, <2>1, LeftInOrder
<1> QED BY <1>1, <1>2

LEMMA NextInOrder == OrderInv /\ [CacheNext]_cacheVars => OrderInv'
<1> SUFFICES ASSUME OrderInv, [CacheNext]_cacheVars PROVE InOrder' /\ NotBehind'
  BY NextHad DEF OrderInv
<1>1. /\ air \in Seq(AnyFrame) /\ real \in [Attrs -> Nat] /\ cache \in [Attrs -> Nat]
      /\ \A a \in Attrs : cache[a] <= real[a]
  BY DEF OrderInv, HadInv, AirInv, Had, HadOf
<1>2. ASSUME NEW attrs \in SUBSET Attrs,
             ReadAttributes(attrs) \/ WriteAttributes(attrs) \/ ConfigureReporting(attrs)
      PROVE  InOrder' /\ NotBehind'
  BY <1>2, OrderUnchanged DEF ReadAttributes, WriteAttributes, ConfigureReporting, Ask
<1>3. ASSUME NEW request \in Request, Answer(request) PROVE InOrder' /\ NotBehind'
  <2> DEFINE written == IF request.kind = "write" THEN request.attrs ELSE {}
             After(attrs) == [a \in Attrs |-> IF a \in attrs THEN real[a] + 1 ELSE real[a]]
             Said(good) == [kind |-> request.kind, good |-> good,
                            bad |-> IF request.kind = "write" THEN written \ good
                                    ELSE request.attrs \ supported,
                            values |-> After(written), overtaken |-> FALSE]
  <2>1. PICK good \in SUBSET (request.attrs \cap supported) : air' = Append(air, Said(good))
    BY <1>3 DEF Answer
  <2>2. request.attrs \subseteq Attrs /\ request.kind \in {"read", "write", "configure"}
    BY DEF Request
  <2>3. After(written) \in [Attrs -> Nat] /\ \A a \in Attrs : real[a] <= After(written)[a]
    BY <1>1
  <2>4. Said(good) \in AnyFrame /\ Said(good).values = After(written)
    BY <2>2, <2>3 DEF AnyFrame
  <2>5. PICK frame \in AnyFrame : air' = Append(air, frame) /\ \A a \in Attrs : real[a] <= frame.values[a]
    <3> HIDE DEF Said, After
    <3> QED BY <2>1, <2>3, <2>4
  <2>6. cache' = cache
    BY <1>3 DEF Answer
  <2> QED BY <2>5, <2>6, SentInOrder
<1>4. ASSUME NEW a \in Attrs, Report(a) PROVE InOrder' /\ NotBehind'
  <2>1. PICK frame : frame = [kind |-> "report", good |-> {a}, bad |-> {},
                              values |-> real, overtaken |-> FALSE]
    OBVIOUS
  <2>2. frame \in AnyFrame /\ \A x \in Attrs : real[x] <= frame.values[x]
    BY <1>1, <2>1 DEF AnyFrame
  <2>3. cache' = cache /\ air' = Append(air, frame)
    BY <1>4, <2>1 DEF Report
  <2> QED BY <2>2, <2>3, SentInOrder
<1>5. ASSUME NEW a \in Attrs, ValueChanges(a) \/ SupportChanges(a) PROVE InOrder' /\ NotBehind'
  BY <1>5, OrderUnchanged DEF ValueChanges, SupportChanges
<1>6. ASSUME NEW a \in Attrs, ClearAttribute(a) PROVE InOrder' /\ NotBehind'
  <2>1. air' = air /\ cache' = [cache EXCEPT ![a] = 0]
    BY <1>6 DEF ClearAttribute, None
  <2>2. \A x \in Attrs : cache'[x] \in {0, cache[x]}
    BY <1>1, <2>1
  <2> QED BY <2>1, <2>2, OrderUnchanged
<1>7. CASE RequestLost
  BY <1>7, OrderUnchanged DEF RequestLost
<1>8. ASSUME NEW i \in DOMAIN air, FrameLost(i) PROVE InOrder' /\ NotBehind'
  <2> DEFINE old == [j \in DOMAIN air' |-> IF j < i THEN j ELSE j + 1]
  <2>1. air' = RemoveAt(air, i) /\ cache' = cache
    BY <1>8 DEF FrameLost
  <2>2. i \in 1 .. Len(air) /\ Len(air) \in Nat /\ DOMAIN air = 1 .. Len(air)
    BY <1>1
  <2>3. /\ DOMAIN air' = 1 .. Len(air) - 1
        /\ \A j \in DOMAIN air' : air'[j] = air[IF j < i THEN j ELSE j + 1]
    BY <1>1, <2>1, RemovedAt
  <2>4. /\ old \in [DOMAIN air' -> DOMAIN air] /\ \A j \in DOMAIN air' : air'[j] = air[old[j]]
        /\ \A j, k \in DOMAIN air' : j < k => old[j] < old[k]
    BY <2>2, <2>3
  <2> HIDE DEF old
  <2> QED BY <2>1, <2>4, LeftInOrder
<1>9. ASSUME NEW i \in DOMAIN air, Handle(i) PROVE InOrder' /\ NotBehind'
  BY <1>9, HandleInOrder
<1>10. CASE InitializedPlain \/ \E copied \in BOOLEAN : InitializedCustom(copied)
  BY <1>10, OrderUnchanged DEF InitializedPlain, InitializedCustom
<1>11. CASE SaveWorker
  BY <1>11, OrderUnchanged DEF SaveWorker
<1>12. CASE RestartCache
  BY <1>12, OrderUnchanged DEF RestartCache
<1>13. CASE UNCHANGED cacheVars
  BY <1>13, OrderUnchanged DEF cacheVars
<1> QED BY <1>2, <1>3, <1>4, <1>5, <1>6, <1>7, <1>8, <1>9, <1>10, <1>11, <1>12, <1>13 DEF CacheNext

\* A step that makes a value of the cache an earlier one handles a frame that was
\* overtaken, or is a restart.
LEMMA GoesBackStep ==
  ASSUME OrderInv, CacheNext, NEW a \in Attrs, cache'[a] # None, cache'[a] < cache[a]
  PROVE  RestartCache \/ \E i \in DOMAIN air : air[i].overtaken /\ Handle(i)
<1>1. cache \in [Attrs -> Nat] /\ cache' # cache
  BY DEF OrderInv, HadInv, Had
<1>2. ASSUME NEW i \in DOMAIN air, Handle(i) PROVE air[i].overtaken
  <2> SUFFICES ASSUME ~air[i].overtaken PROVE FALSE
    OBVIOUS
  <2>1. /\ cache'[a] = IF a \in Updates(air[i]) THEN air[i].values[a] ELSE cache[a]
    BY <1>2 DEF Handle
  <2>2. a \in Updates(air[i]) => cache[a] <= air[i].values[a] /\ air[i].values[a] \in Nat
    BY FrameFacts DEF OrderInv, NotBehind
  <2> QED BY <1>1, <2>1, <2>2
<1>3. ASSUME NEW b \in Attrs PROVE ~ClearAttribute(b)
  BY <1>1 DEF ClearAttribute, None
<1>4. ~InitializedPlain /\ ~\E copied \in BOOLEAN : InitializedCustom(copied)
  BY <1>1 DEF InitializedPlain, InitializedCustom, None
<1>5. \A attrs : ~ReadAttributes(attrs) /\ ~WriteAttributes(attrs) /\ ~ConfigureReporting(attrs)
  BY <1>1 DEF ReadAttributes, WriteAttributes, ConfigureReporting, Ask
<1>6. \A b : ~Report(b) /\ ~ValueChanges(b) /\ ~SupportChanges(b)
  BY <1>1 DEF Report, ValueChanges, SupportChanges
<1>7. \A request : ~Answer(request)
  BY <1>1 DEF Answer
<1>8. ~RequestLost /\ ~SaveWorker /\ \A i : ~FrameLost(i)
  BY <1>1 DEF RequestLost, SaveWorker, FrameLost
<1> QED BY <1>2, <1>3, <1>4, <1>5, <1>6, <1>7, <1>8 DEF CacheNext

\* The cache goes back to an earlier value for a restart, or for a frame that
\* another one overtook: never for a frame that is handled in its turn.
THEOREM OnlyOvertakenGoBack == CacheSpec => GoesBackOnlyOvertaken
<1>1. CacheInit => OrderInv
  <2>1. CacheInit => HadInv
    BY DEF CacheInit, HadInv, Had, HadOf, AirInv, SavesInv, None
  <2> QED BY <2>1 DEF OrderInv, InOrder, NotBehind, CacheInit
<1>2. OrderInv /\ [CacheNext]_cacheVars =>
        [\A a \in Attrs : cache'[a] # None /\ cache'[a] < cache[a] =>
           RestartCache \/ \E i \in DOMAIN air : air[i].overtaken /\ Handle(i)]_cacheVars
  BY GoesBackStep
<1> QED BY <1>1, <1>2, NextInOrder, PTL DEF CacheSpec, GoesBackOnlyOvertaken

-----------------------------------------------------------------------------
(* The rows.  Events before the one that saves the device fail, and it makes *)
(* up for them; of the others, the last one about an attribute decides.     *)

WritesAt(events, i, a) == events[i].kind \in {"updated", "cleared"} /\ events[i].attr = a
MarksAt(events, i, a) == events[i].kind \in {"supported", "unsupported"} /\ events[i].attr = a
SavesDevice(events, i) == events[i].kind = "save_device"

\* The event at i is the last one that writes, or marks, an attribute.
NotWrittenAfter(events, i, a) == \A j \in DOMAIN events : j > i => ~WritesAt(events, j, a)
NotMarkedAfter(events, i, a) == \A j \in DOMAIN events : j > i => ~MarksAt(events, j, a)

QueueInv ==
  /\ device \in {"new", "plain", "custom"} /\ saved \in BOOLEAN
  /\ ~saved => (\A a \in Attrs : attrRows[a] = None) /\ unsupportedRows = {}
  /\ saved => device # "new" /\ \A i \in DOMAIN saves : ~SavesDevice(saves, i)
  /\ device = "new" => \A i \in DOMAIN saves : ~SavesDevice(saves, i)
  /\ ~saved /\ device # "new" => \E i \in DOMAIN saves : SavesDevice(saves, i)
  /\ \A i, j \in DOMAIN saves : SavesDevice(saves, i) /\ SavesDevice(saves, j) => i = j
  /\ device # "custom" => \A a \in Attrs : cache[a] # None => a \in stamped

\* What the queue will write of an attribute's value, and of its support.
ValueFollows(a) ==
  /\ \A i \in DOMAIN saves :
       /\ WritesAt(saves, i, a) /\ NotWrittenAfter(saves, i, a)
       /\ cache[a] # None \/ device # "custom"
       => saves[i].value = cache[a]
  /\ \A i \in DOMAIN saves :
       /\ SavesDevice(saves, i) /\ NotWrittenAfter(saves, i, a)
       /\ cache[a] # None /\ device = "custom"
       => saves[i].cache[a] = cache[a]
  /\ /\ saved /\ NotWrittenAfter(saves, 0, a)
     /\ cache[a] # None \/ device = "plain"
     => attrRows[a] = cache[a]

MarkFollows(a) ==
  /\ \A i \in DOMAIN saves :
       MarksAt(saves, i, a) /\ NotMarkedAfter(saves, i, a) =>
         /\ a \in unsupported => saves[i].kind = "unsupported"
         /\ device # "custom" /\ saves[i].kind = "unsupported" => a \in unsupported
  /\ \A i \in DOMAIN saves :
       /\ SavesDevice(saves, i) /\ NotMarkedAfter(saves, i, a)
       /\ a \in unsupported /\ device = "custom"
       => a \in saves[i].unsupported
  /\ saved /\ NotMarkedAfter(saves, 0, a) =>
       /\ a \in unsupported => a \in unsupportedRows
       /\ device = "plain" /\ a \in unsupportedRows => a \in unsupported

FollowInv == HadInv /\ QueueInv /\ \A a \in Attrs : ValueFollows(a) /\ MarkFollows(a)

\* The sequence of a set lists all of its members.
LEMMA AllListed ==
  ASSUME NEW S, IsFiniteSet(S)
  PROVE  /\ SetToSeq(S) \in Seq(S)
         /\ \A x \in S : \E i \in DOMAIN SetToSeq(S) : SetToSeq(S)[i] = x
<1> DEFINE n == Cardinality(S)
<1>1. n \in Nat /\ ExistsBijection(1 .. n, S)
  BY FS_CardinalityType
<1>2. \E f \in [1 .. n -> S] : IsInjective(f)
  BY <1>1 DEF ExistsBijection, Bijection, Injection
<1>3. SetToSeq(S) \in Injection(1 .. n, S)
  BY <1>2 DEF SetToSeq, Injection
<1>4. IsFiniteSet(1 .. n) /\ Cardinality(1 .. n) = n
  <2>1. Cardinality(1 .. n) = IF 1 > n THEN 0 ELSE n - 1 + 1
    BY <1>1, FS_Interval
  <2> QED BY <1>1, <2>1, FS_Interval
<1>5. SetToSeq(S) \in Surjection(1 .. n, S)
  BY <1>3, <1>4, FS_Injection
<1> HIDE DEF n
<1>6. SetToSeq(S) \in [1 .. n -> S]
  BY <1>3 DEF Injection
<1> QED BY <1>1, <1>5, <1>6 DEF Surjection

\* The events for a set of attributes: those of its members.
LEMMA EventsOf ==
  ASSUME NEW kind, NEW attrs \in SUBSET Attrs, NEW values,
         NEW events, events = EventsFor(kind, attrs, values)
  PROVE  /\ \A i \in DOMAIN events : /\ events[i].kind = kind /\ events[i].attr \in attrs
                                   /\ events[i].value = values[events[i].attr]
         /\ \A a \in attrs : \E i \in DOMAIN events : events[i].attr = a
<1> DEFINE list == SetToSeq(attrs)
<1>1. /\ list \in Seq(attrs)
      /\ \A a \in attrs : \E i \in DOMAIN list : list[i] = a
  <2>1. IsFiniteSet(attrs)
    BY AttrsAreFinite, FS_Subset
  <2> QED BY <2>1, AllListed
<1>2. events = [i \in DOMAIN list |-> CacheEvent(kind, list[i], values[list[i]])]
  BY DEF EventsFor
<1> HIDE DEF list
<1>3. \A i \in DOMAIN events : events[i] = CacheEvent(kind, list[i], values[list[i]]) /\ list[i] \in attrs
  BY <1>1, <1>2
<1>4. \A i \in DOMAIN events : /\ events[i].kind = kind /\ events[i].attr = list[i]
                              /\ events[i].value = values[list[i]]
  BY <1>3 DEF CacheEvent
<1>5. DOMAIN events = DOMAIN list
  BY <1>2
<1> QED BY <1>1, <1>3, <1>4, <1>5

\* The places of the elements of two sequences in the sequence of both.
LEMMA Places ==
  ASSUME NEW S, NEW s \in Seq(S), NEW more \in Seq(S), NEW t, t = s \o more
  PROVE  /\ \A i \in DOMAIN s : i \in DOMAIN t /\ t[i] = s[i] /\ i <= Len(s) /\ i \in Nat
         /\ \A i \in DOMAIN t : i \notin DOMAIN s =>
              i - Len(s) \in DOMAIN more /\ t[i] = more[i - Len(s)] /\ i > Len(s) /\ i \in Nat
         /\ \A k \in DOMAIN more : /\ Len(s) + k \in DOMAIN t /\ t[Len(s) + k] = more[k]
                                  /\ Len(s) + k > Len(s)
         /\ Len(s) \in Nat
<1>1. /\ t \in Seq(S) /\ Len(t) = Len(s) + Len(more)
      /\ \A i \in 1 .. Len(s) + Len(more) : t[i] = IF i <= Len(s) THEN s[i] ELSE more[i - Len(s)]
  BY ConcatProperties
<1>2. /\ DOMAIN t = 1 .. Len(t) /\ DOMAIN s = 1 .. Len(s) /\ DOMAIN more = 1 .. Len(more)
      /\ Len(s) \in Nat /\ Len(more) \in Nat
  BY <1>1
<1>3. \A i \in DOMAIN s : i \in DOMAIN t /\ t[i] = s[i] /\ i <= Len(s) /\ i \in Nat
  BY <1>1, <1>2
<1>4. ASSUME NEW i \in DOMAIN t, i \notin DOMAIN s
      PROVE  i - Len(s) \in DOMAIN more /\ t[i] = more[i - Len(s)] /\ i > Len(s) /\ i \in Nat
  BY <1>1, <1>2, <1>4
<1>5. ASSUME NEW k \in DOMAIN more
      PROVE  Len(s) + k \in DOMAIN t /\ t[Len(s) + k] = more[k] /\ Len(s) + k > Len(s)
  <2>1. Len(s) + k \in 1 .. Len(s) + Len(more) /\ ~(Len(s) + k <= Len(s)) /\ (Len(s) + k) - Len(s) = k
    BY <1>2
  <2> QED BY <1>1, <1>2, <2>1
<1> QED BY <1>2, <1>3, <1>4, <1>5

\* Events are added about what changes in the cache, and about all that does.
Event == ValueEvent \cup DeviceEvent

LEMMA EventsFollow ==
  ASSUME NEW a \in Attrs, HadInv, QueueInv, ValueFollows(a), MarkFollows(a),
         NEW more \in Seq(Event), saves' = saves \o more,
         UNCHANGED <<device, saved, attrRows, unsupportedRows>>,
         \A k \in DOMAIN more : ~SavesDevice(more, k),
         \A k \in DOMAIN more : WritesAt(more, k, a) => more[k].value = cache'[a],
         \/ \E k \in DOMAIN more : WritesAt(more, k, a)
         \/ cache'[a] = cache[a]
         \/ device = "custom" /\ cache'[a] = None,
         \A k \in DOMAIN more : MarksAt(more, k, a) => (more[k].kind = "unsupported" <=> a \in unsupported'),
         \/ \E k \in DOMAIN more : MarksAt(more, k, a)
         \/ a \in unsupported' <=> a \in unsupported
  PROVE  ValueFollows(a)' /\ MarkFollows(a)'
<1>1. saves \in Seq(Event)
  BY DEF HadInv, SavesInv, Event
<1> DEFINE all == saves \o more
           old == DOMAIN saves
<1>2. saves' = all
  OBVIOUS
<1>3. /\ \A i \in old : i \in DOMAIN all /\ all[i] = saves[i] /\ i <= Len(saves) /\ i \in Nat
      /\ \A i \in DOMAIN all : i \notin old =>
           i - Len(saves) \in DOMAIN more /\ all[i] = more[i - Len(saves)] /\ i > Len(saves) /\ i \in Nat
      /\ \A k \in DOMAIN more : /\ Len(saves) + k \in DOMAIN all /\ all[Len(saves) + k] = more[k]
                                /\ Len(saves) + k > Len(saves)
      /\ Len(saves) \in Nat
  BY <1>1, Places
<1> HIDE DEF all
<1>4. \A i \in old : WritesAt(all, i, a) <=> WritesAt(saves, i, a)
  BY <1>3 DEF WritesAt
<1>5. \A i \in old : MarksAt(all, i, a) <=> MarksAt(saves, i, a)
  BY <1>3 DEF MarksAt
<1>6. \A i \in DOMAIN all : SavesDevice(all, i) => i \in old /\ SavesDevice(saves, i)
  BY <1>3 DEF SavesDevice
<1>7. ASSUME NEW i \in Nat, i <= Len(saves), NotWrittenAfter(all, i, a)
      PROVE  NotWrittenAfter(saves, i, a) /\ \A k \in DOMAIN more : ~WritesAt(more, k, a)
  <2>1. NotWrittenAfter(saves, i, a)
    BY <1>3, <1>4, <1>7 DEF NotWrittenAfter
  <2>2. ASSUME NEW k \in DOMAIN more, WritesAt(more, k, a) PROVE FALSE
    <3>1. Len(saves) + k \in DOMAIN all /\ Len(saves) + k > i
      <4>1. k \in Nat
        OBVIOUS
      <4> QED BY <1>3, <1>7, <4>1
    <3>2. WritesAt(all, Len(saves) + k, a)
      BY <1>3, <2>2 DEF WritesAt
    <3> QED BY <1>7, <3>1, <3>2 DEF NotWrittenAfter
  <2> QED BY <2>1, <2>2
<1>8. ASSUME NEW i \in Nat, i <= Len(saves), NotMarkedAfter(all, i, a)
      PROVE  NotMarkedAfter(saves, i, a) /\ \A k \in DOMAIN more : ~MarksAt(more, k, a)
  <2>1. NotMarkedAfter(saves, i, a)
    BY <1>3, <1>5, <1>8 DEF NotMarkedAfter
  <2>2. ASSUME NEW k \in DOMAIN more, MarksAt(more, k, a) PROVE FALSE
    <3>1. Len(saves) + k \in DOMAIN all /\ Len(saves) + k > i
      <4>1. k \in Nat
        OBVIOUS
      <4> QED BY <1>3, <1>8, <4>1
    <3>2. MarksAt(all, Len(saves) + k, a)
      BY <1>3, <2>2 DEF MarksAt
    <3> QED BY <1>8, <3>1, <3>2 DEF NotMarkedAfter
  <2> QED BY <2>1, <2>2
<1>9. ValueFollows(a)'
  <2>1. ASSUME NEW i \in DOMAIN all, WritesAt(all, i, a), NotWrittenAfter(all, i, a),
               cache'[a] # None \/ device # "custom"
        PROVE  all[i].value = cache'[a]
    <3>1. CASE i \in old
      <4>1. NotWrittenAfter(saves, i, a) /\ \A k \in DOMAIN more : ~WritesAt(more, k, a)
        BY <1>3, <1>7, <2>1, <3>1
      <4>2. cache'[a] = cache[a]
        BY <2>1, <4>1
      <4>3. WritesAt(saves, i, a) /\ all[i] = saves[i]
        BY <1>3, <1>4, <2>1, <3>1
      <4> QED BY <2>1, <3>1, <4>1, <4>2, <4>3 DEF ValueFollows
    <3>2. CASE i \notin old
      <4>1. i - Len(saves) \in DOMAIN more /\ all[i] = more[i - Len(saves)]
        BY <1>3, <3>2
      <4>2. WritesAt(more, i - Len(saves), a)
        BY <2>1, <4>1 DEF WritesAt
      <4> QED BY <4>1, <4>2
    <3> QED BY <3>1, <3>2
  <2>2. ASSUME NEW i \in DOMAIN all, SavesDevice(all, i), NotWrittenAfter(all, i, a),
               cache'[a] # None, device = "custom"
        PROVE  all[i].cache[a] = cache'[a]
    <3>1. i \in old /\ SavesDevice(saves, i) /\ all[i] = saves[i]
      BY <1>3, <1>6, <2>2
    <3>2. NotWrittenAfter(saves, i, a) /\ \A k \in DOMAIN more : ~WritesAt(more, k, a)
      BY <1>3, <1>7, <2>2, <3>1
    <3>3. cache'[a] = cache[a]
      BY <2>2, <3>2
    <3> QED BY <2>2, <3>1, <3>2, <3>3 DEF ValueFollows
  <2>3. ASSUME saved, NotWrittenAfter(all, 0, a), cache'[a] # None \/ device = "plain"
        PROVE  attrRows[a] = cache'[a]
    <3>1. NotWrittenAfter(saves, 0, a) /\ \A k \in DOMAIN more : ~WritesAt(more, k, a)
      BY <1>3, <1>7, <2>3
    <3>2. cache'[a] = cache[a]
      BY <2>3, <3>1
    <3> QED BY <2>3, <3>1, <3>2 DEF ValueFollows
  <2> QED BY <1>2, <2>1, <2>2, <2>3 DEF ValueFollows, WritesAt, NotWrittenAfter, SavesDevice
<1>10. MarkFollows(a)'
  <2>1. ASSUME NEW i \in DOMAIN all, MarksAt(all, i, a), NotMarkedAfter(all, i, a)
        PROVE  /\ a \in unsupported' => all[i].kind = "unsupported"
               /\ device # "custom" /\ all[i].kind = "unsupported" => a \in unsupported'
    <3>1. CASE i \in old
      <4>1. NotMarkedAfter(saves, i, a) /\ \A k \in DOMAIN more : ~MarksAt(more, k, a)
        BY <1>3, <1>8, <2>1, <3>1
      <4>2. a \in unsupported' <=> a \in unsupported
        BY <4>1
      <4>3. MarksAt(saves, i, a) /\ all[i] = saves[i]
        BY <1>3, <1>5, <2>1, <3>1
      <4> QED BY <2>1, <3>1, <4>1, <4>2, <4>3 DEF MarkFollows
    <3>2. CASE i \notin old
      <4>1. i - Len(saves) \in DOMAIN more /\ all[i] = more[i - Len(saves)]
        BY <1>3, <3>2
      <4>2. MarksAt(more, i - Len(saves), a)
        BY <2>1, <4>1 DEF MarksAt
      <4> QED BY <4>1, <4>2
    <3> QED BY <3>1, <3>2
  <2>2. ASSUME NEW i \in DOMAIN all, SavesDevice(all, i), NotMarkedAfter(all, i, a),
               a \in unsupported', device = "custom"
        PROVE  a \in all[i].unsupported
    <3>1. i \in old /\ SavesDevice(saves, i) /\ all[i] = saves[i]
      BY <1>3, <1>6, <2>2
    <3>2. NotMarkedAfter(saves, i, a) /\ \A k \in DOMAIN more : ~MarksAt(more, k, a)
      BY <1>3, <1>8, <2>2, <3>1
    <3> QED BY <2>2, <3>1, <3>2 DEF MarkFollows
  <2>3. ASSUME saved, NotMarkedAfter(all, 0, a)
        PROVE  /\ a \in unsupported' => a \in unsupportedRows
               /\ device = "plain" /\ a \in unsupportedRows => a \in unsupported'
    <3>1. NotMarkedAfter(saves, 0, a) /\ \A k \in DOMAIN more : ~MarksAt(more, k, a)
      BY <1>3, <1>8, <2>3
    <3> QED BY <2>3, <3>1 DEF MarkFollows
  <2> QED BY <1>2, <2>1, <2>2, <2>3 DEF MarkFollows, MarksAt, NotMarkedAfter, SavesDevice
<1> QED BY <1>9, <1>10

\* Events about attributes leave alone which device is saved.
LEMMA QueueGrows ==
  ASSUME HadInv, QueueInv, NEW more \in Seq(Event), saves' = saves \o more,
         UNCHANGED <<device, saved, attrRows, unsupportedRows>>,
         \A k \in DOMAIN more : ~SavesDevice(more, k),
         device # "custom" => \A a \in Attrs : cache'[a] # None => a \in stamped'
  PROVE  QueueInv'
<1>1. saves \in Seq(Event)
  BY DEF HadInv, SavesInv, Event
<1> DEFINE all == saves \o more
<1>2. /\ \A i \in DOMAIN saves : i \in DOMAIN all /\ all[i] = saves[i]
      /\ \A i \in DOMAIN all : i \notin DOMAIN saves =>
           i - Len(saves) \in DOMAIN more /\ all[i] = more[i - Len(saves)]
  BY <1>1, Places
<1>3. saves' = all
  OBVIOUS
<1> HIDE DEF all
<1>4. /\ \A i \in DOMAIN all : SavesDevice(all, i) => i \in DOMAIN saves /\ SavesDevice(saves, i)
      /\ \A i \in DOMAIN saves : SavesDevice(saves, i) => i \in DOMAIN all /\ SavesDevice(all, i)
  BY <1>2 DEF SavesDevice
<1>5. /\ saved => \A i \in DOMAIN all : ~SavesDevice(all, i)
      /\ device = "new" => \A i \in DOMAIN all : ~SavesDevice(all, i)
      /\ ~saved /\ device # "new" => \E i \in DOMAIN all : SavesDevice(all, i)
      /\ \A i, j \in DOMAIN all : SavesDevice(all, i) /\ SavesDevice(all, j) => i = j
  BY <1>4 DEF QueueInv
<1> QED BY <1>3, <1>5 DEF QueueInv, SavesDevice

\* What leaves the cache, the queue and the rows alone.
CacheState == <<device, cache, stamped, unsupported, saves, saved, attrRows, unsupportedRows>>

LEMMA FollowUnchanged ==
  ASSUME FollowInv, UNCHANGED CacheState
  PROVE  QueueInv' /\ \A a \in Attrs : ValueFollows(a)' /\ MarkFollows(a)'
BY DEF FollowInv, CacheState, QueueInv, ValueFollows, MarkFollows, WritesAt, MarksAt,
       NotWrittenAfter, NotMarkedAfter, SavesDevice

LEMMA HandleFollows ==
  ASSUME FollowInv, HadInv', NEW i \in DOMAIN air, Handle(i)
  PROVE  QueueInv' /\ \A a \in Attrs : ValueFollows(a)' /\ MarkFollows(a)'
<1>1. PICK frame \in AnyFrame : frame = air[i] /\ HadOf(frame.values, frame.good)
  BY DEF FollowInv, HadInv, AirInv
<1>2. /\ frame.values \in [Attrs -> Nat] /\ frame.good \subseteq Attrs
      /\ frame.bad \subseteq Attrs
  BY DEF AnyFrame
<1>3. /\ Updates(frame) \subseteq frame.good /\ Updates(frame) \subseteq Attrs
      /\ NowSupported(frame) \subseteq unsupported /\ NowSupported(frame) \subseteq Attrs
      /\ NowUnsupported(frame) \cap unsupported = {} /\ NowUnsupported(frame) \subseteq Attrs
  BY <1>2 DEF Updates, NowSupported, NowUnsupported
<1>4. /\ UNCHANGED <<device, saved, attrRows, unsupportedRows>>
      /\ cache' = [a \in Attrs |-> IF a \in Updates(frame) THEN frame.values[a] ELSE cache[a]]
      /\ stamped' = stamped \cup Updates(frame)
      /\ unsupported' = (unsupported \ NowSupported(frame)) \cup NowUnsupported(frame)
      /\ saves' = saves \o (EventsFor("updated", Updates(frame), frame.values) \o
                            EventsFor("supported", NowSupported(frame), frame.values) \o
                            EventsFor("unsupported", NowUnsupported(frame), frame.values))
  BY <1>1 DEF Handle, Save, rowVarsOfCache
<1>5. PICK updated : updated = EventsFor("updated", Updates(frame), frame.values)
  OBVIOUS
<1>6. PICK known : known = EventsFor("supported", NowSupported(frame), frame.values)
  OBVIOUS
<1>7. PICK unknown : unknown = EventsFor("unsupported", NowUnsupported(frame), frame.values)
  OBVIOUS
<1>8. updated \in Seq(ValueEvent) /\ known \in Seq(ValueEvent) /\ unknown \in Seq(ValueEvent)
  <2>1. HadOf(frame.values, Updates(frame))
    BY <1>1, <1>3 DEF HadOf
  <2>2. updated \in Seq(ValueEvent)
    BY <1>2, <1>3, <1>5, <2>1, EventsHad
  <2>3. known \in Seq(ValueEvent) /\ unknown \in Seq(ValueEvent)
    BY <1>2, <1>3, <1>6, <1>7, EventsHad
  <2> QED BY <2>2, <2>3
<1>9. /\ \A k \in DOMAIN updated : /\ updated[k].kind = "updated" /\ updated[k].attr \in Updates(frame)
                                  /\ updated[k].value = frame.values[updated[k].attr]
      /\ \A a \in Updates(frame) : \E k \in DOMAIN updated : updated[k].attr = a
  BY <1>3, <1>5, EventsOf
<1>10. /\ \A k \in DOMAIN known : known[k].kind = "supported" /\ known[k].attr \in NowSupported(frame)
       /\ \A a \in NowSupported(frame) : \E k \in DOMAIN known : known[k].attr = a
  BY <1>3, <1>6, EventsOf
<1>11. /\ \A k \in DOMAIN unknown : unknown[k].kind = "unsupported" /\ unknown[k].attr \in NowUnsupported(frame)
       /\ \A a \in NowUnsupported(frame) : \E k \in DOMAIN unknown : unknown[k].attr = a
  BY <1>3, <1>7, EventsOf
<1>12. PICK both : both = updated \o known
  OBVIOUS
<1>13. PICK more : more = both \o unknown
  OBVIOUS
<1>14. both \in Seq(ValueEvent) /\ more \in Seq(ValueEvent)
  BY <1>8, <1>12, <1>13, ConcatProperties
<1>15. /\ \A k \in DOMAIN both : \/ \E j \in DOMAIN updated : both[k] = updated[j]
                                 \/ \E j \in DOMAIN known : both[k] = known[j]
       /\ \A j \in DOMAIN updated : \E k \in DOMAIN both : both[k] = updated[j]
       /\ \A j \in DOMAIN known : \E k \in DOMAIN both : both[k] = known[j]
  <2>1. /\ \A k \in DOMAIN updated : k \in DOMAIN both /\ both[k] = updated[k]
        /\ \A k \in DOMAIN both : k \notin DOMAIN updated =>
             k - Len(updated) \in DOMAIN known /\ both[k] = known[k - Len(updated)]
        /\ \A j \in DOMAIN known : Len(updated) + j \in DOMAIN both /\ both[Len(updated) + j] = known[j]
    BY <1>8, <1>12, Places
  <2> QED BY <2>1
<1>16. /\ \A k \in DOMAIN more : \/ \E j \in DOMAIN both : more[k] = both[j]
                                 \/ \E j \in DOMAIN unknown : more[k] = unknown[j]
       /\ \A j \in DOMAIN both : \E k \in DOMAIN more : more[k] = both[j]
       /\ \A j \in DOMAIN unknown : \E k \in DOMAIN more : more[k] = unknown[j]
  <2>1. /\ \A k \in DOMAIN both : k \in DOMAIN more /\ more[k] = both[k]
        /\ \A k \in DOMAIN more : k \notin DOMAIN both =>
             k - Len(both) \in DOMAIN unknown /\ more[k] = unknown[k - Len(both)]
        /\ \A j \in DOMAIN unknown : Len(both) + j \in DOMAIN more /\ more[Len(both) + j] = unknown[j]
    BY <1>8, <1>13, <1>14, Places
  <2> QED BY <2>1
<1>17. ASSUME NEW k \in DOMAIN more
       PROVE  \/ more[k].kind = "updated" /\ more[k].attr \in Updates(frame)
                 /\ more[k].value = frame.values[more[k].attr]
              \/ more[k].kind = "supported" /\ more[k].attr \in NowSupported(frame)
              \/ more[k].kind = "unsupported" /\ more[k].attr \in NowUnsupported(frame)
  <2>1. \/ \E j \in DOMAIN updated : more[k] = updated[j]
        \/ \E j \in DOMAIN known : more[k] = known[j]
        \/ \E j \in DOMAIN unknown : more[k] = unknown[j]
    BY <1>15, <1>16
  <2> QED BY <1>9, <1>10, <1>11, <2>1
<1>18. /\ \A a \in Updates(frame) : \E k \in DOMAIN more : more[k].kind = "updated" /\ more[k].attr = a
       /\ \A a \in NowSupported(frame) : \E k \in DOMAIN more : more[k].kind = "supported" /\ more[k].attr = a
       /\ \A a \in NowUnsupported(frame) : \E k \in DOMAIN more : more[k].kind = "unsupported" /\ more[k].attr = a
  <2>1. ASSUME NEW a \in Updates(frame)
        PROVE  \E k \in DOMAIN more : more[k].kind = "updated" /\ more[k].attr = a
    <3>1. PICK j \in DOMAIN updated : updated[j].attr = a
      BY <1>9
    <3>2. PICK l \in DOMAIN both : both[l] = updated[j]
      BY <1>15
    <3>3. PICK k \in DOMAIN more : more[k] = both[l]
      BY <1>16
    <3> QED BY <1>9, <3>1, <3>2, <3>3
  <2>2. ASSUME NEW a \in NowSupported(frame)
        PROVE  \E k \in DOMAIN more : more[k].kind = "supported" /\ more[k].attr = a
    <3>1. PICK j \in DOMAIN known : known[j].attr = a
      BY <1>10
    <3>2. PICK l \in DOMAIN both : both[l] = known[j]
      BY <1>15
    <3>3. PICK k \in DOMAIN more : more[k] = both[l]
      BY <1>16
    <3> QED BY <1>10, <3>1, <3>2, <3>3
  <2>3. ASSUME NEW a \in NowUnsupported(frame)
        PROVE  \E k \in DOMAIN more : more[k].kind = "unsupported" /\ more[k].attr = a
    <3>1. PICK j \in DOMAIN unknown : unknown[j].attr = a
      BY <1>11
    <3>2. PICK k \in DOMAIN more : more[k] = unknown[j]
      BY <1>16
    <3> QED BY <1>11, <3>1, <3>2
  <2> QED BY <2>1, <2>2, <2>3
<1>19. /\ more \in Seq(Event) /\ saves' = saves \o more
       /\ \A k \in DOMAIN more : ~SavesDevice(more, k)
  <2>1. more \in Seq(Event)
    BY <1>14 DEF Event
  <2>2. saves' = saves \o more
    BY <1>4, <1>5, <1>6, <1>7, <1>12, <1>13
  <2> QED BY <1>17, <2>1, <2>2 DEF SavesDevice
<1>20. cache \in [Attrs -> Nat]
  BY DEF FollowInv, HadInv, Had
<1>21. QueueInv'
  <2>1. device # "custom" => \A a \in Attrs : cache'[a] # None => a \in stamped'
    BY <1>4, <1>20 DEF FollowInv, QueueInv
  <2> QED BY <1>4, <1>19, <2>1, QueueGrows DEF FollowInv
<1>22. ASSUME NEW a \in Attrs PROVE ValueFollows(a)' /\ MarkFollows(a)'
  <2>1. \A k \in DOMAIN more : WritesAt(more, k, a) => more[k].value = cache'[a]
    BY <1>4, <1>17 DEF WritesAt
  <2>2. (\E k \in DOMAIN more : WritesAt(more, k, a)) \/ cache'[a] = cache[a]
    BY <1>4, <1>18 DEF WritesAt
  <2>3. \A k \in DOMAIN more : MarksAt(more, k, a) => (more[k].kind = "unsupported" <=> a \in unsupported')
    <3>1. ASSUME NEW k \in DOMAIN more, MarksAt(more, k, a)
          PROVE  more[k].kind = "unsupported" <=> a \in unsupported'
      <4>1. CASE more[k].kind = "unsupported"
        BY <1>4, <1>17, <3>1, <4>1 DEF MarksAt
      <4>2. CASE more[k].kind = "supported"
        <5>1. a \in NowSupported(frame)
          BY <1>17, <3>1, <4>2 DEF MarksAt
        <5> QED BY <1>3, <1>4, <4>2, <5>1
      <4> QED BY <3>1, <4>1, <4>2 DEF MarksAt
    <3> QED BY <3>1
  <2>4. \/ \E k \in DOMAIN more : MarksAt(more, k, a)
        \/ a \in unsupported' <=> a \in unsupported
    BY <1>4, <1>18 DEF MarksAt
  <2> QED BY <1>4, <1>19, <2>1, <2>2, <2>3, <2>4, EventsFollow DEF FollowInv
<1> QED BY <1>21, <1>22

LEMMA ClearFollows ==
  ASSUME FollowInv, NEW c \in Attrs, ClearAttribute(c)
  PROVE  QueueInv' /\ \A a \in Attrs : ValueFollows(a)' /\ MarkFollows(a)'
<1>1. /\ UNCHANGED <<device, unsupported, saved, attrRows, unsupportedRows>>
      /\ cache' = [cache EXCEPT ![c] = None] /\ stamped' = stamped \ {c} /\ cache[c] # None
      /\ IF c \in stamped THEN saves' = saves \o <<CacheEvent("cleared", c, None)>> ELSE saves' = saves
  BY DEF ClearAttribute, Save, rowVarsOfCache
<1>2. cache \in [Attrs -> Nat] /\ saves \in Seq(Event)
  BY DEF FollowInv, HadInv, Had, SavesInv, Event
<1>3. PICK e : e = CacheEvent("cleared", c, None)
  OBVIOUS
<1>4. e \in Event /\ e.kind = "cleared" /\ e.attr = c /\ e.value = None
  BY <1>3 DEF CacheEvent, Event, ValueEvent, None
<1>5. PICK more : more = IF c \in stamped THEN <<e>> ELSE <<>>
  OBVIOUS
<1>6. /\ more \in Seq(Event) /\ saves' = saves \o more
      /\ \A k \in DOMAIN more : more[k] = e
      /\ c \in stamped => \E k \in DOMAIN more : more[k] = e
  <2>1. CASE c \in stamped
    <3>1. more = <<e>>
      BY <1>5, <2>1
    <3>2. /\ more \in Seq(Event) /\ \A k \in DOMAIN more : more[k] = e
          /\ 1 \in DOMAIN more /\ more[1] = e
      BY <1>4, <3>1
    <3> QED BY <1>1, <1>3, <2>1, <3>1, <3>2
  <2>2. CASE c \notin stamped
    <3>1. more = <<>>
      BY <1>5, <2>2
    <3>2. saves \o <<>> = saves
      BY <1>2, ConcatEmptySeq
    <3>3. saves' = saves
      BY <1>1, <2>2
    <3> QED BY <2>2, <3>1, <3>2, <3>3
  <2> QED BY <2>1, <2>2
<1>7. \A k \in DOMAIN more : ~SavesDevice(more, k)
  BY <1>4, <1>6 DEF SavesDevice
<1>8. QueueInv'
  <2>1. device # "custom" => \A a \in Attrs : cache'[a] # None => a \in stamped'
    BY <1>1, <1>2 DEF FollowInv, QueueInv
  <2> QED BY <1>1, <1>6, <1>7, <2>1, QueueGrows DEF FollowInv
<1>9. ASSUME NEW a \in Attrs PROVE ValueFollows(a)' /\ MarkFollows(a)'
  <2>1. \A k \in DOMAIN more : WritesAt(more, k, a) => more[k].value = cache'[a]
    BY <1>1, <1>2, <1>4, <1>6 DEF WritesAt
  <2>2. \/ \E k \in DOMAIN more : WritesAt(more, k, a)
        \/ cache'[a] = cache[a]
        \/ device = "custom" /\ cache'[a] = None
    <3>1. CASE a # c
      BY <1>1, <1>2, <3>1
    <3>2. CASE a = c /\ c \in stamped
      BY <1>4, <1>6, <3>2 DEF WritesAt
    <3>3. CASE a = c /\ c \notin stamped
      BY <1>1, <1>2, <3>3 DEF FollowInv, QueueInv
    <3> QED BY <3>1, <3>2, <3>3
  <2>3. \A k \in DOMAIN more : ~MarksAt(more, k, a)
    BY <1>4, <1>6 DEF MarksAt
  <2>4. a \in unsupported' <=> a \in unsupported
    BY <1>1
  <2> QED BY <1>1, <1>6, <1>7, <2>1, <2>2, <2>3, <2>4, EventsFollow DEF FollowInv
<1> QED BY <1>8, <1>9

\* The device is saved: what its replacement does not take over is in the event.
LEMMA InitializedFollows ==
  ASSUME FollowInv, InitializedPlain \/ \E copied \in BOOLEAN : InitializedCustom(copied)
  PROVE  QueueInv' /\ \A a \in Attrs : ValueFollows(a)' /\ MarkFollows(a)'
<1> DEFINE event == [kind |-> "save_device", cache |-> cache, unsupported |-> unsupported]
<1>1. /\ device = "new" /\ saves' = saves \o <<event>>
      /\ UNCHANGED <<saved, attrRows, unsupportedRows>>
      /\ \/ device' = "plain" /\ UNCHANGED <<cache, stamped, unsupported>>
         \/ /\ device' = "custom" /\ unsupported' = {}
            /\ cache' = cache \/ cache' = [a \in Attrs |-> None]
  BY DEF InitializedPlain, InitializedCustom, Save, rowVarsOfCache
<1>2. cache \in [Attrs -> Nat] /\ saves \in Seq(Event) /\ unsupported \subseteq Attrs
  BY DEF FollowInv, HadInv, Had, SavesInv, Event
<1>3. PICK e : e = event
  OBVIOUS
<1>4. e \in Event /\ e.kind = "save_device" /\ e.cache = cache /\ e.unsupported = unsupported
  BY <1>2, <1>3 DEF Event, DeviceEvent
<1>5. PICK more : more = <<e>>
  OBVIOUS
<1>6. more \in Seq(Event) /\ DOMAIN more = {1} /\ more[1] = e
  BY <1>4, <1>5
<1>7. PICK all : all = saves \o more
  OBVIOUS
<1>15. saves \in Seq(Event) /\ more \in Seq(Event)
  BY <1>2, <1>6
<1>8. saves' = all
  BY <1>1, <1>3, <1>5, <1>7
<1>9. /\ \A i \in DOMAIN saves : i \in DOMAIN all /\ all[i] = saves[i] /\ i <= Len(saves) /\ i \in Nat
      /\ \A i \in DOMAIN all : i \notin DOMAIN saves =>
           i - Len(saves) \in DOMAIN more /\ all[i] = more[i - Len(saves)] /\ i > Len(saves) /\ i \in Nat
      /\ \A k \in DOMAIN more : /\ Len(saves) + k \in DOMAIN all /\ all[Len(saves) + k] = more[k]
                               /\ Len(saves) + k > Len(saves)
      /\ Len(saves) \in Nat
  BY <1>7, <1>15, Places
<1>10. PICK last \in DOMAIN all : /\ last = Len(saves) + 1 /\ all[last] = e /\ last > Len(saves)
                                 /\ \A i \in DOMAIN all : i = last \/ i \in DOMAIN saves
  <2>1. Len(saves) + 1 \in DOMAIN all /\ all[Len(saves) + 1] = e /\ Len(saves) + 1 > Len(saves)
    BY <1>6, <1>9
  <2>2. \A i \in DOMAIN all : i = Len(saves) + 1 \/ i \in DOMAIN saves
    BY <1>6, <1>9
  <2> QED BY <2>1, <2>2
<1>11. /\ ~saved /\ \A i \in DOMAIN saves : ~SavesDevice(saves, i)
       /\ \A a \in Attrs : cache[a] # None => a \in stamped
       /\ (\A a \in Attrs : attrRows[a] = None) /\ unsupportedRows = {}
  BY <1>1 DEF FollowInv, QueueInv
<1>12. \A i \in DOMAIN all : SavesDevice(all, i) <=> i = last
  BY <1>4, <1>9, <1>10, <1>11 DEF SavesDevice
<1>13. QueueInv'
  <2>1. SavesDevice(all, last) /\ \A i, j \in DOMAIN all : SavesDevice(all, i) /\ SavesDevice(all, j) => i = j
    BY <1>12
  <2>2. /\ device' # "new" /\ device' \in {"new", "plain", "custom"} /\ saved' = saved
        /\ attrRows' = attrRows /\ unsupportedRows' = unsupportedRows
        /\ device' # "custom" => cache' = cache /\ stamped' = stamped
    BY <1>1
  <2> HIDE DEF event
  <2>3. \E i \in DOMAIN all : SavesDevice(all, i)
    BY <2>1
  <2>4. saved' => device' # "new" /\ \A i \in DOMAIN saves' : ~SavesDevice(saves', i)
    BY <1>11, <2>2
  <2>5. ~saved' => (\A a \in Attrs : attrRows'[a] = None) /\ unsupportedRows' = {}
    BY <1>11, <2>2
  <2>6. ~saved' /\ device' # "new" => \E i \in DOMAIN saves' : SavesDevice(saves', i)
    BY <1>8, <2>3
  <2>7. \A i, j \in DOMAIN saves' : SavesDevice(saves', i) /\ SavesDevice(saves', j) => i = j
    BY <1>8, <2>1
  <2>8. device' # "custom" => \A a \in Attrs : cache'[a] # None => a \in stamped'
    BY <1>11, <2>2
  <2>9. saved' \in BOOLEAN
    BY <2>2 DEF FollowInv, QueueInv
  <2> QED BY <2>2, <2>4, <2>5, <2>6, <2>7, <2>8, <2>9 DEF QueueInv, SavesDevice
<1>14. ASSUME NEW a \in Attrs PROVE ValueFollows(a)' /\ MarkFollows(a)'
  <2>1. \A i \in DOMAIN saves : /\ WritesAt(all, i, a) <=> WritesAt(saves, i, a)
                                /\ MarksAt(all, i, a) <=> MarksAt(saves, i, a)
    BY <1>9 DEF WritesAt, MarksAt
  <2>2. ~WritesAt(all, last, a) /\ ~MarksAt(all, last, a)
    BY <1>4, <1>10 DEF WritesAt, MarksAt
  <2>3. ASSUME NEW i \in DOMAIN all, WritesAt(all, i, a), NotWrittenAfter(all, i, a),
               cache'[a] # None \/ device' # "custom"
        PROVE  all[i].value = cache'[a]
    <3>1. i \in DOMAIN saves /\ WritesAt(saves, i, a) /\ all[i] = saves[i]
      BY <1>9, <1>10, <2>1, <2>2, <2>3
    <3>2. NotWrittenAfter(saves, i, a)
      BY <1>9, <2>1, <2>3 DEF NotWrittenAfter
    <3>3. cache'[a] = cache[a]
      BY <1>1, <2>3
    <3>4. ValueFollows(a)
      BY DEF FollowInv
    <3> QED BY <1>1, <3>1, <3>2, <3>3, <3>4 DEF ValueFollows
  <2>4. ASSUME NEW i \in DOMAIN all, SavesDevice(all, i), cache'[a] # None
        PROVE  all[i].cache[a] = cache'[a]
    BY <1>1, <1>4, <1>10, <1>12, <2>4
  <2>5. ValueFollows(a)'
    BY <1>1, <1>8, <1>11, <2>3, <2>4 DEF ValueFollows, WritesAt, NotWrittenAfter, SavesDevice
  <2>6. ASSUME NEW i \in DOMAIN all, MarksAt(all, i, a), NotMarkedAfter(all, i, a)
        PROVE  /\ a \in unsupported' => all[i].kind = "unsupported"
               /\ device' # "custom" /\ all[i].kind = "unsupported" => a \in unsupported'
    <3>1. i \in DOMAIN saves /\ MarksAt(saves, i, a) /\ all[i] = saves[i]
      BY <1>9, <1>10, <2>1, <2>2, <2>6
    <3>2. NotMarkedAfter(saves, i, a)
      BY <1>9, <2>1, <2>6 DEF NotMarkedAfter
    <3>3. MarkFollows(a)
      BY DEF FollowInv
    <3> QED BY <1>1, <3>1, <3>2, <3>3 DEF MarkFollows
  <2>7. ASSUME NEW i \in DOMAIN all, SavesDevice(all, i), a \in unsupported'
        PROVE  a \in all[i].unsupported
    BY <1>1, <1>4, <1>10, <1>12, <2>7
  <2>8. MarkFollows(a)'
    BY <1>1, <1>8, <1>11, <2>6, <2>7 DEF MarkFollows, MarksAt, NotMarkedAfter, SavesDevice
  <2> QED BY <2>5, <2>8
<1> QED BY <1>13, <1>14

\* The worker: the first event of the queue goes into the rows.
LEMMA WorkerFollows ==
  ASSUME FollowInv, SaveWorker
  PROVE  QueueInv' /\ \A a \in Attrs : ValueFollows(a)' /\ MarkFollows(a)'
<1>1. saves # <<>> /\ saves' = Tail(saves) /\ UNCHANGED <<device, cache, stamped, unsupported>>
  BY DEF SaveWorker
<1>2. saves \in Seq(Event) /\ cache \in [Attrs -> Nat] /\ attrRows \in [Attrs -> Nat]
  BY DEF FollowInv, HadInv, Had, SavesInv, Event
<1>3. PICK rest : rest = Tail(saves)
  OBVIOUS
<1>4. /\ 1 \in DOMAIN saves /\ Head(saves) = saves[1]
      /\ \A i \in DOMAIN rest : i + 1 \in DOMAIN saves /\ rest[i] = saves[i + 1] /\ i \in Nat /\ i > 0
      /\ \A i \in DOMAIN saves : i # 1 => i - 1 \in DOMAIN rest
      /\ DOMAIN saves \subseteq Nat \ {0}
  <2>1. /\ rest \in Seq(Event) /\ Len(rest) = Len(saves) - 1 /\ \A i \in 1 .. Len(rest) : rest[i] = saves[i + 1]
    BY <1>1, <1>2, <1>3, HeadTailProperties
  <2>2. Len(saves) \in Nat \ {0} /\ DOMAIN saves = 1 .. Len(saves) /\ DOMAIN rest = 1 .. Len(rest)
    BY <1>1, <1>2, <2>1, EmptySeq
  <2>3. Head(saves) = saves[1]
    BY <1>1, <1>2
  <2> QED BY <2>1, <2>2, <2>3
<1>5. PICK e \in Event : e = Head(saves) /\ e = saves[1]
  BY <1>2, <1>4
<1>6. /\ \A i \in DOMAIN rest : SavesDevice(rest, i) <=> SavesDevice(saves, i + 1)
      /\ SavesDevice(saves, 1) <=> e.kind = "save_device"
  BY <1>4, <1>5 DEF SavesDevice
<1>7. \/ /\ ~saved /\ e.kind # "save_device" /\ UNCHANGED <<saved, attrRows, unsupportedRows>>
      \/ /\ saved \/ e.kind = "save_device"
         /\ saved' = TRUE
  BY <1>5 DEF SaveWorker, Keyed, rowVarsOfCache, FollowInv, QueueInv
<1>8. saved' => device # "new" /\ \A i \in DOMAIN rest : ~SavesDevice(rest, i)
  <2>1. CASE saved
    BY <1>4, <1>6, <2>1 DEF FollowInv, QueueInv
  <2>2. CASE e.kind = "save_device"
    <3>1. device # "new"
      BY <1>4, <1>6, <2>2 DEF FollowInv, QueueInv
    <3>2. ASSUME NEW i \in DOMAIN rest, SavesDevice(rest, i) PROVE FALSE
      <4>1. SavesDevice(saves, i + 1) /\ SavesDevice(saves, 1) /\ i + 1 \in DOMAIN saves /\ i + 1 # 1
        BY <1>4, <1>6, <2>2, <3>2
      <4> QED BY <1>4, <4>1 DEF FollowInv, QueueInv
    <3> QED BY <3>1, <3>2
  <2> QED BY <1>7, <2>1, <2>2
<1>9. QueueInv'
  <2>1. ~saved' /\ device # "new" => \E i \in DOMAIN rest : SavesDevice(rest, i)
    <3> SUFFICES ASSUME ~saved', device # "new" PROVE \E i \in DOMAIN rest : SavesDevice(rest, i)
      OBVIOUS
    <3>1. ~saved /\ e.kind # "save_device"
      BY <1>7
    <3>2. PICK i \in DOMAIN saves : SavesDevice(saves, i)
      BY <3>1 DEF FollowInv, QueueInv
    <3>3. i # 1 /\ i - 1 \in DOMAIN rest /\ (i - 1) + 1 = i
      BY <1>4, <1>6, <3>1, <3>2
    <3> QED BY <1>6, <3>2, <3>3
  <2>2. device = "new" => \A i \in DOMAIN rest : ~SavesDevice(rest, i)
    BY <1>4, <1>6 DEF FollowInv, QueueInv
  <2>3. \A i, j \in DOMAIN rest : SavesDevice(rest, i) /\ SavesDevice(rest, j) => i = j
    <3>1. ASSUME NEW i \in DOMAIN rest, NEW j \in DOMAIN rest, SavesDevice(rest, i), SavesDevice(rest, j)
          PROVE  i = j
      <4>1. i + 1 = j + 1
        BY <1>4, <1>6, <3>1 DEF FollowInv, QueueInv
      <4> QED BY <1>4, <4>1
    <3> QED BY <3>1
  <2>4. ~saved' => (\A a \in Attrs : attrRows'[a] = None) /\ unsupportedRows' = {}
    BY <1>7 DEF FollowInv, QueueInv
  <2>5. saved' \in BOOLEAN
    BY <1>7 DEF FollowInv, QueueInv
  <2>6. saves' = rest
    BY <1>1, <1>3
  <2> QED BY <1>1, <1>8, <2>1, <2>2, <2>3, <2>4, <2>5, <2>6 DEF FollowInv, QueueInv, SavesDevice
<1>10. ASSUME NEW a \in Attrs PROVE ValueFollows(a)' /\ MarkFollows(a)'
  <2>1. \A i \in DOMAIN rest : /\ WritesAt(rest, i, a) <=> WritesAt(saves, i + 1, a)
                               /\ MarksAt(rest, i, a) <=> MarksAt(saves, i + 1, a)
    BY <1>4 DEF WritesAt, MarksAt
  <2>2. ASSUME NEW i \in Nat
        PROVE  /\ NotWrittenAfter(rest, i, a) <=> NotWrittenAfter(saves, i + 1, a)
               /\ NotMarkedAfter(rest, i, a) <=> NotMarkedAfter(saves, i + 1, a)
    <3>1. ASSUME NotWrittenAfter(rest, i, a), NEW j \in DOMAIN saves, j > i + 1 PROVE ~WritesAt(saves, j, a)
      <4>1. j - 1 \in DOMAIN rest /\ j - 1 > i /\ (j - 1) + 1 = j
        BY <1>4, <3>1
      <4> QED BY <2>1, <3>1, <4>1 DEF NotWrittenAfter
    <3>2. ASSUME NotWrittenAfter(saves, i + 1, a), NEW j \in DOMAIN rest, j > i PROVE ~WritesAt(rest, j, a)
      <4>1. j + 1 \in DOMAIN saves /\ j + 1 > i + 1
        BY <1>4, <3>2
      <4> QED BY <2>1, <3>2, <4>1 DEF NotWrittenAfter
    <3>3. ASSUME NotMarkedAfter(rest, i, a), NEW j \in DOMAIN saves, j > i + 1 PROVE ~MarksAt(saves, j, a)
      <4>1. j - 1 \in DOMAIN rest /\ j - 1 > i /\ (j - 1) + 1 = j
        BY <1>4, <3>3
      <4> QED BY <2>1, <3>3, <4>1 DEF NotMarkedAfter
    <3>4. ASSUME NotMarkedAfter(saves, i + 1, a), NEW j \in DOMAIN rest, j > i PROVE ~MarksAt(rest, j, a)
      <4>1. j + 1 \in DOMAIN saves /\ j + 1 > i + 1
        BY <1>4, <3>4
      <4> QED BY <2>1, <3>4, <4>1 DEF NotMarkedAfter
    <3> QED BY <3>1, <3>2, <3>3, <3>4 DEF NotWrittenAfter, NotMarkedAfter
  <2>3. /\ NotWrittenAfter(rest, 0, a) <=> NotWrittenAfter(saves, 1, a)
        /\ NotMarkedAfter(rest, 0, a) <=> NotMarkedAfter(saves, 1, a)
    <3>1. 0 \in Nat /\ 0 + 1 = 1
      OBVIOUS
    <3> QED BY <2>2, <3>1
  <2>4. /\ NotWrittenAfter(saves, 1, a) /\ ~WritesAt(saves, 1, a) => NotWrittenAfter(saves, 0, a)
        /\ NotMarkedAfter(saves, 1, a) /\ ~MarksAt(saves, 1, a) => NotMarkedAfter(saves, 0, a)
    BY <1>4 DEF NotWrittenAfter, NotMarkedAfter
  <2>5. ValueFollows(a) /\ MarkFollows(a)
    BY DEF FollowInv
  <2>6. /\ WritesAt(saves, 1, a) <=> e.kind \in {"updated", "cleared"} /\ e.attr = a
        /\ MarksAt(saves, 1, a) <=> e.kind \in {"supported", "unsupported"} /\ e.attr = a
    BY <1>5 DEF WritesAt, MarksAt
  <2>7. ASSUME saved', NotWrittenAfter(saves, 1, a), cache[a] # None \/ device = "plain"
        PROVE  attrRows'[a] = cache[a]
    <3>1. CASE e.kind = "save_device"
      <4>1. attrRows' = [b \in Attrs |-> IF SavedCaches(e).cache[b] # None
                                         THEN SavedCaches(e).cache[b] ELSE attrRows[b]]
        BY <1>5, <1>7, <3>1 DEF SaveWorker, Keyed
      <4>2. ~saved /\ attrRows[a] = None
        BY <1>4, <1>6, <3>1 DEF FollowInv, QueueInv
      <4>3. CASE device = "plain"
        <5>1. SavedCaches(e).cache = cache
          BY <4>3 DEF SavedCaches
        <5> QED BY <1>2, <4>1, <4>2, <5>1
      <4>4. CASE device # "plain"
        <5>1. SavedCaches(e).cache = e.cache
          BY <4>4 DEF SavedCaches
        <5>2. device = "custom" /\ cache[a] # None
          BY <1>7, <1>8, <2>7, <4>4 DEF FollowInv, QueueInv
        <5>3. e.cache[a] = cache[a]
          BY <1>4, <1>5, <1>6, <2>5, <2>7, <3>1, <5>2 DEF ValueFollows
        <5> QED BY <4>1, <5>1, <5>2, <5>3
      <4> QED BY <4>3, <4>4
    <3>2. CASE e.kind \in {"updated", "cleared"}
      <4>1. saved /\ e.attr \in Attrs /\ attrRows' = [attrRows EXCEPT ![e.attr] = e.value]
        <5>1. saved /\ attrRows' = [attrRows EXCEPT ![e.attr] = e.value]
          BY <1>5, <1>7, <2>7, <3>2 DEF SaveWorker, Keyed
        <5>2. e \in ValueEvent
          BY <3>2 DEF Event, DeviceEvent
        <5> QED BY <5>1, <5>2 DEF ValueEvent
      <4>2. CASE e.attr = a
        <5>1. e.value = cache[a]
          <6>1. WritesAt(saves, 1, a) /\ (cache[a] # None \/ device # "custom")
            BY <2>6, <2>7, <3>2, <4>2
          <6> QED BY <1>4, <1>5, <2>5, <2>7, <6>1 DEF ValueFollows
        <5> QED BY <1>2, <4>1, <4>2, <5>1
      <4>3. CASE e.attr # a
        <5>1. NotWrittenAfter(saves, 0, a)
          BY <2>4, <2>6, <2>7, <4>3
        <5>2. attrRows[a] = cache[a]
          BY <2>5, <2>7, <4>1, <5>1 DEF ValueFollows
        <5> QED BY <1>2, <4>1, <4>3, <5>2
      <4> QED BY <4>2, <4>3
    <3>3. CASE e.kind \notin {"save_device", "updated", "cleared"}
      <4>1. saved /\ attrRows' = attrRows
        BY <1>5, <1>7, <2>7, <3>3 DEF SaveWorker, Keyed
      <4>2. NotWrittenAfter(saves, 0, a)
        BY <2>4, <2>6, <2>7, <3>3
      <4> QED BY <2>5, <2>7, <4>1, <4>2 DEF ValueFollows
    <3> QED BY <3>1, <3>2, <3>3
  <2>8. ASSUME saved', NotMarkedAfter(saves, 1, a)
        PROVE  /\ a \in unsupported => a \in unsupportedRows'
               /\ device = "plain" /\ a \in unsupportedRows' => a \in unsupported
    <3>1. CASE e.kind = "save_device"
      <4>1. unsupportedRows' = unsupportedRows \cup SavedCaches(e).unsupported
        BY <1>5, <1>7, <3>1 DEF SaveWorker, Keyed
      <4>2. unsupportedRows = {}
        BY <1>4, <1>6, <3>1 DEF FollowInv, QueueInv
      <4>3. CASE device = "plain"
        <5>1. SavedCaches(e).unsupported = unsupported
          BY <4>3 DEF SavedCaches
        <5> QED BY <4>1, <4>2, <5>1
      <4>4. CASE device # "plain"
        <5>1. SavedCaches(e).unsupported = e.unsupported
          BY <4>4 DEF SavedCaches
        <5>2. device = "custom"
          BY <1>7, <1>8, <2>8, <4>4 DEF FollowInv, QueueInv
        <5>3. a \in unsupported => a \in e.unsupported
          BY <1>4, <1>5, <1>6, <2>5, <2>8, <3>1, <5>2 DEF MarkFollows
        <5> QED BY <4>1, <4>4, <5>1, <5>3
      <4> QED BY <4>3, <4>4
    <3>2. CASE e.kind = "unsupported"
      <4>1. saved /\ unsupportedRows' = unsupportedRows \cup {e.attr}
        BY <1>5, <1>7, <2>8, <3>2 DEF SaveWorker, Keyed
      <4>2. CASE e.attr = a
        <5>1. MarksAt(saves, 1, a)
          BY <2>6, <3>2, <4>2
        <5>2. device = "plain" => a \in unsupported
          BY <1>4, <1>5, <2>5, <2>8, <3>2, <5>1 DEF MarkFollows
        <5> QED BY <4>1, <4>2, <5>2
      <4>3. CASE e.attr # a
        <5>1. NotMarkedAfter(saves, 0, a)
          BY <2>4, <2>6, <2>8, <4>3
        <5> QED BY <2>5, <4>1, <4>3, <5>1 DEF MarkFollows
      <4> QED BY <4>2, <4>3
    <3>3. CASE e.kind = "supported"
      <4>1. saved /\ unsupportedRows' = unsupportedRows \ {e.attr}
        BY <1>5, <1>7, <2>8, <3>3 DEF SaveWorker, Keyed
      <4>2. CASE e.attr = a
        <5>1. MarksAt(saves, 1, a)
          BY <2>6, <3>3, <4>2
        <5>2. a \notin unsupported
          BY <1>4, <1>5, <2>5, <2>8, <3>3, <5>1 DEF MarkFollows
        <5> QED BY <4>1, <4>2, <5>2
      <4>3. CASE e.attr # a
        <5>1. NotMarkedAfter(saves, 0, a)
          BY <2>4, <2>6, <2>8, <4>3
        <5> QED BY <2>5, <4>1, <4>3, <5>1 DEF MarkFollows
      <4> QED BY <4>2, <4>3
    <3>4. CASE e.kind \notin {"save_device", "supported", "unsupported"}
      <4>1. saved /\ unsupportedRows' = unsupportedRows
        BY <1>5, <1>7, <2>8, <3>4 DEF SaveWorker, Keyed
      <4>2. NotMarkedAfter(saves, 0, a)
        BY <2>4, <2>6, <2>8, <3>4
      <4> QED BY <2>5, <4>1, <4>2 DEF MarkFollows
    <3> QED BY <3>1, <3>2, <3>3, <3>4
  <2>9. saves' = rest /\ UNCHANGED <<device, cache, unsupported>>
    BY <1>1, <1>3
  <2>10. ValueFollows(a)'
    <3>1. ASSUME NEW i \in DOMAIN rest, WritesAt(rest, i, a), NotWrittenAfter(rest, i, a),
                 cache[a] # None \/ device # "custom"
          PROVE  rest[i].value = cache[a]
      <4>1. i + 1 \in DOMAIN saves /\ WritesAt(saves, i + 1, a) /\ NotWrittenAfter(saves, i + 1, a)
        BY <1>4, <2>1, <2>2, <3>1
      <4> QED BY <1>4, <2>5, <3>1, <4>1 DEF ValueFollows
    <3>2. ASSUME NEW i \in DOMAIN rest, SavesDevice(rest, i), NotWrittenAfter(rest, i, a),
                 cache[a] # None, device = "custom"
          PROVE  rest[i].cache[a] = cache[a]
      <4>1. i + 1 \in DOMAIN saves /\ SavesDevice(saves, i + 1) /\ NotWrittenAfter(saves, i + 1, a)
        BY <1>4, <1>6, <2>2, <3>2
      <4> QED BY <1>4, <2>5, <3>2, <4>1 DEF ValueFollows
    <3> QED BY <2>3, <2>7, <2>9, <3>1, <3>2 DEF ValueFollows, WritesAt, NotWrittenAfter, SavesDevice
  <2>11. MarkFollows(a)'
    <3>1. ASSUME NEW i \in DOMAIN rest, MarksAt(rest, i, a), NotMarkedAfter(rest, i, a)
          PROVE  /\ a \in unsupported => rest[i].kind = "unsupported"
                 /\ device # "custom" /\ rest[i].kind = "unsupported" => a \in unsupported
      <4>1. i + 1 \in DOMAIN saves /\ MarksAt(saves, i + 1, a) /\ NotMarkedAfter(saves, i + 1, a)
        BY <1>4, <2>1, <2>2, <3>1
      <4> QED BY <1>4, <2>5, <3>1, <4>1 DEF MarkFollows
    <3>2. ASSUME NEW i \in DOMAIN rest, SavesDevice(rest, i), NotMarkedAfter(rest, i, a),
                 a \in unsupported, device = "custom"
          PROVE  a \in rest[i].unsupported
      <4>1. i + 1 \in DOMAIN saves /\ SavesDevice(saves, i + 1) /\ NotMarkedAfter(saves, i + 1, a)
        BY <1>4, <1>6, <2>2, <3>2
      <4> QED BY <1>4, <2>5, <3>2, <4>1 DEF MarkFollows
    <3> QED BY <2>3, <2>8, <2>9, <3>1, <3>2 DEF MarkFollows, MarksAt, NotMarkedAfter, SavesDevice
  <2> QED BY <2>10, <2>11
<1> QED BY <1>9, <1>10

\* The cache is what the rows are.
LEMMA RestartFollows ==
  ASSUME FollowInv, RestartCache
  PROVE  QueueInv' /\ \A a \in Attrs : ValueFollows(a)' /\ MarkFollows(a)'
<1>1. /\ device' = IF saved THEN device ELSE "new"
      /\ cache' = attrRows /\ stamped' = {a \in Attrs : attrRows[a] # None}
      /\ unsupported' = unsupportedRows /\ saves' = <<>>
      /\ UNCHANGED <<saved, attrRows, unsupportedRows>>
  BY DEF RestartCache, rowVarsOfCache
<1>2. DOMAIN saves' = {}
  BY <1>1
<1>3. QueueInv'
  BY <1>1, <1>2 DEF FollowInv, QueueInv
<1> QED BY <1>1, <1>2, <1>3 DEF ValueFollows, MarkFollows

LEMMA NextFollows == FollowInv /\ [CacheNext]_cacheVars => FollowInv'
<1> SUFFICES ASSUME FollowInv, [CacheNext]_cacheVars
             PROVE  QueueInv' /\ \A a \in Attrs : ValueFollows(a)' /\ MarkFollows(a)'
  BY NextHad DEF FollowInv
<1>0. HadInv'
  BY NextHad DEF FollowInv
<1>1. ASSUME NEW i \in DOMAIN air, Handle(i)
      PROVE  QueueInv' /\ \A a \in Attrs : ValueFollows(a)' /\ MarkFollows(a)'
  BY <1>0, <1>1, HandleFollows
<1>2. ASSUME NEW a \in Attrs, ClearAttribute(a)
      PROVE  QueueInv' /\ \A b \in Attrs : ValueFollows(b)' /\ MarkFollows(b)'
  BY <1>2, ClearFollows
<1>3. CASE InitializedPlain \/ \E copied \in BOOLEAN : InitializedCustom(copied)
  BY <1>3, InitializedFollows
<1>4. CASE SaveWorker
  BY <1>4, WorkerFollows
<1>5. CASE RestartCache
  BY <1>5, RestartFollows
<1>6. CASE UNCHANGED CacheState
  BY <1>6, FollowUnchanged
<1>7. \A attrs : ReadAttributes(attrs) \/ WriteAttributes(attrs) \/ ConfigureReporting(attrs)
        => UNCHANGED CacheState
  BY DEF ReadAttributes, WriteAttributes, ConfigureReporting, Ask, CacheState, rowVarsOfCache
<1>8. \A request : Answer(request) => UNCHANGED CacheState
  BY DEF Answer, CacheState, rowVarsOfCache
<1>9. \A a : Report(a) \/ ValueChanges(a) \/ SupportChanges(a) => UNCHANGED CacheState
  BY DEF Report, ValueChanges, SupportChanges, CacheState, rowVarsOfCache
<1>10. RequestLost \/ (\E i \in DOMAIN air : FrameLost(i)) => UNCHANGED CacheState
  BY DEF RequestLost, FrameLost, CacheState, rowVarsOfCache
<1>11. UNCHANGED cacheVars => UNCHANGED CacheState
  BY DEF cacheVars, CacheState
<1> QED BY <1>1, <1>2, <1>3, <1>4, <1>5, <1>6, <1>7, <1>8, <1>9, <1>10, <1>11 DEF CacheNext

\* When the queue is empty, a restart loses nothing of the cache, whichever events
\* failed before the device was saved, and for a plain device it brings nothing back.
THEOREM RowsCatchUp == CacheSpec => []RowsFollowCache
<1>1. CacheInit => FollowInv
  <2>1. CacheInit => HadInv
    BY DEF CacheInit, HadInv, Had, HadOf, AirInv, SavesInv, None
  <2>2. CacheInit => DOMAIN saves = {} /\ saved = FALSE /\ device = "new"
    BY DEF CacheInit
  <2>3. CacheInit => QueueInv
    BY <2>2 DEF CacheInit, QueueInv
  <2>4. CacheInit => \A a \in Attrs : ValueFollows(a) /\ MarkFollows(a)
    BY <2>2 DEF ValueFollows, MarkFollows
  <2> QED BY <2>1, <2>3, <2>4 DEF FollowInv
<1>2. FollowInv => RowsFollowCache
  <2> SUFFICES ASSUME FollowInv, saved, saves = <<>>
               PROVE  /\ \A a \in Attrs : cache[a] # None => attrRows[a] = cache[a]
                      /\ unsupported \subseteq unsupportedRows
                      /\ device = "plain" => attrRows = cache /\ unsupportedRows = unsupported
    BY DEF RowsFollowCache
  <2>1. DOMAIN saves = {}
    OBVIOUS
  <2>4. \A a : NotWrittenAfter(saves, 0, a) /\ NotMarkedAfter(saves, 0, a)
    BY <2>1 DEF NotWrittenAfter, NotMarkedAfter
  <2>2. \A a \in Attrs :
          /\ cache[a] # None \/ device = "plain" => attrRows[a] = cache[a]
          /\ a \in unsupported => a \in unsupportedRows
          /\ device = "plain" /\ a \in unsupportedRows => a \in unsupported
    BY <2>4 DEF FollowInv, ValueFollows, MarkFollows
  <2>3. /\ attrRows \in [Attrs -> Nat] /\ cache \in [Attrs -> Nat]
        /\ unsupported \subseteq Attrs /\ unsupportedRows \subseteq Attrs
    BY DEF FollowInv, HadInv, Had
  <2>5. \A a \in Attrs : cache[a] # None => attrRows[a] = cache[a]
    BY <2>2
  <2>6. unsupported \subseteq unsupportedRows
    BY <2>2, <2>3
  <2>7. ASSUME device = "plain" PROVE attrRows = cache /\ unsupportedRows = unsupported
    <3>1. \A a \in Attrs : attrRows[a] = cache[a]
      BY <2>2, <2>7
    <3>2. unsupportedRows \subseteq unsupported
      BY <2>2, <2>3, <2>7
    <3>3. attrRows = cache
      BY <2>3, <3>1
    <3> QED BY <2>6, <3>2, <3>3
  <2> QED BY <2>5, <2>6, <2>7
<1> QED BY <1>1, <1>2, NextFollows, PTL DEF CacheSpec
=============================================================================
