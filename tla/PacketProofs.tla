---------------------------- MODULE PacketProofs ----------------------------
(***************************************************************************)
(* Proofs about what arrives from a device.  PacketDispatch, for any       *)
(* frames, devices and listeners and however often the network delivers    *)
(* what: what makes a frame count once is that the debouncer remembers it  *)
(* as long as copies are under way; a frame that is not remembered has     *)
(* been answered by nobody, unless none of its copies is left; and of the  *)
(* listeners that would take a frame one is before all others.             *)
(* FirmwareUpdate, for any number of updates and frames and any stall      *)
(* time: an update is never given up early, although the timer is moved    *)
(* without touching its handle, and although handlers of updates that have *)
(* ended go on moving theirs.                                              *)
(* ImageSelection, for any indexes, files, devices and number of queries:  *)
(* which images are offered, although downloads are shared and kept.       *)
(* BasicTypes, for any width of a byte, of a type, of a length and of the  *)
(* bit fields: what a frame is made of comes back from its bytes.          *)
(***************************************************************************)
EXTENDS PacketDispatch, FirmwareUpdate, ImageSelection, BasicTypes, FiniteSetTheorems,
        SequenceTheorems, WellFoundedInduction, TLAPS

Registration == [listener : Listeners, custom : BOOLEAN]

-----------------------------------------------------------------------------
(* Types.                                                                  *)

\* Nothing has a wrong type at the start.
LEMMA InitTyped == PacketsInit => PacketsTypeOK
<1> SUFFICES ASSUME PacketsInit PROVE PacketsTypeOK
  OBVIOUS
<1>1. 0 \in 0 .. MaxCopies /\ 0 \in 0 .. MaxLosses
  BY DispatchBounds
<1>2. <<>> \in Seq([listener : Listeners, custom : BOOLEAN])
  BY EmptySeq
<1> QED BY <1>1, <1>2 DEF PacketsInit, PacketsTypeOK

\* Taking one listener out of the list leaves a list.
LEMMA RegistrationsLeft ==
  ASSUME registered \in Seq(Registration), NEW n \in DOMAIN registered
  PROVE  RemoveAt(registered, n) \in Seq(Registration)
<1>1. n \in 1 .. Len(registered) /\ Len(registered) \in Nat
  OBVIOUS
<1>2. SubSeq(registered, 1, n - 1) \in Seq(Registration)
  BY <1>1
<1>3. SubSeq(registered, n + 1, Len(registered)) \in Seq(Registration)
  BY <1>1
<1> QED BY <1>2, <1>3 DEF RemoveAt

\* A frame ends at most one wait: of those that it could resolve, one comes
\* before the others.
LEMMA ResolvesOne ==
  ASSUME registered \in Seq(Registration), NEW f
  PROVE  IsFiniteSet(Resolved(f)) /\ Cardinality(Resolved(f)) \in 0 .. 1
<1> DEFINE Takes(k) == /\ k \in Asked(f) /\ Resolves(Waiter(k), f)
                      /\ \A j \in Asked(f) : Before(j, k) => ~Resolves(Waiter(j), f)
<1>1. \A k, n \in Asked(f) : k \in Nat /\ n \in Nat
  BY DEF Asked
<1>2. ASSUME NEW k, NEW n, Takes(k), Takes(n) PROVE k = n
  <2>1. ~Before(k, n) /\ ~Before(n, k) /\ k \in Nat /\ n \in Nat
    BY <1>1, <1>2
  <2>2. Before(k, n) \/ Before(n, k) \/ ~(k < n \/ n < k)
    BY DEF Before
  <2> QED BY <2>1, <2>2
<1>3. Resolved(f) = {Waiter(k) : k \in {j \in Asked(f) : Takes(j)}}
  BY DEF Resolved
<1>4. CASE \E k : Takes(k)
  <2>1. PICK k : Takes(k)
    BY <1>4
  <2>2. Resolved(f) = {Waiter(k)}
    BY <1>2, <1>3, <2>1
  <2>3. IsFiniteSet({Waiter(k)}) /\ Cardinality({Waiter(k)}) = 1
    BY FS_Singleton
  <2> QED BY <2>2, <2>3
<1>5. CASE ~ \E k : Takes(k)
  <2>1. Resolved(f) = {}
    BY <1>3, <1>5
  <2> QED BY <2>1, FS_EmptySet
<1> QED BY <1>4, <1>5

\* A frame that arrives is one less under way.
LEMMA ArrivesTyped ==
  ASSUME PacketsTypeOK, NEW f \in Frames, Arrives(f)
  PROVE  /\ underWay' \in [Frames -> 0 .. MaxCopies] /\ lost' \in 0 .. MaxLosses
         /\ known' \in [Senders -> Stages]
         /\ {interviewed', custom', discovering'} \subseteq [Senders -> BOOLEAN]
         /\ registered' \in Seq([listener : Listeners, custom : BOOLEAN])
<1>1. f.from \in Senders
  BY DEF Senders
<1>2. underWay[f] - 1 \in 0 .. MaxCopies
  BY DispatchBounds DEF PacketsTypeOK, Arrives
<1>3. Stage(f) \in Stages
  BY <1>1 DEF PacketsTypeOK, Stage, Stages
<1>4. underWay' \in [Frames -> 0 .. MaxCopies]
  BY <1>2 DEF PacketsTypeOK, Arrives
<1>5. known' \in [Senders -> Stages]
  BY <1>3 DEF PacketsTypeOK, Arrives
<1>6. interviewed' \in [Senders -> BOOLEAN]
  BY DEF PacketsTypeOK, Arrives
<1> QED BY <1>4, <1>5, <1>6 DEF PacketsTypeOK, Arrives

\* Whatever becomes of a frame keeps the types.
LEMMA ReceiveTyped ==
  ASSUME PacketsTypeOK, NEW f \in Frames, ReceiveFrame(f)
  PROVE  PacketsTypeOK'
<1>1. f.from \in Senders
  BY DEF Senders
<1>2. CASE FromStranger(f)
  <2>1. underWay[f] - 1 \in 0 .. MaxCopies
    BY <1>2, DispatchBounds DEF PacketsTypeOK, FromStranger
  <2>2. underWay' \in [Frames -> 0 .. MaxCopies]
    BY <1>2, <2>1 DEF PacketsTypeOK, FromStranger
  <2>3. discovering' \in [Senders -> BOOLEAN]
    BY <1>2 DEF PacketsTypeOK, FromStranger, AskedForAddress
  <2> QED BY <1>2, <2>2, <2>3 DEF PacketsTypeOK, FromStranger, waits, effects
<1>3. CASE TurnedAway(f) \/ Repeated(f)
  BY <1>3, ArrivesTyped DEF PacketsTypeOK, TurnedAway, Repeated, effects
<1>4. CASE Ignored(f)
  BY <1>4, ArrivesTyped DEF PacketsTypeOK, Ignored, Remembers, effects
<1>5. CASE ReplyArrives(f)
  <2>1. awaited' \in [Senders -> BOOLEAN]
    BY <1>5 DEF PacketsTypeOK, ReplyArrives
  <2> QED BY <1>5, <2>1, ArrivesTyped DEF PacketsTypeOK, ReplyArrives, Remembers, effects
<1>6. CASE Handled(f)
  <2>1. answers' \in [Frames -> Nat]
    <3>1. answers[f] \in Nat /\ answers[f] + 1 \in Nat
      BY DEF PacketsTypeOK
    <3> QED BY <1>6, <3>1 DEF PacketsTypeOK, Handled, Answered
  <2>2. future' \in [Listeners -> {"none", "open", "resolved", "cancelled"}]
    BY <1>6 DEF PacketsTypeOK, Handled, Listened
  <2>3. ended' \in [Frames -> Nat]
    <3>1. IsFiniteSet(Resolved(f)) => Cardinality(Resolved(f)) \in Nat
      BY FS_CardinalityType
    <3>2. IsFiniteSet(Resolved(f))
      BY ResolvesOne DEF PacketsTypeOK, Registration
    <3> QED BY <1>6, <3>1, <3>2 DEF PacketsTypeOK, Handled, Listened
  <2> QED BY <1>6, <2>1, <2>2, <2>3, ArrivesTyped DEF PacketsTypeOK, Handled, Remembers
<1> QED BY <1>2, <1>3, <1>4, <1>5, <1>6 DEF ReceiveFrame

\* Every step keeps the types.
LEMMA NextTyped == PacketsTypeOK /\ [PacketsNext]_packetVars => PacketsTypeOK'
<1> SUFFICES ASSUME PacketsTypeOK, [PacketsNext]_packetVars PROVE PacketsTypeOK'
  OBVIOUS
<1>1. ASSUME NEW f \in Frames, NEW copies \in 1 .. MaxCopies, SendFrame(f, copies)
      PROVE  PacketsTypeOK'
  <2>1. f.from \in Senders /\ copies \in 0 .. MaxCopies
    BY DispatchBounds DEF Senders
  <2>2. underWay' \in [Frames -> 0 .. MaxCopies]
    BY <1>1, <2>1 DEF PacketsTypeOK, SendFrame
  <2>3. discovering' \in [Senders -> BOOLEAN]
    BY <1>1, <2>1 DEF PacketsTypeOK, SendFrame
  <2>4. {answers', ended'} \subseteq [Frames -> Nat]
    BY <1>1 DEF PacketsTypeOK, SendFrame
  <2> QED BY <1>1, <2>2, <2>3, <2>4 DEF PacketsTypeOK, SendFrame, waits
<1>2. ASSUME NEW f \in Frames, Lose(f) PROVE PacketsTypeOK'
  <2>1. underWay[f] - 1 \in 0 .. MaxCopies /\ lost + 1 \in 0 .. MaxLosses
    BY <1>2, DispatchBounds DEF PacketsTypeOK, Lose
  <2>2. underWay' \in [Frames -> 0 .. MaxCopies] /\ lost' \in 0 .. MaxLosses
    BY <1>2, <2>1 DEF PacketsTypeOK, Lose
  <2> QED BY <1>2, <2>2 DEF PacketsTypeOK, Lose, devices, waits, effects
<1>3. ASSUME NEW f \in Frames, Forget(f) PROVE PacketsTypeOK'
  BY <1>3 DEF PacketsTypeOK, Forget, network, devices, waits, effects
<1>4. ASSUME NEW f \in Frames, ReceiveFrame(f) PROVE PacketsTypeOK'
  BY <1>4, ReceiveTyped
<1>5. ASSUME NEW p \in Senders, RelaysReceived(p) PROVE PacketsTypeOK'
  <2>1. discovering' \in [Senders -> BOOLEAN]
    BY <1>5 DEF PacketsTypeOK, RelaysReceived, AskedForAddress
  <2> QED BY <1>5, <2>1 DEF PacketsTypeOK, RelaysReceived, network, waits, effects
<1>6. ASSUME NEW p \in Senders, Interview(p) \/ InterviewFails(p) PROVE PacketsTypeOK'
  <2>1. known' \in [Senders -> Stages] /\ interviewed' \in [Senders -> BOOLEAN]
    BY <1>6 DEF PacketsTypeOK, Interview, InterviewFails, Stages
  <2> QED BY <1>6, <2>1
          DEF PacketsTypeOK, Interview, InterviewFails, network, waits, effects
<1>7. ASSUME NEW p \in Senders, Announced(p) PROVE PacketsTypeOK'
  <2>1. interviewed' \in [Senders -> BOOLEAN]
    BY <1>7 DEF PacketsTypeOK, Announced
  <2>2. /\ {custom', awaited'} \subseteq [Senders -> BOOLEAN]
        /\ {answers', ended'} \subseteq [Frames -> Nat] /\ seen' \subseteq Frames
    <3>1. CASE p \in Quirks /\ ~custom[p]
      <4>1. /\ custom' = [custom EXCEPT ![p] = TRUE]
            /\ awaited' = [awaited EXCEPT ![p] = FALSE]
            /\ seen' = {f \in seen : f.from # p}
            /\ answers' = [f \in Frames |-> IF f.from = p THEN 0 ELSE answers[f]]
            /\ ended' = [f \in Frames |-> IF f.from = p THEN 0 ELSE ended[f]]
        BY <1>7, <3>1 DEF Announced
      <4>2. {custom', awaited'} \subseteq [Senders -> BOOLEAN] /\ seen' \subseteq Frames
        BY <4>1 DEF PacketsTypeOK
      <4>3. {answers', ended'} \subseteq [Frames -> Nat]
        BY <4>1 DEF PacketsTypeOK
      <4> QED BY <4>2, <4>3
    <3>2. CASE ~(p \in Quirks /\ ~custom[p])
      BY <1>7, <3>2 DEF PacketsTypeOK, Announced, effects
    <3> QED BY <3>1, <3>2
  <2> QED BY <1>7, <2>1, <2>2 DEF PacketsTypeOK, Announced, network
<1>8. ASSUME NEW p \in Senders, RequestSent(p) \/ RequestTimesOut(p) PROVE PacketsTypeOK'
  <2>1. awaited' \in [Senders -> BOOLEAN]
    BY <1>8 DEF PacketsTypeOK, RequestSent, RequestTimesOut
  <2> QED BY <1>8, <2>1
          DEF PacketsTypeOK, RequestSent, RequestTimesOut, network, devices, effects
<1>9. ASSUME NEW l \in Listeners, Register(l) \/ GiveUp(l) \/ Unregister(l)
      PROVE  PacketsTypeOK'
  <2>1. future' \in [Listeners -> {"none", "open", "resolved", "cancelled"}]
    BY <1>9 DEF PacketsTypeOK, Register, GiveUp, Unregister
  <2>2. registered \in Seq(Registration)
    BY DEF PacketsTypeOK, Registration
  <2>3. registered' \in Seq(Registration)
    <3>1. CASE Register(l)
      <4>1. l.from # Anybody => custom[l.from] \in BOOLEAN
        BY ListenersListen DEF PacketsTypeOK
      <4>2. [listener |-> l, custom |-> l.from # Anybody /\ custom[l.from]] \in Registration
        BY <4>1 DEF Registration
      <4> QED BY <2>2, <3>1, <4>2 DEF Register
    <3>2. CASE GiveUp(l)
      BY <2>2, <3>2 DEF GiveUp
    <3>3. CASE Unregister(l)
      BY <2>2, <3>3, RegistrationsLeft DEF Unregister
    <3> QED BY <1>9, <3>1, <3>2, <3>3
  <2>4. /\ underWay' = underWay /\ lost' = lost /\ seen' = seen /\ known' = known
        /\ interviewed' = interviewed /\ custom' = custom /\ discovering' = discovering
        /\ awaited' = awaited /\ answers' = answers /\ ended' = ended
    BY <1>9 DEF Register, GiveUp, Unregister, network, devices, effects
  <2> QED BY <2>1, <2>3, <2>4 DEF PacketsTypeOK, Registration
<1>10. CASE UNCHANGED packetVars
  BY <1>10 DEF PacketsTypeOK, packetVars, network, devices, waits, effects
<1> QED BY <1>1, <1>2, <1>3, <1>4, <1>5, <1>6, <1>7, <1>8, <1>9, <1>10 DEF PacketsNext

\* Every variable of the dispatch always has its type.
THEOREM PacketsTypes == PacketsSpec => []PacketsTypeOK
BY InitTyped, NextTyped, PTL DEF PacketsSpec

-----------------------------------------------------------------------------
(* Frames count once.                                                      *)

\* The inductive invariant: a frame that the debouncer does not remember was
\* handled by nobody yet, as long as copies of it are under way.
OnceInv ==
  \A f \in Frames :
    /\ answers[f] \in 0 .. 1 /\ ended[f] \in 0 .. 1
    /\ f \notin seen /\ underWay[f] > 0 => answers[f] = 0 /\ ended[f] = 0

\* A frame that is handled is remembered from then on.
LEMMA HandledIsOnce ==
  ASSUME PacketsTypeOK, OnceInv, NEW f \in Frames, Handled(f)
  PROVE  OnceInv'
<1>1. f \notin seen /\ underWay[f] > 0 /\ seen' = seen \cup {f}
  BY DEF Handled, Remembers, Arrives
<1>2. answers[f] = 0 /\ ended[f] = 0
  BY <1>1 DEF OnceInv
<1>3. /\ answers' = [answers EXCEPT ![f] = IF Asks(f) THEN answers[f] + 1 ELSE answers[f]]
      /\ ended' = [ended EXCEPT ![f] = ended[f] + Cardinality(Resolved(f))]
      /\ underWay' = [underWay EXCEPT ![f] = underWay[f] - 1]
  BY DEF Handled, Answered, Listened, Arrives
<1>4. Cardinality(Resolved(f)) \in 0 .. 1
  BY ResolvesOne DEF PacketsTypeOK, Registration
<1>5. answers'[f] \in 0 .. 1 /\ ended'[f] \in 0 .. 1
  BY <1>2, <1>3, <1>4 DEF PacketsTypeOK
<1>6. ASSUME NEW g \in Frames, g # f
      PROVE  answers'[g] = answers[g] /\ ended'[g] = ended[g] /\ underWay'[g] = underWay[g]
  BY <1>3, <1>6 DEF PacketsTypeOK
<1> QED BY <1>1, <1>5, <1>6 DEF OnceInv

\* Every step keeps the invariant.
LEMMA NextIsOnce == PacketsTypeOK /\ OnceInv /\ [PacketsNext]_packetVars => OnceInv'
<1> SUFFICES ASSUME PacketsTypeOK, OnceInv, [PacketsNext]_packetVars PROVE OnceInv'
  OBVIOUS
<1>1. ASSUME answers' = answers, ended' = ended, seen \subseteq seen',
             \A f \in Frames : underWay'[f] > 0 => underWay[f] > 0
      PROVE  OnceInv'
  BY <1>1 DEF OnceInv
<1>2. ASSUME NEW f \in Frames, NEW copies \in 1 .. MaxCopies, SendFrame(f, copies)
      PROVE  OnceInv'
  <2>1. /\ answers' = [answers EXCEPT ![f] = 0] /\ ended' = [ended EXCEPT ![f] = 0]
        /\ underWay' = [underWay EXCEPT ![f] = copies] /\ seen' = seen
    BY <1>2 DEF SendFrame
  <2>2. ASSUME NEW g \in Frames
        PROVE  /\ g = f => answers'[g] = 0 /\ ended'[g] = 0
               /\ g # f => /\ answers'[g] = answers[g] /\ ended'[g] = ended[g]
                           /\ underWay'[g] = underWay[g]
    BY <2>1 DEF PacketsTypeOK
  <2>3. 0 \in 0 .. 1
    OBVIOUS
  <2> QED BY <2>1, <2>2, <2>3 DEF OnceInv
<1>3. ASSUME NEW f \in Frames, Lose(f) PROVE OnceInv'
  <2>1. /\ answers' = answers /\ ended' = ended /\ seen' = seen /\ underWay[f] > 0
        /\ underWay' = [underWay EXCEPT ![f] = underWay[f] - 1]
    BY <1>3 DEF Lose, effects
  <2> QED BY <1>1, <2>1 DEF PacketsTypeOK
<1>4. ASSUME NEW f \in Frames, Forget(f) PROVE OnceInv'
  <2>1. /\ answers' = answers /\ ended' = ended /\ underWay' = underWay
        /\ underWay[f] = 0 /\ seen' = seen \ {f}
    BY <1>4 DEF Forget, effects, network
  <2> QED BY <2>1 DEF OnceInv
<1>5. ASSUME NEW f \in Frames, ReceiveFrame(f) PROVE OnceInv'
  <2>1. CASE Handled(f)
    BY <2>1, HandledIsOnce
  <2>2. CASE ~Handled(f)
    <3>1. /\ answers' = answers /\ ended' = ended
          /\ underWay[f] > 0 /\ underWay' = [underWay EXCEPT ![f] = underWay[f] - 1]
      BY <1>5, <2>2 DEF ReceiveFrame, FromStranger, TurnedAway, Repeated, Ignored,
                        ReplyArrives, Arrives, effects
    <3>2. seen \subseteq seen'
      BY <1>5, <2>2 DEF ReceiveFrame, FromStranger, TurnedAway, Repeated, Ignored,
                        ReplyArrives, Remembers
    <3> QED BY <1>1, <3>1, <3>2 DEF PacketsTypeOK
  <2> QED BY <2>1, <2>2
<1>6. ASSUME NEW p \in Senders, Announced(p) PROVE OnceInv'
  <2>1. underWay' = underWay
    BY <1>6 DEF Announced, network
  <2>2. CASE p \in Quirks /\ ~custom[p]
    <3>1. /\ answers' = [f \in Frames |-> IF f.from = p THEN 0 ELSE answers[f]]
          /\ ended' = [f \in Frames |-> IF f.from = p THEN 0 ELSE ended[f]]
          /\ seen' = {f \in seen : f.from # p}
      BY <1>6, <2>2 DEF Announced
    <3>2. 0 \in 0 .. 1
      OBVIOUS
    <3> QED BY <2>1, <3>1, <3>2 DEF OnceInv
  <2>3. CASE ~(p \in Quirks /\ ~custom[p])
    <3>1. answers' = answers /\ ended' = ended /\ seen' = seen
      BY <1>6, <2>3 DEF Announced, effects
    <3> QED BY <1>1, <2>1, <3>1
  <2> QED BY <2>2, <2>3
<1>7. ASSUME NEW p \in Senders,
             RelaysReceived(p) \/ Interview(p) \/ InterviewFails(p)
               \/ RequestSent(p) \/ RequestTimesOut(p)
      PROVE  OnceInv'
  <2>1. answers' = answers /\ ended' = ended /\ seen' = seen /\ underWay' = underWay
    BY <1>7 DEF RelaysReceived, Interview, InterviewFails, RequestSent, RequestTimesOut,
                effects, network
  <2> QED BY <1>1, <2>1
<1>8. ASSUME NEW l \in Listeners, Register(l) \/ GiveUp(l) \/ Unregister(l)
      PROVE  OnceInv'
  <2>1. answers' = answers /\ ended' = ended /\ seen' = seen /\ underWay' = underWay
    BY <1>8 DEF Register, GiveUp, Unregister, effects, network
  <2> QED BY <1>1, <2>1
<1>9. CASE UNCHANGED packetVars
  <2>1. answers' = answers /\ ended' = ended /\ seen' = seen /\ underWay' = underWay
    BY <1>9 DEF packetVars, effects, network
  <2> QED BY <1>1, <2>1
<1> QED BY <1>2, <1>3, <1>4, <1>5, <1>6, <1>7, <1>8, <1>9 DEF PacketsNext

\* However often the network delivers a frame, an object of the device answers
\* it at most once and ends at most one wait with it.
THEOREM FramesCountOnce == PacketsSpec => []HandledOnce
<1>1. PacketsInit => OnceInv
  <2>1. 0 \in 0 .. 1
    OBVIOUS
  <2> QED BY <2>1 DEF PacketsInit, OnceInv
<1>2. PacketsTypeOK /\ OnceInv /\ [PacketsNext]_packetVars => OnceInv'
  BY NextIsOnce
<1>3. OnceInv => HandledOnce
  BY DEF OnceInv, HandledOnce
<1> QED BY <1>1, <1>2, <1>3, PacketsTypes, PTL DEF PacketsSpec

-----------------------------------------------------------------------------
(* Waiters in the order in which they are asked.  Of those who would take a *)
(* frame one is before all others, since listeners have numbers.            *)

\* Of some places in a list one is the least.
LEMMA LeastPlace ==
  ASSUME NEW T, T \subseteq Nat, T # {}
  PROVE  \E x \in T : \A y \in T : ~(y < x)
<1> DEFINE R == OpToRel(<, Nat)
<1>1. \A x, y \in Nat : x < y => <<x, y>> \in R
  BY DEF OpToRel
<1>2. IsWellFoundedOn(R, Nat)
  BY NatLessThanWellFounded
<1> HIDE DEF R
<1>3. PICK x \in T : \A y \in T : ~(<<y, x>> \in R)
  BY <1>2, WFMin, Zenon
<1>4. \A y \in T : ~(y < x)
  BY <1>1, <1>3
<1> QED BY <1>4

\* If anybody would take a frame, somebody is asked first of all who would.
LEMMA SomebodyIsFirst ==
  ASSUME PacketsTypeOK, NEW f, NEW n \in Asked(f), Resolves(Waiter(n), f)
  PROVE  \E k \in Asked(f) : /\ Resolves(Waiter(k), f)
                             /\ \A j \in Asked(f) : Before(j, k) => ~Resolves(Waiter(j), f)
<1> DEFINE R == {j \in Asked(f) : Resolves(Waiter(j), f)}
           A == {j \in R : Waiter(j).from = Anybody}
<1>1. R \subseteq Nat /\ n \in R
  <2>1. registered \in Seq(Registration)
    BY DEF PacketsTypeOK, Registration
  <2>2. DOMAIN registered \subseteq Nat
    BY <2>1
  <2> QED BY <2>2 DEF Asked
<1> SUFFICES \E k \in R : \A j \in R : ~Before(j, k)
  OBVIOUS
<1>2. CASE A # {}
  <2>1. PICK k \in A : \A j \in A : ~(j < k)
    BY <1>1, <1>2, LeastPlace
  <2>2. \A j \in R : ~Before(j, k)
    BY <2>1 DEF Before
  <2> QED BY <2>1, <2>2
<1>3. CASE A = {}
  <2>1. PICK k \in R : \A j \in R : ~(j < k)
    BY <1>1, LeastPlace
  <2>2. \A j \in R : ~Before(j, k)
    BY <1>3, <2>1 DEF Before
  <2> QED BY <2>1, <2>2
<1> QED BY <1>2, <1>3

\* The loop over the listeners ends with one that is before each of those who go on
\* waiting.
LEMMA HandledInOrder ==
  ASSUME PacketsTypeOK, NEW f \in Frames, Handled(f), NEW n \in Asked(f),
         Resolves(Waiter(n), f), future'[Waiter(n)] = "open"
  PROVE  \E k \in Asked(f) : /\ Before(k, n)
                             /\ future[Waiter(k)] = "open"
                             /\ future'[Waiter(k)] = "resolved"
<1>1. PICK k \in Asked(f) :
        /\ Resolves(Waiter(k), f)
        /\ \A j \in Asked(f) : Before(j, k) => ~Resolves(Waiter(j), f)
  BY SomebodyIsFirst
<1>2. registered \in Seq(Registration)
  BY DEF PacketsTypeOK, Registration
<1>3. \A j \in Asked(f) : j \in Nat /\ Waiter(j) \in Listeners
  <2>1. \A j \in Asked(f) : j \in DOMAIN registered
    BY DEF Asked
  <2>2. \A j \in DOMAIN registered : j \in Nat /\ registered[j] \in Registration
    BY <1>2
  <2> QED BY <2>1, <2>2 DEF Waiter, Registration
<1>4. Waiter(k) \in Resolved(f)
  BY <1>1 DEF Resolved
<1>5. future' = [l \in Listeners |-> IF l \in Resolved(f) THEN "resolved" ELSE future[l]]
  BY DEF Handled, Listened
<1>6. future'[Waiter(k)] = "resolved" /\ future[Waiter(k)] = "open"
  BY <1>1, <1>3, <1>4, <1>5 DEF Resolves
<1>7. k # n /\ ~Before(n, k)
  BY <1>1, <1>6
<1>8. Before(k, n)
  BY <1>3, <1>7 DEF Before
<1> QED BY <1>6, <1>8

\* Only a frame that is handled is answered.
LEMMA OnlyHandledIsAnswered ==
  ASSUME PacketsTypeOK, PacketsNext, NEW f \in Frames, answers'[f] > answers[f]
  PROVE  Handled(f)
<1>0. answers[f] \in Nat /\ answers'[f] # answers[f] /\ answers'[f] # 0
  BY DEF PacketsTypeOK
<1>1. ASSUME NEW g \in Frames, NEW copies \in 1 .. MaxCopies, SendFrame(g, copies) PROVE FALSE
  BY <1>0, <1>1 DEF SendFrame, PacketsTypeOK
<1>2. ASSUME NEW g \in Frames, Lose(g) \/ Forget(g) PROVE FALSE
  BY <1>0, <1>2 DEF Lose, Forget, effects
<1>3. ASSUME NEW g \in Frames, ReceiveFrame(g) PROVE Handled(f)
  <2>1. Handled(g)
    BY <1>0, <1>3 DEF ReceiveFrame, FromStranger, TurnedAway, Repeated, Ignored, ReplyArrives,
                      effects
  <2>2. answers' = [answers EXCEPT ![g] = IF Asks(g) THEN answers[g] + 1 ELSE answers[g]]
    BY <2>1 DEF Handled, Answered
  <2>3. g = f
    BY <1>0, <2>2 DEF PacketsTypeOK
  <2> QED BY <2>1, <2>3
<1>4. ASSUME NEW p \in Senders, Announced(p) PROVE FALSE
  <2>1. \/ answers' = [g \in Frames |-> IF g.from = p THEN 0 ELSE answers[g]]
        \/ answers' = answers
    BY <1>4 DEF Announced, effects
  <2> QED BY <1>0, <2>1
<1>5. ASSUME NEW p \in Senders,
             RelaysReceived(p) \/ Interview(p) \/ InterviewFails(p)
               \/ RequestSent(p) \/ RequestTimesOut(p)
      PROVE  FALSE
  BY <1>0, <1>5 DEF RelaysReceived, Interview, InterviewFails, RequestSent, RequestTimesOut,
                    effects
<1>6. ASSUME NEW l \in Listeners, Register(l) \/ GiveUp(l) \/ Unregister(l) PROVE FALSE
  BY <1>0, <1>6 DEF Register, GiveUp, Unregister, effects
<1> QED BY <1>1, <1>2, <1>3, <1>4, <1>5, <1>6 DEF PacketsNext

\* However many listeners wait for one frame, in whatever order they registered and
\* gave up: who goes on waiting has lost it to one that packet_received asks before.
THEOREM WaitersTakeTurns == PacketsSpec => FirstWaiterFirst
<1>1. ASSUME PacketsTypeOK, [PacketsNext]_packetVars,
             NEW f \in Frames, answers'[f] > answers[f], NEW n \in Asked(f),
             Resolves(Waiter(n), f), future'[Waiter(n)] = "open"
      PROVE  \E k \in Asked(f) : /\ Before(k, n)
                                 /\ future[Waiter(k)] = "open"
                                 /\ future'[Waiter(k)] = "resolved"
  <2>1. PacketsNext
    <3>1. answers[f] \in Nat
      BY <1>1 DEF PacketsTypeOK
    <3>2. answers' # answers
      BY <1>1, <3>1
    <3> QED BY <1>1, <3>2 DEF packetVars, effects
  <2> QED BY <1>1, <2>1, OnlyHandledIsAnswered, HandledInOrder
<1>2. PacketsTypeOK /\ [PacketsNext]_packetVars =>
        [\A f \in Frames : answers'[f] > answers[f] =>
           \A n \in Asked(f) :
             (Resolves(Waiter(n), f) /\ future'[Waiter(n)] = "open") =>
                \E k \in Asked(f) : /\ Before(k, n)
                                    /\ future[Waiter(k)] = "open"
                                    /\ future'[Waiter(k)] = "resolved"]_packetVars
  BY <1>1
<1> QED BY <1>2, InitTyped, NextTyped, PTL DEF PacketsSpec, FirstWaiterFirst

-----------------------------------------------------------------------------
(* The inductive invariant.  A handle that fires looks at _when only; that  *)
(* this is enough takes the link between _when and the time since the       *)
(* update was last served, as long as there is a handle.                    *)

WhenFollowsProgress ==
  \A u \in Updates : timerIn[u] # Off => quiet[u] + whenIn[u] >= StallTime

UpdateInv == UpdateTypeOK /\ WhenFollowsProgress

\* The parts of UpdateTypeOK that the timers and outcomes need.
TimersTyped ==
  /\ outcome \in [Updates -> Outcomes]
  /\ timerIn \in [Updates -> {Off} \cup 0 .. StallTime]
  /\ whenIn \in [Updates -> 0 .. StallTime]
  /\ quiet \in [Updates -> 0 .. StallTime]

TimersInv == TimersTyped /\ WhenFollowsProgress

\* The rest of UpdateTypeOK.
TaskTyped ==
  /\ latest \in 0 .. MaxUpdates
  /\ phase \in {"idle", "notifying", "waiting"}
  /\ phase # "idle" => latest \in Updates
  /\ handlers \subseteq Handler
  /\ frames \in 0 .. MaxFrames

\* While update_firmware runs there is an update.
UpdateInvT == TaskTyped /\ TimersInv

-----------------------------------------------------------------------------
(* What each operation on a timer keeps.                                   *)

LEMMA EndsKeeps ==
  ASSUME TimersInv, NEW u \in Updates, NEW status \in Outcomes, Ends(u, status)
  PROVE  TimersInv'
BY StallTimeIsPositive DEF TimersInv, TimersTyped, WhenFollowsProgress, Ends, Off, Outcomes

LEMMA RescheduleKeeps ==
  ASSUME TimersInv, NEW u \in Updates, Reschedule(u)
  PROVE  TimersInv'
BY StallTimeIsPositive DEF TimersInv, TimersTyped, WhenFollowsProgress, Reschedule, Off

LEMMA UntouchedKeeps ==
  ASSUME TimersInv, Untouched PROVE TimersInv'
BY DEF TimersInv, TimersTyped, WhenFollowsProgress, Untouched

LEMMA TriggerKeeps ==
  ASSUME TimersInv, NEW u \in Updates, TimeoutTrigger(u)
  PROVE  TimersInv'
<1>1. CASE whenIn[u] > 0
  BY <1>1, StallTimeIsPositive
  DEF TimersInv, TimersTyped, WhenFollowsProgress, TimeoutTrigger, Off
<1>2. CASE ~(whenIn[u] > 0)
  BY <1>2, EndsKeeps DEF TimeoutTrigger, Outcomes
<1> QED BY <1>1, <1>2

LEMMA TickKeeps ==
  ASSUME TimersInv, UpdateTick PROVE TimersInv'
<1> USE StallTimeIsPositive DEF TimersInv, TimersTyped, UpdateTick, Off
<1>1. ASSUME NEW u \in Updates
      PROVE  /\ timerIn'[u] \in {Off} \cup 0 .. StallTime
             /\ whenIn'[u] \in 0 .. StallTime
             /\ quiet'[u] \in 0 .. StallTime
             /\ timerIn'[u] # Off => quiet'[u] + whenIn'[u] >= StallTime
  BY DEF WhenFollowsProgress
<1>2. TimersTyped'
  BY <1>1
<1> QED BY <1>1, <1>2 DEF WhenFollowsProgress

-----------------------------------------------------------------------------
(* Every step is one of these operations on the timer of an update.         *)

StatusesOfHandlers == {"no_image", "malformed", "success", "abort", "failure"}

LEMMA HandlerStepIs ==
  ASSUME TaskTyped, NEW h \in handlers, HandlerStep(h)
  PROVE  /\ UNCHANGED <<latest, phase, frames>> /\ handlers' \subseteq handlers
         /\ \/ Untouched
            \/ \E u \in Updates : Reschedule(u)
            \/ \E u \in Updates : \E status \in StatusesOfHandlers : Ends(u, status)
<1> USE DEF StatusesOfHandlers
<1>1. h.update \in Updates /\ h.kind \in Queries \cup Blocks \cup UpgradeEnds
  BY DEF TaskTyped, Handler
<1>2. CASE ResponseFailed(h)
  BY <1>1, <1>2 DEF ResponseFailed
<1>3. CASE ResponseSent(h)
  <2> USE <1>1, <1>3 DEF ResponseSent
  <2>1. CASE h.kind = "query"            BY <2>1
  <2>2. CASE h.kind = "query_unsuitable" BY <2>2
  <2>3. CASE h.kind = "block"            BY <2>3
  <2>4. CASE h.kind = "block_beyond"     BY <2>4
  <2>5. CASE h.kind = "end_success"      BY <2>5
  <2>6. CASE h.kind = "end_abort"        BY <2>6
  <2> QED BY <2>1, <2>2, <2>3, <2>4, <2>5, <2>6 DEF Queries, Blocks, UpgradeEnds
<1> QED BY <1>2, <1>3 DEF HandlerStep

LEMMA UpdateInitInv == UpdateInit => UpdateInvT
BY UpdateBounds, StallTimeIsPositive
DEF UpdateInit, UpdateInvT, TaskTyped, TimersInv, TimersTyped, WhenFollowsProgress, Off,
    Outcomes

LEMMA UpdateStepInv == UpdateInvT /\ [UpdateNext]_updateVars => UpdateInvT'
<1> SUFFICES ASSUME UpdateInvT, [UpdateNext]_updateVars PROVE UpdateInvT'
  OBVIOUS
<1> USE UpdateBounds DEF UpdateInvT
<1>1. CASE StartUpdate
  BY <1>1, UntouchedKeeps DEF StartUpdate, Untouched, TaskTyped, Updates
<1>2. CASE Notified
  <2>1. TaskTyped'
    BY <1>2 DEF Notified, TaskTyped
  <2>2. TimersInv'
    BY <1>2, RescheduleKeeps DEF Notified, TaskTyped
  <2> QED BY <2>1, <2>2
<1>3. CASE NotifyFailed
  <2>1. TaskTyped'
    BY <1>3 DEF NotifyFailed, TaskTyped
  <2>2. TimersInv'
    BY <1>3, EndsKeeps DEF NotifyFailed, TaskTyped, Outcomes
  <2> QED BY <2>1, <2>2
<1>4. CASE UpdateReturns
  BY <1>4, UntouchedKeeps DEF UpdateReturns, Untouched, TaskTyped
<1>5. CASE UpdateCancelled
  <2>1. TaskTyped'
    BY <1>5 DEF UpdateCancelled, TaskTyped
  <2>2. TimersInv'
    BY <1>5 DEF UpdateCancelled, TimersInv, TimersTyped, WhenFollowsProgress, Outcomes
  <2> QED BY <2>1, <2>2
<1>6. ASSUME NEW kind \in Queries \cup Blocks \cup UpgradeEnds, FrameReceived(kind)
      PROVE  UpdateInvT'
  <2>1. [update |-> latest, kind |-> kind] \in Handler
    BY <1>6 DEF FrameReceived, TaskTyped, Handler
  <2>2. TaskTyped'
    BY <1>6, <2>1 DEF FrameReceived, TaskTyped
  <2>3. TimersInv'
    BY <1>6, UntouchedKeeps DEF FrameReceived, Untouched
  <2> QED BY <2>2, <2>3
<1>7. ASSUME NEW h \in handlers, HandlerStep(h) PROVE UpdateInvT'
  <2>1. TaskTyped'
    BY <1>7, HandlerStepIs DEF TaskTyped
  <2>2. TimersInv'
    BY <1>7, HandlerStepIs, EndsKeeps, RescheduleKeeps, UntouchedKeeps
    DEF StatusesOfHandlers, Outcomes
  <2> QED BY <2>1, <2>2
<1>8. ASSUME NEW u \in Updates, TimeoutTrigger(u) PROVE UpdateInvT'
  <2>1. TaskTyped'
    BY <1>8 DEF TimeoutTrigger, TaskTyped
  <2> QED BY <1>8, <2>1, TriggerKeeps
<1>9. CASE UpdateTick
  <2>1. TaskTyped'
    BY <1>9 DEF UpdateTick, TaskTyped
  <2> QED BY <1>9, <2>1, TickKeeps
<1>10. CASE UNCHANGED updateVars
  BY <1>10, UntouchedKeeps DEF updateVars, Untouched, TaskTyped
<1> QED
  BY <1>1, <1>2, <1>3, <1>4, <1>5, <1>6, <1>7, <1>8, <1>9, <1>10 DEF UpdateNext

\* UpdateInvT always holds.
LEMMA UpdateInvariant == UpdateSpec => []UpdateInvT
BY UpdateInitInv, UpdateStepInv, PTL DEF UpdateSpec

-----------------------------------------------------------------------------
(* Theorems.                                                               *)

\* Every variable of the updates keeps its type, and whenever a handle is set, the
\* time that is left and the time without progress make up the stall time.
THEOREM UpdateTypes == UpdateSpec => []UpdateInv
<1>1. UpdateInvT => UpdateInv
  BY DEF UpdateInvT, UpdateInv, TaskTyped, TimersInv, TimersTyped, UpdateTypeOK
<1> QED BY UpdateInvariant, <1>1, PTL

\* A step that ends an update with a timeout is a handle that has fired after the
\* whole stall time.
LEMMA TimeoutIsLate ==
  ASSUME UpdateInvT, [UpdateNext]_updateVars,
         NEW u \in Updates, outcome[u] # "timeout", outcome'[u] = "timeout"
  PROVE  quiet[u] = StallTime
<1>1. ~(outcome'[u] = outcome[u])
  OBVIOUS
<1>2. ASSUME NEW v \in Updates, NEW status \in Outcomes, Ends(v, status), status # "timeout"
      PROVE  FALSE
  BY <1>2 DEF Ends, UpdateInvT, TimersInv, TimersTyped
<1>3. ASSUME NEW v \in Updates, TimeoutTrigger(v) PROVE quiet[u] = StallTime
  <2>1. ~(whenIn[v] > 0) /\ v = u
    BY <1>1, <1>3 DEF TimeoutTrigger, Ends, UpdateInvT, TimersInv, TimersTyped
  <2>2. timerIn[u] # Off
    BY <1>3, <2>1 DEF TimeoutTrigger, Off
  <2> QED
    BY <2>1, <2>2, StallTimeIsPositive
    DEF UpdateInvT, TimersInv, TimersTyped, WhenFollowsProgress
<1>4. ASSUME NEW h \in handlers, HandlerStep(h) PROVE FALSE
  BY <1>1, <1>2, <1>4, HandlerStepIs
  DEF StatusesOfHandlers, Outcomes, Untouched, Reschedule, UpdateInvT
<1>5. CASE NotifyFailed
  BY <1>2, <1>5 DEF NotifyFailed, UpdateInvT, TaskTyped, Outcomes
<1>6. CASE UpdateCancelled
  BY <1>1, <1>6 DEF UpdateCancelled, UpdateInvT, TimersInv, TimersTyped
<1>7. CASE StartUpdate \/ Notified \/ UpdateReturns \/ UpdateTick \/ UNCHANGED updateVars
  BY <1>1, <1>7 DEF StartUpdate, Notified, UpdateReturns, UpdateTick, Reschedule, updateVars
<1>8. ASSUME NEW kind \in Queries \cup Blocks \cup UpgradeEnds, FrameReceived(kind)
      PROVE  FALSE
  BY <1>1, <1>8 DEF FrameReceived
<1> QED BY <1>3, <1>4, <1>5, <1>6, <1>7, <1>8 DEF UpdateNext

\* For any stall time, an update is given up for want of progress only when nothing
\* was served for all of it.
THEOREM UpdatesTimeOutLate == UpdateSpec => NoEarlyTimeout
<1>1. UpdateInvT /\ [UpdateNext]_updateVars =>
        [\A u \in Updates :
           outcome[u] # "timeout" /\ outcome'[u] = "timeout" => quiet[u] = StallTime]_updateVars
  BY TimeoutIsLate
<1> QED BY UpdateInvariant, <1>1, PTL DEF UpdateSpec, NoEarlyTimeout

-----------------------------------------------------------------------------
(* The images that are offered.  A file that somebody else has downloaded  *)
(* is used again, so that what was checked then has to hold now: all that  *)
(* is offered or kept was announced, and what is chosen fits by the index. *)

Chosen(q, image) == CheckCompatibility(image, Unread, q) /\ CheckVersion(image, q.version)

ImagesTypeOK ==
  /\ doing \in [OtaQueries -> {"none", "loading", "downloading"}]
  /\ listed \subseteq OtaImages
  /\ downloaded \subseteq OtaImages
  /\ upgrades \in [OtaQueries -> SUBSET OtaImages]
  /\ missing \in [OtaQueries -> SUBSET OtaImages]
  /\ answer \in [OtaQueries -> SUBSET OtaImages]

\* What a query holds: until its downloads end, some of it is missing.
QueryInv(q) ==
  /\ doing[q] # "downloading" => missing[q] = {}
  /\ \A image \in upgrades[q] \ missing[q] : IsAnnounced(image)
  /\ \A image \in upgrades[q] \cup answer[q] : Chosen(q, image)
  /\ \A image \in answer[q] : IsAnnounced(image)
  /\ \A a, b \in answer[q] : ~Collide(a, b)

ImagesInv ==
  /\ ImagesTypeOK
  /\ \A image \in downloaded : IsAnnounced(image)
  /\ \A q \in OtaQueries : QueryInv(q)

\* A file says more than the index, so that an image which fits by it fits by the index.
LEMMA FileIsStricter ==
  ASSUME NEW image, NEW q, NEW h, CheckCompatibility(image, h, q)
  PROVE  CheckCompatibility(image, Unread, q)
BY DEF CheckCompatibility, Unread, Said, None

\* Of the images of an answer none collides with another.
LEMMA NoneCollides ==
  ASSUME NEW images
  PROVE  /\ Unambiguous(images) \subseteq images
         /\ \A a, b \in Unambiguous(images) : ~Collide(a, b)
BY DEF Unambiguous

\* At the start there is nothing.
LEMMA ImagesInitInv == ImagesInit => ImagesInv
BY DEF ImagesInit, ImagesInv, ImagesTypeOK, QueryInv

\* A step that neither downloads nor answers leaves everything as good as it was.
LEMMA IndexStep ==
  ASSUME ImagesInv, listed' \subseteq OtaImages,
         UNCHANGED <<downloaded, doing, upgrades, missing, answer>>
  PROVE  ImagesInv'
BY DEF ImagesInv, ImagesTypeOK, QueryInv

\* A new query has nothing to download yet.
LEMMA QueryStep == ASSUME ImagesInv, NEW q \in OtaQueries, Query(q) PROVE ImagesInv'
<1>1. ImagesTypeOK'
  BY DEF ImagesInv, ImagesTypeOK, Query
<1>2. ASSUME NEW r \in OtaQueries PROVE QueryInv(r)'
  BY <1>2 DEF ImagesInv, ImagesTypeOK, QueryInv, Query
<1> QED BY <1>1, <1>2 DEF ImagesInv, Query

\* An index brings images of the index.
LEMMA LoadStep == ASSUME ImagesInv, NEW name \in ProviderNames, IndexEnds(name) \/ IndexExpires(name)
                  PROVE  ImagesInv'
<1>1. listed' \subseteq OtaImages
  BY DEF ImagesInv, ImagesTypeOK, IndexEnds, RecentIndex, IndexLoaded, IndexFailed, IndexExpires,
         ImagesOf
<1>2. UNCHANGED <<downloaded, doing, upgrades, missing, answer>>
  BY DEF IndexEnds, RecentIndex, IndexLoaded, IndexFailed, IndexExpires
<1> QED BY <1>1, <1>2, IndexStep

\* The candidates fit by the index, and those whose file is there were announced.
LEMMA ChooseStep == ASSUME ImagesInv, NEW q \in OtaQueries, Choose(q) PROVE ImagesInv'
<1> DEFINE newer == {image \in listed :
                       /\ CheckCompatibility(image, Header(image, downloaded), q)
                       /\ CheckVersion(image, q.version)}
<1>1. /\ upgrades' = [upgrades EXCEPT ![q] = newer]
      /\ missing' = [missing EXCEPT ![q] = newer \ downloaded]
      /\ doing' = [doing EXCEPT ![q] = "downloading"]
      /\ UNCHANGED <<listed, downloaded, answer>>
  BY DEF Choose
<1>2. newer \subseteq OtaImages /\ \A image \in newer : Chosen(q, image)
  BY FileIsStricter DEF Chosen, ImagesInv, ImagesTypeOK
<1> HIDE DEF newer
<1>3. ImagesTypeOK'
  BY <1>1, <1>2 DEF ImagesInv, ImagesTypeOK
<1>4. ASSUME NEW r \in OtaQueries PROVE QueryInv(r)'
  BY <1>1, <1>2, <1>4 DEF ImagesInv, ImagesTypeOK, QueryInv
<1> QED BY <1>1, <1>3, <1>4 DEF ImagesInv

\* What was fetched was announced, and what was not is no upgrade any more.
LEMMA FetchStep == ASSUME ImagesInv, NEW image \in OtaImages, FetchEnds(image) PROVE ImagesInv'
<1>1. /\ missing' = [q \in OtaQueries |-> missing[q] \ {image}]
      /\ UNCHANGED <<listed, downloaded, doing, answer>>
  BY DEF FetchEnds, ImageFetched, ImageFailed, Fetched
<1>2. \/ IsAnnounced(image) /\ UNCHANGED upgrades
      \/ upgrades' = [q \in OtaQueries |->
                        IF Fetches(q, image) THEN upgrades[q] \ {image} ELSE upgrades[q]]
  BY DEF FetchEnds, ImageFetched, ImageFailed
<1>3. ImagesTypeOK'
  BY <1>1, <1>2 DEF ImagesInv, ImagesTypeOK
<1>4. ASSUME NEW r \in OtaQueries PROVE QueryInv(r)'
  <2>1. /\ missing'[r] = missing[r] \ {image}
        /\ doing'[r] = doing[r] /\ answer'[r] = answer[r]
    BY <1>1, <1>4 DEF ImagesInv, ImagesTypeOK
  <2>2. upgrades'[r] \subseteq upgrades[r]
    BY <1>2, <1>4 DEF ImagesInv, ImagesTypeOK
  <2>3. image \in upgrades'[r] => IsAnnounced(image) \/ image \notin missing[r]
    BY <1>2, <1>4 DEF ImagesInv, ImagesTypeOK, QueryInv, Fetches
  <2> QED BY <1>4, <2>1, <2>2, <2>3 DEF ImagesInv, QueryInv
<1> QED BY <1>1, <1>3, <1>4 DEF ImagesInv

\* When nothing is missing, everything that is kept and answered was announced.
LEMMA AnswerStep == ASSUME ImagesInv, NEW q \in OtaQueries, GiveAnswer(q) PROVE ImagesInv'
<1> DEFINE found == Unambiguous(upgrades[q])
<1>1. /\ doing' = [doing EXCEPT ![q] = "none"]
      /\ downloaded' = downloaded \cup upgrades[q]
      /\ answer' = [answer EXCEPT ![q] = found]
      /\ upgrades' = [upgrades EXCEPT ![q] = {}]
      /\ UNCHANGED <<listed, missing>>
      /\ missing[q] = {}
  BY DEF GiveAnswer
<1>2. found \subseteq upgrades[q] /\ \A a, b \in found : ~Collide(a, b)
  BY NoneCollides
<1> HIDE DEF found
<1>3. upgrades[q] \subseteq OtaImages
      /\ \A image \in upgrades[q] : IsAnnounced(image) /\ Chosen(q, image)
  BY <1>1 DEF ImagesInv, ImagesTypeOK, QueryInv
<1>4. ImagesTypeOK'
  BY <1>1, <1>2, <1>3 DEF ImagesInv, ImagesTypeOK
<1>5. ASSUME NEW r \in OtaQueries PROVE QueryInv(r)'
  BY <1>1, <1>2, <1>3, <1>5 DEF ImagesInv, ImagesTypeOK, QueryInv
<1> QED BY <1>1, <1>3, <1>4, <1>5 DEF ImagesInv

LEMMA ImagesAlways == ImagesSpec => []ImagesInv
<1>1. ASSUME ImagesInv, [ImagesNext]_imageVars PROVE ImagesInv'
  <2>1. CASE UNCHANGED imageVars
    BY <1>1, <2>1, IndexStep DEF imageVars, ImagesInv, ImagesTypeOK
  <2>2. CASE ImagesNext
    BY <1>1, <2>2, QueryStep, LoadStep, ChooseStep, FetchStep, AnswerStep DEF ImagesNext
  <2> QED BY <1>1, <2>1, <2>2
<1> QED BY <1>1, ImagesInitInv, PTL DEF ImagesSpec

\* Of two upgrades that OTA.get_ota_images has found for a device it can be told
\* which is the better one, for any indexes, files and number of queries at a time.
THEOREM UpgradesAreUnambiguous == ImagesSpec => []NoAmbiguousUpgrade
<1>1. ImagesInv => NoAmbiguousUpgrade
  BY DEF ImagesInv, QueryInv, NoAmbiguousUpgrade
<1> QED BY <1>1, ImagesAlways, PTL

\* All that is offered was checked, whoever has downloaded it: it is what the index
\* has announced, newer than what the device has, and fits it by the index.  (By the
\* file it need not: that is the finding of OffersFit.)
THEOREM OffersWereChecked ==
  ImagesSpec => [](\A q \in OtaQueries : \A image \in answer[q] :
                     /\ IsAnnounced(image)
                     /\ CheckCompatibility(image, Unread, q)
                     /\ CheckVersion(image, q.version))
<1>1. ImagesInv => \A q \in OtaQueries : \A image \in answer[q] :
                     /\ IsAnnounced(image)
                     /\ CheckCompatibility(image, Unread, q)
                     /\ CheckVersion(image, q.version)
  BY DEF ImagesInv, QueryInv, Chosen
<1> QED BY <1>1, ImagesAlways, PTL

-----------------------------------------------------------------------------
(* Recursive functions.                                                    *)

\* A set with 0 in it, and with each number the next one, has all of them.
LEMMA CountingUp ==
  ASSUME NEW T \in SUBSET Nat, 0 \in T, \A i \in T : i + 1 \in T
  PROVE  T = Nat
<1> DEFINE R == OpToRel(<, Nat)
<1>1. \A x, y \in Nat : x < y => <<x, y>> \in R
  BY DEF OpToRel
<1>2. IsWellFoundedOn(R, Nat)
  BY NatLessThanWellFounded
<1> HIDE DEF R
<1> SUFFICES ASSUME Nat \ T # {} PROVE FALSE
  OBVIOUS
<1>3. PICK x \in Nat \ T : \A y \in Nat \ T : ~(<<y, x>> \in R)
  <2>1. Nat \ T \subseteq Nat
    OBVIOUS
  <2> QED BY <2>1, <1>2, WFMin, Zenon
<1>4. x - 1 \in Nat /\ x - 1 < x
  OBVIOUS
<1>5. x - 1 \in T
  BY <1>1, <1>3, <1>4
<1> QED BY <1>5

\* A function of the natural numbers that is made from one value and a step, and one
\* of the places of a list.
Steps(I, S) == [I -> [S -> S]]
Recursive(f, S, base, Step) ==
  f \in [Nat -> S] /\ f[0] = base /\ \A i \in Nat \ {0} : f[i] = Step[i][f[i - 1]]
RecursiveTo(n, f, S, base, Step) ==
  f \in [0 .. n -> S] /\ f[0] = base /\ \A i \in 1 .. n : f[i] = Step[i][f[i - 1]]

\* Of each number the one before it says what the function is: there is a function.
LEMMA RecursionExists ==
  ASSUME NEW S, NEW base \in S, NEW Step \in Steps(Nat, S)
  PROVE  \E f : Recursive(f, S, base, Step)
<1> USE DEF Steps
<1> DEFINE Follows(n, g) == /\ g \in [0 .. n -> S]
                            /\ g[0] = base
                            /\ \A i \in 1 .. n : g[i] = Step[i][g[i - 1]]
           Has == {n \in Nat : \E g : Follows(n, g)}
<1>1. Follows(0, [i \in 0 .. 0 |-> base])
  OBVIOUS
<1>2. ASSUME NEW n \in Nat, NEW g, Follows(n, g)
      PROVE  \E h : Follows(n + 1, h)
  <2> DEFINE h == [i \in 0 .. n + 1 |-> IF i <= n THEN g[i] ELSE Step[n + 1][g[n]]]
  <2>0. g \in [0 .. n -> S] /\ g[0] = base /\ \A i \in 1 .. n : g[i] = Step[i][g[i - 1]]
    BY <1>2
  <2>1. g \in [0 .. n -> S]
    BY <2>0
  <2>2. n + 1 \in Nat /\ \A i \in 0 .. n : g[i] \in S
    BY <2>1
  <2>3. Step[n + 1][g[n]] \in S
    BY <2>2
  <2>4. h \in [0 .. n + 1 -> S]
    BY <2>2, <2>3
  <2>5. h[0] = base
    BY <2>0
  <2>6. ASSUME NEW i \in 1 .. n + 1 PROVE h[i] = Step[i][h[i - 1]]
    <3>0. i \in 1 .. n \/ i = n + 1
      OBVIOUS
    <3>1. CASE i \in 1 .. n
      <4>1. h[i] = g[i] /\ h[i - 1] = g[i - 1]
        BY <3>1
      <4> HIDE DEF h
      <4> QED BY <4>1, <3>1, <2>0
    <3>2. CASE i = n + 1
      <4>1. h[n + 1] = Step[n + 1][g[n]] /\ h[n] = g[n] /\ (n + 1) - 1 = n
        OBVIOUS
      <4> HIDE DEF h
      <4> QED BY <4>1, <3>2
    <3> HIDE DEF h
    <3> QED BY <3>0, <3>1, <3>2
  <2>7. Follows(n + 1, h)
    <3> HIDE DEF h
    <3> QED BY <2>4, <2>6, <2>5
  <2> HIDE DEF Follows, h
  <2> QED BY <2>7
<1>3. \A n \in Nat : \E g : Follows(n, g)
  <2> HIDE DEF Follows
  <2>1. Has \in SUBSET Nat /\ 0 \in Has
    BY <1>1
  <2>2. ASSUME NEW n \in Has PROVE n + 1 \in Has
    BY <1>2
  <2> HIDE DEF Has
  <2>3. Has = Nat
    BY <2>1, <2>2, CountingUp
  <2> QED BY <2>3 DEF Has
<1> DEFINE G(n) == CHOOSE g : Follows(n, g)
<1>4. ASSUME NEW n \in Nat PROVE Follows(n, G(n))
  <2> HIDE DEF Follows
  <2> QED BY <1>3
<1> HIDE DEF G
<1>5. ASSUME NEW n \in Nat, NEW g, NEW h, Follows(n, g), Follows(n + 1, h)
      PROVE  g[n] = h[n]
  <2> DEFINE T == {i \in Nat : i <= n => g[i] = h[i]}
  <2>1. T \in SUBSET Nat /\ 0 \in T
    BY <1>5
  <2>2. ASSUME NEW i \in T PROVE i + 1 \in T
    <3> SUFFICES ASSUME i + 1 <= n PROVE g[i + 1] = h[i + 1]
      OBVIOUS
    <3>1. i \in Nat /\ i + 1 \in 1 .. n /\ i + 1 \in 1 .. n + 1 /\ (i + 1) - 1 = i /\ i <= n
      OBVIOUS
    <3>2. g[i] = h[i]
      BY <3>1
    <3>3. g[i + 1] = Step[i + 1][g[i]] /\ h[i + 1] = Step[i + 1][h[i]]
      BY <3>1, <1>5
    <3> QED BY <3>2, <3>3
  <2> HIDE DEF T
  <2>3. T = Nat
    BY <2>1, <2>2, CountingUp
  <2> QED BY <2>3 DEF T
<1> DEFINE f == [n \in Nat |-> G(n)[n]]
<1>6. f \in [Nat -> S] /\ f[0] = base
  <2>1. \A n \in Nat : G(n)[n] \in S
    BY <1>4
  <2>2. G(0)[0] = base
    BY <1>4
  <2> QED BY <2>1, <2>2
<1>7. ASSUME NEW i \in Nat \ {0} PROVE f[i] = Step[i][f[i - 1]]
  <2>1. i - 1 \in Nat /\ (i - 1) + 1 = i /\ i \in 1 .. i
    OBVIOUS
  <2>2. G(i)[i] = Step[i][G(i)[i - 1]]
    BY <2>1, <1>4
  <2>3. G(i - 1)[i - 1] = G(i)[i - 1]
    <3>1. Follows(i - 1, G(i - 1)) /\ Follows((i - 1) + 1, G(i))
      BY <2>1, <1>4
    <3> HIDE DEF Follows
    <3> QED BY <3>1, <2>1, <1>5
  <2> QED BY <2>1, <2>2, <2>3
<1> HIDE DEF f
<1> QED BY <1>6, <1>7 DEF Recursive

-----------------------------------------------------------------------------
(* Powers, digits and numbers.                                             *)

\* Powers: of 0 and of one more, all of them positive.
LEMMA PowerIs ==
  ASSUME NEW radix \in Nat \ {0}
  PROVE  /\ Power(radix, 0) = 1
         /\ \A k \in Nat : Power(radix, k) \in Nat \ {0}
         /\ \A k \in Nat : Power(radix, k + 1) = radix * Power(radix, k)
<1> DEFINE Says(p) == p = [i \in Nat |-> IF i = 0 THEN 1 ELSE radix * p[i - 1]]
           P == CHOOSE p : Says(p)
           Step == [i \in Nat |-> [x \in Int |-> radix * x]]
<1>1. Step \in Steps(Nat, Int)
  BY DEF Steps
<1>2. \A i \in Nat, x \in Int : Step[i][x] = radix * x
  OBVIOUS
<1> HIDE DEF Step
<1>3. PICK f : Recursive(f, Int, 1, Step)
  <2>1. 1 \in Int
    OBVIOUS
  <2> QED BY <1>1, <2>1, RecursionExists, Zenon
<1>4. f \in [Nat -> Int] /\ f[0] = 1 /\ \A i \in Nat \ {0} : f[i] = Step[i][f[i - 1]]
  BY <1>3 DEF Recursive
<1>5. \A i \in Nat \ {0} : f[i] = radix * f[i - 1]
  <2> TAKE i \in Nat \ {0}
  <2>1. i - 1 \in Nat /\ f[i - 1] \in Int
    BY <1>4
  <2> QED BY <2>1, <1>2, <1>4
<1>6. Says(f)
  BY <1>4, <1>5
<1>7. Says(P)
  <2> HIDE DEF Says
  <2> QED BY <1>6
<1> HIDE DEF P
<1>8. P[0] = 1
  BY <1>7
<1>9. \A k \in Nat : P[k + 1] = radix * P[k]
  BY <1>7
<1>10. \A k \in Nat : Power(radix, k) = P[k]
  BY DEF Power, P
<1> HIDE DEF Says
<1> DEFINE T == {k \in Nat : P[k] \in Nat \ {0}}
<1>11. T \in SUBSET Nat /\ 0 \in T
  BY <1>8
<1>12. ASSUME NEW k \in T PROVE k + 1 \in T
  <2>1. P[k + 1] = radix * P[k] /\ P[k] \in Nat \ {0} /\ k \in Nat
    BY <1>9
  <2> QED BY <2>1
<1> HIDE DEF T
<1>13. T = Nat
  BY <1>11, <1>12, CountingUp
<1>14. \A k \in Nat : Power(radix, k) \in Nat \ {0}
  BY <1>10, <1>13 DEF T
<1>15. ASSUME NEW k \in Nat PROVE Power(radix, k + 1) = radix * Power(radix, k)
  <2>1. k + 1 \in Nat
    OBVIOUS
  <2>2. Power(radix, k) = P[k] /\ Power(radix, k + 1) = P[k + 1]
    BY <2>1, <1>10
  <2> QED BY <2>2, <1>9, Zenon
<1> QED BY <1>8, <1>10, <1>14, <1>15

\* What is left of a number after shifts: of none, and of one more.
LEMMA ShiftedIs ==
  ASSUME NEW radix \in Nat \ {0}, NEW n \in Int
  PROVE  /\ Shifted(radix, n, 0) = n
         /\ \A i \in Nat : Shifted(radix, n, i) \in Int
         /\ \A i \in Nat : Shifted(radix, n, i + 1) = Shifted(radix, n, i) \div radix
<1> DEFINE Says(p) == p = [i \in Nat |-> IF i = 0 THEN n ELSE p[i - 1] \div radix]
           P == CHOOSE p : Says(p)
           Step == [i \in Nat |-> [x \in Int |-> x \div radix]]
<1>1. Step \in Steps(Nat, Int)
  BY DEF Steps
<1>2. \A i \in Nat, x \in Int : Step[i][x] = x \div radix
  OBVIOUS
<1> HIDE DEF Step
<1>3. PICK f : Recursive(f, Int, n, Step)
  <2>1. n \in Int
    OBVIOUS
  <2> QED BY <1>1, <2>1, RecursionExists, Zenon
<1>4. f \in [Nat -> Int] /\ f[0] = n /\ \A i \in Nat \ {0} : f[i] = Step[i][f[i - 1]]
  BY <1>3 DEF Recursive
<1>5. \A i \in Nat \ {0} : f[i] = f[i - 1] \div radix
  <2> TAKE i \in Nat \ {0}
  <2>1. i - 1 \in Nat /\ f[i - 1] \in Int
    BY <1>4
  <2> QED BY <2>1, <1>2, <1>4
<1>6. Says(f)
  BY <1>4, <1>5
<1>7. Says(P)
  <2> HIDE DEF Says
  <2> QED BY <1>6
<1> HIDE DEF P
<1>8. P[0] = n
  BY <1>7
<1>9. \A k \in Nat : P[k + 1] = P[k] \div radix
  BY <1>7
<1>10. \A k \in Nat : Shifted(radix, n, k) = P[k]
  BY DEF Shifted, P
<1> HIDE DEF Says
<1> DEFINE T == {k \in Nat : P[k] \in Int}
<1>11. T \in SUBSET Nat /\ 0 \in T
  BY <1>8
<1>12. ASSUME NEW k \in T PROVE k + 1 \in T
  <2>1. P[k + 1] = P[k] \div radix /\ P[k] \in Int /\ k \in Nat
    BY <1>9
  <2> QED BY <2>1
<1> HIDE DEF T
<1>13. T = Nat
  BY <1>11, <1>12, CountingUp
<1> QED BY <1>8, <1>9, <1>10, <1>13 DEF T

\* A recursive function on the places of a list.
LEMMA ListRecursionExists ==
  ASSUME NEW n \in Nat, NEW S, NEW base \in S, NEW Step \in Steps(1 .. n, S)
  PROVE  \E f : RecursiveTo(n, f, S, base, Step)
<1> DEFINE All == [i \in Nat |-> IF i \in 1 .. n THEN Step[i] ELSE [x \in S |-> x]]
<1>1. All \in Steps(Nat, S)
  BY DEF Steps
<1>2. \A i \in 1 .. n : All[i] = Step[i]
  OBVIOUS
<1> HIDE DEF All
<1>3. PICK f : Recursive(f, S, base, All)
  BY <1>1, RecursionExists, Zenon
<1>4. f \in [Nat -> S] /\ f[0] = base /\ \A i \in Nat \ {0} : f[i] = All[i][f[i - 1]]
  BY <1>3 DEF Recursive
<1> DEFINE g == [i \in 0 .. n |-> f[i]]
<1>5. g \in [0 .. n -> S] /\ g[0] = base
  BY <1>4
<1>6. ASSUME NEW i \in 1 .. n PROVE g[i] = Step[i][g[i - 1]]
  <2>1. g[i] = f[i] /\ g[i - 1] = f[i - 1] /\ i \in Nat \ {0}
    OBVIOUS
  <2> HIDE DEF g
  <2> QED BY <2>1, <1>2, <1>4
<1> HIDE DEF g
<1>7. RecursiveTo(n, g, S, base, Step)
  BY <1>5, <1>6 DEF RecursiveTo
<1> QED BY <1>7

\* The number of some digits: the sums on the way to it.
SumsTo(sum, radix, digits) ==
  /\ sum \in [0 .. Len(digits) -> Int]
  /\ sum[0] = 0
  /\ \A i \in 1 .. Len(digits) : sum[i] = radix * sum[i - 1] + digits[i]
  /\ Number(radix, digits) = sum[Len(digits)]

LEMMA NumberIs ==
  ASSUME NEW radix \in Nat \ {0}, NEW digits \in Seq(Int)
  PROVE  \E sum : SumsTo(sum, radix, digits)
<1> DEFINE k == Len(digits)
           Says(p) == p = [i \in 0 .. k |-> IF i = 0 THEN 0 ELSE radix * p[i - 1] + digits[i]]
           P == CHOOSE p : Says(p)
           Step == [i \in 1 .. k |-> [x \in Int |-> radix * x + digits[i]]]
<1>0. k \in Nat /\ \A i \in 1 .. k : digits[i] \in Int
  OBVIOUS
<1>1. Step \in Steps(1 .. k, Int)
  BY <1>0 DEF Steps
<1>2. \A i \in 1 .. k, x \in Int : Step[i][x] = radix * x + digits[i]
  OBVIOUS
<1> HIDE DEF Step
<1>3. PICK f : RecursiveTo(k, f, Int, 0, Step)
  <2>1. 0 \in Int
    OBVIOUS
  <2> HIDE DEF k
  <2> QED BY <1>0, <1>1, <2>1, ListRecursionExists, Zenon
<1>4. f \in [0 .. k -> Int] /\ f[0] = 0 /\ \A i \in 1 .. k : f[i] = Step[i][f[i - 1]]
  BY <1>3 DEF RecursiveTo
<1>5. \A i \in 1 .. k : f[i] = radix * f[i - 1] + digits[i]
  <2> TAKE i \in 1 .. k
  <2>0. f \in [0 .. k -> Int]
    BY <1>4
  <2>1. i - 1 \in 0 .. k /\ f[i - 1] \in Int
    BY ONLY <1>0, <2>0
  <2> QED BY <2>1, <1>2, <1>4
<1>6. Says(f)
  BY <1>0, <1>4, <1>5
<1>7. Says(P)
  <2> HIDE DEF Says
  <2> QED BY <1>6
<1>8. Number(radix, digits) = P[k]
  BY DEF Number
<1> HIDE DEF P, k
<1>9. P[0] = 0 /\ \A i \in 1 .. k : P[i] = radix * P[i - 1] + digits[i]
  BY <1>0, <1>7
<1>10. P = [i \in 0 .. k |-> P[i]]
  BY <1>7
<1> HIDE DEF Says
<1> DEFINE T == {i \in Nat : i \in 0 .. k => P[i] \in Int}
<1>11. T \in SUBSET Nat /\ 0 \in T
  BY <1>9
<1>12. ASSUME NEW i \in T PROVE i + 1 \in T
  <2> SUFFICES ASSUME i + 1 \in 0 .. k PROVE P[i + 1] \in Int
    OBVIOUS
  <2>1. i \in Nat /\ i \in 0 .. k /\ i + 1 \in 1 .. k /\ (i + 1) - 1 = i
    BY <1>0
  <2>2. P[i] \in Int /\ digits[i + 1] \in Int
    BY <2>1, <1>0
  <2>3. P[i + 1] = radix * P[i] + digits[i + 1]
    BY <2>1, <1>9
  <2> QED BY <2>2, <2>3
<1> HIDE DEF T
<1>13. T = Nat
  BY <1>11, <1>12, CountingUp
<1>14. \A i \in 0 .. k : P[i] \in Int
  BY <1>0, <1>13 DEF T
<1>15. P \in [0 .. k -> Int]
  BY <1>10, <1>14
<1>16. SumsTo(P, radix, digits)
  BY <1>8, <1>9, <1>15 DEF k, SumsTo
<1> QED BY <1>16

\* A quotient and a remainder are taken apart again.
LEMMA Quotient ==
  ASSUME NEW r \in Nat, r > 1, NEW a \in Int, NEW d \in 0 .. r - 1
  PROVE  (r * a + d) \div r = a /\ (r * a + d) % r = d
<1>1. (r * a + d) \div r = a
  OBVIOUS
<1>2. (r * a + d) % r = d
  OBVIOUS
<1> QED BY <1>1, <1>2

LEMMA Remainder ==
  ASSUME NEW r \in Nat, r > 1, NEW a \in Int
  PROVE  a \div r \in Int /\ a % r \in 0 .. r - 1 /\ a = r * (a \div r) + (a % r)
<1>1. a \div r \in Int /\ a % r \in 0 .. r - 1
  OBVIOUS
<1>2. a = r * (a \div r) + (a % r)
  OBVIOUS
<1> QED BY <1>1, <1>2

\* One more digit is still below the next power.
LEMMA OneMoreDigit ==
  ASSUME NEW r \in Nat, r > 1, NEW p \in Nat, NEW a \in 0 .. p - 1, NEW d \in 0 .. r - 1
  PROVE  r * a + d \in 0 .. r * p - 1
<1> DEFINE e == p - a - 1
<1>1. e \in Nat /\ p = a + 1 + e /\ a \in Nat
  OBVIOUS
<1> HIDE DEF e
<1>2. r * p = r * a + r + r * e
  BY <1>1
<1>3. r * e \in Nat /\ r * a \in Nat
  BY <1>1
<1> QED BY <1>2, <1>3

\* As many digits as are asked for.
LEMMA DigitsAre ==
  ASSUME NEW radix \in Nat, radix > 1, NEW k \in Nat, NEW n \in Int
  PROVE  /\ Digits(radix, k, n) \in Seq(0 .. radix - 1)
         /\ Len(Digits(radix, k, n)) = k
         /\ \A i \in 1 .. k : Digits(radix, k, n)[i] = Shifted(radix, n, k - i) % radix
<1>1. \A i \in 1 .. k : Shifted(radix, n, k - i) % radix \in 0 .. radix - 1
  <2> TAKE i \in 1 .. k
  <2>1. k - i \in Nat
    OBVIOUS
  <2>2. Shifted(radix, n, k - i) \in Int
    BY <2>1, ShiftedIs
  <2> HIDE DEF Shifted
  <2> QED BY <2>2, Remainder
<1> DEFINE d == [i \in 1 .. k |-> Shifted(radix, n, k - i) % radix]
<1>2. d \in [1 .. k -> 0 .. radix - 1] /\ \A i \in 1 .. k : d[i] = Shifted(radix, n, k - i) % radix
  BY <1>1
<1>3. Digits(radix, k, n) = d
  BY DEF Digits
<1> HIDE DEF d
<1>4. d \in Seq(0 .. radix - 1) /\ Len(d) = k
  BY <1>2
<1> QED BY <1>2, <1>3, <1>4

\* The digits say all of a number but for what is left when they are shifted away.
LEMMA NumberOfDigits ==
  ASSUME NEW radix \in Nat, radix > 1, NEW k \in Nat, NEW n \in Int
  PROVE  Number(radix, Digits(radix, k, n)) =
           n - Shifted(radix, n, k) * Power(radix, k)
<1> DEFINE d == Digits(radix, k, n)
           top == Shifted(radix, n, k)
<1>1. d \in Seq(Int) /\ Len(d) = k /\ \A i \in 1 .. k : d[i] = Shifted(radix, n, k - i) % radix
  <2>1. d \in Seq(0 .. radix - 1)
    BY DigitsAre
  <2>2. d \in Seq(Int)
    BY <2>1
  <2> HIDE DEF d
  <2> QED BY <2>2, DigitsAre DEF d
<1>2. top \in Int
  BY ShiftedIs
<1> HIDE DEF d, top
<1>3. radix \in Nat \ {0}
  OBVIOUS
<1>4. PICK sum : SumsTo(sum, radix, d)
  BY <1>1, <1>3, NumberIs, Zenon
<1>5. /\ sum \in [0 .. k -> Int]
      /\ sum[0] = 0
      /\ \A i \in 1 .. k : sum[i] = radix * sum[i - 1] + d[i]
      /\ Number(radix, d) = sum[k]
  BY <1>1, <1>4 DEF SumsTo
<1> DEFINE T == {i \in Nat : i <= k =>
                   sum[i] = Shifted(radix, n, k - i) - top * Power(radix, i)}
<1>6. 0 \in T
  <2>1. Power(radix, 0) = 1
    BY PowerIs
  <2>2. k - 0 = k
    OBVIOUS
  <2> QED BY <2>1, <2>2, <1>2, <1>5 DEF top
<1>7. ASSUME NEW i \in T PROVE i + 1 \in T
  <2> SUFFICES ASSUME i + 1 <= k
               PROVE  sum[i + 1] = Shifted(radix, n, k - (i + 1)) - top * Power(radix, i + 1)
    OBVIOUS
  <2>1. i \in Nat /\ i <= k /\ i + 1 \in 1 .. k /\ (i + 1) - 1 = i
        /\ k - (i + 1) \in Nat /\ (k - (i + 1)) + 1 = k - i /\ k - i \in Nat
    OBVIOUS
  <2> DEFINE s == Shifted(radix, n, k - (i + 1))
             p == Power(radix, i)
  <2>2. s \in Int /\ Shifted(radix, n, k - i) = s \div radix
    <3>1. Shifted(radix, n, (k - (i + 1)) + 1) = s \div radix
      BY <2>1, ShiftedIs
    <3>2. s \in Int
      BY <2>1, ShiftedIs
    <3> HIDE DEF s
    <3> QED BY <3>1, <3>2, <2>1
  <2>3. p \in Int /\ Power(radix, i + 1) = radix * p
    BY <2>1, PowerIs
  <2>4. d[i + 1] = s % radix
    BY <2>1, <1>1
  <2>5. sum[i] = (s \div radix) - top * p
    BY <2>1, <2>2
  <2>6. sum[i + 1] = radix * sum[i] + d[i + 1]
    BY <2>1, <1>5
  <2> HIDE DEF s, p
  <2>7. s \div radix \in Int /\ s % radix \in Int /\ s = radix * (s \div radix) + (s % radix)
    BY <2>2, Remainder
  <2>8. radix * sum[i] = radix * (s \div radix) - top * (radix * p)
    BY <2>5, <2>3, <2>7, <1>2
  <2>9. sum[i + 1] = s - top * (radix * p)
    BY <2>4, <2>6, <2>7, <2>8, <2>3, <1>2
  <2> QED BY <2>9, <2>3 DEF s
<1>8. T \in SUBSET Nat
  OBVIOUS
<1> HIDE DEF T
<1>9. T = Nat
  BY <1>6, <1>7, <1>8, CountingUp
<1>10. sum[k] = Shifted(radix, n, k - k) - top * Power(radix, k)
  BY <1>9 DEF T
<1>11. Shifted(radix, n, k - k) = n
  BY ShiftedIs
<1> QED BY <1>5, <1>10, <1>11 DEF d, top

\* Of a number with no more digits than that nothing is left, or, of a negative one, -1.
LEMMA ShiftedAway ==
  ASSUME NEW radix \in Nat, radix > 1, NEW k \in Nat, NEW n \in Int
  PROVE  /\ n \in 0 .. Power(radix, k) - 1 => Shifted(radix, n, k) = 0
         /\ n \in -Power(radix, k) .. -1   => Shifted(radix, n, k) = -1
<1> DEFINE Up   == {i \in Nat : i <= k => Shifted(radix, n, i) \in 0 .. Power(radix, k - i) - 1}
           Down == {i \in Nat : i <= k => Shifted(radix, n, i) \in -Power(radix, k - i) .. -1}
<1>0. Power(radix, 0) = 1 /\ Power(radix, k) \in Nat /\ Shifted(radix, n, 0) = n
  <2>1. Power(radix, 0) = 1 /\ Power(radix, k) \in Nat
    BY PowerIs
  <2>2. Shifted(radix, n, 0) = n
    BY ShiftedIs
  <2> QED BY <2>1, <2>2
<1>1. ASSUME NEW i \in Nat, i + 1 <= k
      PROVE  /\ k - i \in Nat /\ k - (i + 1) \in Nat /\ i <= k
             /\ Power(radix, k - i) = radix * Power(radix, k - (i + 1))
             /\ Power(radix, k - (i + 1)) \in Nat
             /\ Shifted(radix, n, i) \in Int
             /\ Shifted(radix, n, i + 1) = Shifted(radix, n, i) \div radix
  <2>1. k - i \in Nat /\ k - (i + 1) \in Nat /\ i <= k /\ (k - (i + 1)) + 1 = k - i
    BY <1>1
  <2>2. Power(radix, (k - (i + 1)) + 1) = radix * Power(radix, k - (i + 1))
        /\ Power(radix, k - (i + 1)) \in Nat
    BY <2>1, PowerIs
  <2>3. Shifted(radix, n, i) \in Int /\ Shifted(radix, n, i + 1) = Shifted(radix, n, i) \div radix
    BY ShiftedIs
  <2> QED BY <2>1, <2>2, <2>3
<1>2. ASSUME n \in 0 .. Power(radix, k) - 1 PROVE Shifted(radix, n, k) = 0
  <2>1. Up \in SUBSET Nat /\ 0 \in Up
    <3>1. k - 0 = k
      OBVIOUS
    <3> QED BY <3>1, <1>0, <1>2
  <2>2. ASSUME NEW i \in Up PROVE i + 1 \in Up
    <3> SUFFICES ASSUME i + 1 <= k
                 PROVE  Shifted(radix, n, i + 1) \in 0 .. Power(radix, k - (i + 1)) - 1
      OBVIOUS
    <3> DEFINE s == Shifted(radix, n, i)
               p == Power(radix, k - (i + 1))
    <3>1. i \in Nat /\ i <= k /\ s \in Int /\ p \in Nat /\ Power(radix, k - i) = radix * p
          /\ Shifted(radix, n, i + 1) = s \div radix
      BY <1>1
    <3>2. s \in 0 .. radix * p - 1
      BY <3>1
    <3> HIDE DEF s, p
    <3>3. 0 <= s \div radix /\ s \div radix < p /\ s \div radix \in Int
      BY <3>1, <3>2
    <3> QED BY <3>1, <3>3 DEF p
  <2> HIDE DEF Up
  <2>3. Up = Nat
    BY <2>1, <2>2, CountingUp
  <2>4. Shifted(radix, n, k) \in 0 .. Power(radix, k - k) - 1
    BY <2>3 DEF Up
  <2>5. k - k = 0
    OBVIOUS
  <2> QED BY <2>4, <2>5, <1>0
<1>3. ASSUME n \in -Power(radix, k) .. -1 PROVE Shifted(radix, n, k) = -1
  <2>1. Down \in SUBSET Nat /\ 0 \in Down
    <3>1. k - 0 = k
      OBVIOUS
    <3> QED BY <3>1, <1>0, <1>3
  <2>2. ASSUME NEW i \in Down PROVE i + 1 \in Down
    <3> SUFFICES ASSUME i + 1 <= k
                 PROVE  Shifted(radix, n, i + 1) \in -Power(radix, k - (i + 1)) .. -1
      OBVIOUS
    <3> DEFINE s == Shifted(radix, n, i)
               p == Power(radix, k - (i + 1))
    <3>1. i \in Nat /\ i <= k /\ s \in Int /\ p \in Nat /\ Power(radix, k - i) = radix * p
          /\ Shifted(radix, n, i + 1) = s \div radix
      BY <1>1
    <3>2. s \in -(radix * p) .. -1
      BY <3>1
    <3> HIDE DEF s, p
    <3>3. s \div radix < 0 /\ -p <= s \div radix /\ s \div radix \in Int
      BY <3>1, <3>2
    <3> QED BY <3>1, <3>3 DEF p
  <2> HIDE DEF Down
  <2>3. Down = Nat
    BY <2>1, <2>2, CountingUp
  <2>4. Shifted(radix, n, k) \in -Power(radix, k - k) .. -1
    BY <2>3 DEF Down
  <2>5. k - k = 0
    OBVIOUS
  <2> QED BY <2>4, <2>5, <1>0
<1> QED BY <1>2, <1>3

\* Digits make a number with no more digits, and it has just these.
LEMMA DigitsOfNumber ==
  ASSUME NEW radix \in Nat, radix > 1, NEW d \in Seq(0 .. radix - 1)
  PROVE  /\ Number(radix, d) \in 0 .. Power(radix, Len(d)) - 1
         /\ Digits(radix, Len(d), Number(radix, d)) = d
<1> DEFINE k == Len(d)
           n == Number(radix, d)
<1>1. k \in Nat /\ d \in Seq(Int) /\ \A i \in 1 .. k : d[i] \in 0 .. radix - 1
  OBVIOUS
<1>2. radix \in Nat \ {0}
  OBVIOUS
<1>3. PICK sum : SumsTo(sum, radix, d)
  BY <1>1, <1>2, NumberIs, Zenon
<1>4. /\ sum[0] = 0
      /\ \A i \in 1 .. k : sum[i] = radix * sum[i - 1] + d[i]
      /\ n = sum[k]
  BY <1>1, <1>3 DEF SumsTo
<1>5. sum \in [0 .. k -> Int]
  BY <1>3 DEF SumsTo
<1>6. \A i \in 0 .. k : sum[i] \in Int
  BY <1>5
<1> HIDE DEF k
<1> HIDE DEF n
<1>7. n \in Int
  BY <1>1, <1>4, <1>6
<1> DEFINE T == {i \in Nat : i <= k => sum[i] \in 0 .. Power(radix, i) - 1}
<1>8. T \in SUBSET Nat /\ 0 \in T
  <2>1. Power(radix, 0) = 1
    BY PowerIs
  <2> QED BY <2>1, <1>4
<1>9. ASSUME NEW i \in T PROVE i + 1 \in T
  <2> SUFFICES ASSUME i + 1 <= k PROVE sum[i + 1] \in 0 .. Power(radix, i + 1) - 1
    OBVIOUS
  <2>1. i \in Nat /\ i + 1 \in 1 .. k /\ (i + 1) - 1 = i /\ i <= k
    BY <1>1
  <2> DEFINE p == Power(radix, i)
  <2>2. p \in Int /\ Power(radix, i + 1) = radix * p
    BY <2>1, PowerIs
  <2>3. sum[i] \in 0 .. p - 1
    BY <2>1
  <2>4. sum[i + 1] = radix * sum[i] + d[i + 1] /\ d[i + 1] \in 0 .. radix - 1
    BY <2>1, <1>1, <1>4
  <2> HIDE DEF p
  <2>5. p \in Nat
    BY <2>2, <2>3
  <2>6. sum[i + 1] \in 0 .. radix * p - 1
    BY <2>3, <2>4, <2>5, OneMoreDigit
  <2> QED BY <2>2, <2>6
<1> HIDE DEF T
<1>10. T = Nat
  BY <1>8, <1>9, CountingUp
<1>11. n \in 0 .. Power(radix, k) - 1
  <2>1. k \in Nat /\ k <= k /\ n = sum[k]
    BY <1>1, <1>4
  <2>2. k \in T
    BY <2>1, <1>10
  <2> QED BY <2>1, <2>2 DEF T
<1> DEFINE U == {i \in Nat : i <= k => Shifted(radix, n, i) = sum[k - i]}
<1>12. U \in SUBSET Nat /\ 0 \in U
  <2>1. k - 0 = k
    BY <1>1
  <2>2. Shifted(radix, n, 0) = n
    BY <1>7, ShiftedIs
  <2> QED BY <2>1, <2>2, <1>4
<1>13. ASSUME NEW i \in Nat, i + 1 <= k
      PROVE  sum[k - i] \div radix = sum[k - (i + 1)] /\ sum[k - i] % radix = d[k - i]
  <2>1. k - i \in 1 .. k /\ (k - i) - 1 = k - (i + 1) /\ k - (i + 1) \in 0 .. k
    BY <1>1, <1>13
  <2>2. sum[k - i] = radix * sum[k - (i + 1)] + d[k - i] /\ d[k - i] \in 0 .. radix - 1
    BY <2>1, <1>1, <1>4
  <2>3. sum[k - (i + 1)] \in Int
    BY <2>1, <1>6
  <2> QED BY <2>2, <2>3, Quotient
<1>14. ASSUME NEW i \in U PROVE i + 1 \in U
  <2> SUFFICES ASSUME i + 1 <= k PROVE Shifted(radix, n, i + 1) = sum[k - (i + 1)]
    OBVIOUS
  <2>1. i \in Nat /\ i <= k
    BY <1>1
  <2>2. Shifted(radix, n, i + 1) = Shifted(radix, n, i) \div radix
    BY <2>1, <1>7, ShiftedIs
  <2>3. Shifted(radix, n, i) = sum[k - i]
    BY <2>1
  <2> QED BY <2>1, <2>2, <2>3, <1>13
<1> HIDE DEF U
<1>15. U = Nat
  BY <1>12, <1>14, CountingUp
<1>16. ASSUME NEW i \in 1 .. k PROVE Digits(radix, k, n)[i] = d[i]
  <2>1. k - i \in Nat /\ (k - i) + 1 <= k /\ k - (k - i) = i /\ k - i <= k
    BY <1>1
  <2>2. Digits(radix, k, n)[i] = Shifted(radix, n, k - i) % radix
    BY <1>1, <1>7, DigitsAre
  <2>3. Shifted(radix, n, k - i) = sum[k - (k - i)]
    BY <2>1, <1>15 DEF U
  <2>4. sum[k - (k - i)] % radix = d[k - (k - i)]
    BY <2>1, <1>13
  <2> QED BY <2>1, <2>2, <2>3, <2>4
<1>17. Digits(radix, k, n) = d
  <2>1. Digits(radix, k, n) \in Seq(0 .. radix - 1) /\ Len(Digits(radix, k, n)) = k
    BY <1>1, <1>7, DigitsAre
  <2> DEFINE e == Digits(radix, k, n)
  <2>2. e \in Seq(Int) /\ Len(e) = Len(d) /\ \A i \in 1 .. Len(d) : e[i] = d[i]
    BY <2>1, <1>16 DEF k
  <2> HIDE DEF e
  <2>3. e = d
    BY <2>2, <1>1, SeqEqual
  <2> QED BY <2>3 DEF e
<1> QED BY <1>11, <1>17 DEF n, k

-----------------------------------------------------------------------------
(* Integers.                                                               *)

IntTypes == [kind : {"int"}, bits : Nat \ {0}, signed : BOOLEAN, big : BOOLEAN]

\* Powers of two, and what a byte holds.
LEMMA PowerOfSum ==
  ASSUME NEW a \in Nat, NEW b \in Nat
  PROVE  Power(2, a + b) = Power(2, a) * Power(2, b)
<1> DEFINE T == {i \in Nat : Power(2, a + i) = Power(2, a) * Power(2, i)}
           p == Power(2, a)
<1>0. 2 \in Nat \ {0} /\ p \in Nat
  BY PowerIs
<1>1. T \in SUBSET Nat /\ 0 \in T
  <2>1. Power(2, 0) = 1 /\ a + 0 = a
    BY <1>0, PowerIs
  <2> QED BY <2>1, <1>0
<1>2. ASSUME NEW i \in T PROVE i + 1 \in T
  <2> DEFINE q == Power(2, i)
             s == Power(2, a + i)
  <2>1. i \in Nat /\ a + i \in Nat /\ (a + i) + 1 = a + (i + 1) /\ s = p * q
    OBVIOUS
  <2>2. Power(2, i + 1) = 2 * q /\ q \in Nat
    BY <2>1, <1>0, PowerIs
  <2>3. Power(2, (a + i) + 1) = 2 * s
    BY <2>1, <1>0, PowerIs
  <2>4. Power(2, a + (i + 1)) = 2 * s
    BY <2>1, <2>3
  <2>5. p * (2 * q) = 2 * (p * q)
    <3> HIDE DEF p, q
    <3> QED BY <1>0, <2>2
  <2>6. Power(2, a + (i + 1)) = p * Power(2, i + 1)
    <3> HIDE DEF p, q, s
    <3> QED BY <2>1, <2>2, <2>4, <2>5
  <2> QED BY <2>1, <2>6
<1> HIDE DEF T
<1>3. T = Nat
  BY <1>1, <1>2, CountingUp
<1> QED BY <1>3 DEF T

LEMMA BaseIs == Base \in Nat /\ Base > 1
<1>1. ByteBits - 1 \in Nat /\ (ByteBits - 1) + 1 = ByteBits /\ 2 \in Nat \ {0}
  BY BytesHaveBits
<1>2. Power(2, (ByteBits - 1) + 1) = 2 * Power(2, ByteBits - 1) /\ Power(2, ByteBits - 1) \in Nat \ {0}
  BY <1>1, PowerIs
<1> QED BY <1>1, <1>2 DEF Base

LEMMA PowerOfBase ==
  ASSUME NEW k \in Nat
  PROVE  Power(Base, k) = Power(2, k * ByteBits)
<1> DEFINE T == {i \in Nat : Power(Base, i) = Power(2, i * ByteBits)}
<1>0. ByteBits \in Nat /\ Base \in Nat \ {0} /\ 2 \in Nat \ {0}
  BY BytesHaveBits, BaseIs
<1>1. T \in SUBSET Nat /\ 0 \in T
  <2>1. Power(2, 0) = 1 /\ Power(Base, 0) = 1 /\ 0 * ByteBits = 0
    BY <1>0, PowerIs
  <2> QED BY <2>1
<1>2. ASSUME NEW i \in T PROVE i + 1 \in T
  <2>1. i \in Nat /\ i * ByteBits \in Nat /\ ByteBits + i * ByteBits = (i + 1) * ByteBits
    BY <1>0
  <2>2. Power(Base, i + 1) = Base * Power(Base, i)
    BY <1>0, <2>1, PowerIs
  <2>3. Power(2, ByteBits + i * ByteBits) = Base * Power(2, i * ByteBits)
    BY <1>0, <2>1, PowerOfSum DEF Base
  <2>4. Power(Base, i) = Power(2, i * ByteBits)
    OBVIOUS
  <2> QED BY <2>1, <2>2, <2>3, <2>4
<1> HIDE DEF T
<1>3. T = Nat
  BY <1>1, <1>2, CountingUp
<1> QED BY <1>3 DEF T

\* The range of an integer is as large as what its bits hold; the negative numbers
\* are read back from its upper half.
LEMMA SignedReadBack ==
  ASSUME NEW t \in IntTypes, NEW n \in MinValue(t) .. MaxValue(t)
  PROVE  /\ n \in Int
         /\ n >= 0 => n \in 0 .. Power(2, t.bits) - 1 /\ Signed(t, n) = n
         /\ n < 0  => /\ n \in -Power(2, t.bits) .. -1
                      /\ Signed(t, n + Power(2, t.bits)) = n
<1> DEFINE h == Power(2, t.bits - 1)
<1>1. t.bits \in Nat /\ t.bits - 1 \in Nat /\ (t.bits - 1) + 1 = t.bits /\ 2 \in Nat \ {0}
  BY DEF IntTypes
<1>2. h \in Nat /\ Power(2, (t.bits - 1) + 1) = 2 * h
  BY <1>1, PowerIs
<1>3. Power(2, t.bits) = 2 * h
  BY <1>1, <1>2
<1>4. t.signed \in BOOLEAN
  BY DEF IntTypes
<1>5. CASE t.signed = TRUE
  <2>1. MinValue(t) = -h /\ MaxValue(t) = h - 1
    BY <1>5 DEF MinValue, MaxValue
  <2>2. \A m : Signed(t, m) = IF m >= h THEN m - Power(2, t.bits) ELSE m
    BY <1>5 DEF Signed
  <2> HIDE DEF h
  <2>3. n \in -h .. h - 1
    BY <2>1
  <2> QED BY <1>2, <1>3, <2>2, <2>3
<1>6. CASE t.signed = FALSE
  <2>1. MinValue(t) = 0 /\ MaxValue(t) = Power(2, t.bits) - 1
    BY <1>6 DEF MinValue, MaxValue
  <2>2. \A m : Signed(t, m) = m
    BY <1>6 DEF Signed
  <2> HIDE DEF h
  <2>3. n \in 0 .. Power(2, t.bits) - 1
    BY <2>1
  <2> QED BY <1>2, <1>3, <2>2, <2>3
<1> QED BY <1>4, <1>5, <1>6

\* In any radix whose digits fill the bits of a type, an integer comes back from its digits.
LEMMA DigitsReadBack ==
  ASSUME NEW t \in IntTypes, NEW n \in MinValue(t) .. MaxValue(t),
         NEW radix \in Nat, radix > 1, NEW k \in Nat, Power(radix, k) = Power(2, t.bits)
  PROVE  Signed(t, Number(radix, Digits(radix, k, n))) = n
<1> DEFINE p == Power(2, t.bits)
           m == Number(radix, Digits(radix, k, n))
<1>1. n \in Int
  BY SignedReadBack
<1>2. t.bits \in Nat /\ 2 \in Nat \ {0}
  BY DEF IntTypes
<1>3. p \in Nat
  BY <1>2, PowerIs
<1>4. m = n - Shifted(radix, n, k) * p
  BY <1>1, NumberOfDigits
<1>5. CASE n >= 0
  <2>1. n \in 0 .. Power(radix, k) - 1
    BY <1>5, SignedReadBack
  <2>2. Shifted(radix, n, k) = 0
    BY <2>1, <1>1, ShiftedAway
  <2> HIDE DEF p, m
  <2>3. m = n
    BY <2>2, <1>1, <1>3, <1>4
  <2> QED BY <2>3, <1>5, SignedReadBack DEF m
<1>6. CASE n < 0
  <2>1. n \in -Power(radix, k) .. -1
    BY <1>6, SignedReadBack
  <2>2. Shifted(radix, n, k) = -1
    BY <2>1, <1>1, ShiftedAway
  <2> HIDE DEF p, m
  <2>3. m = n + p
    BY <2>2, <1>1, <1>3, <1>4
  <2> QED BY <2>3, <1>6, SignedReadBack DEF m, p
<1> QED BY <1>1, <1>5, <1>6

\* Turned around twice, bytes are what they were.
LEMMA OrderedTwice ==
  ASSUME NEW t, NEW bytes \in Seq(Byte)
  PROVE  /\ InOrder(t, bytes) \in Seq(Byte) /\ Len(InOrder(t, bytes)) = Len(bytes)
         /\ InOrder(t, InOrder(t, bytes)) = bytes
<1> DEFINE r == [i \in 1 .. Len(bytes) |-> bytes[(Len(bytes) - i) + 1]]
           rr == [i \in 1 .. Len(r) |-> r[(Len(r) - i) + 1]]
<1>1. Len(bytes) \in Nat /\ \A i \in 1 .. Len(bytes) : bytes[i] \in Byte
  OBVIOUS
<1>2. r \in Seq(Byte) /\ Len(r) = Len(bytes) /\ \A i \in 1 .. Len(bytes) : r[i] = bytes[(Len(bytes) - i) + 1]
  <2>1. \A i \in 1 .. Len(bytes) : bytes[(Len(bytes) - i) + 1] \in Byte
    BY <1>1
  <2> HIDE DEF Byte
  <2> QED BY <1>1, <2>1
<1>3. Lists!Reverse(bytes) = r /\ Lists!Reverse(r) = rr
  BY DEF Lists!Reverse
<1> HIDE DEF r
<1>4. rr \in Seq(Byte) /\ Len(rr) = Len(r) /\ \A i \in 1 .. Len(r) : rr[i] = r[(Len(r) - i) + 1]
  <2>1. \A i \in 1 .. Len(r) : r[(Len(r) - i) + 1] \in Byte
    BY <1>1, <1>2
  <2> HIDE DEF Byte
  <2> QED BY <1>1, <1>2, <2>1
<1> HIDE DEF rr
<1>5. \A i \in 1 .. Len(bytes) : rr[i] = bytes[i]
  BY <1>1, <1>2, <1>4
<1>6. rr = bytes
  BY <1>1, <1>2, <1>4, <1>5, SeqEqual
<1>7. CASE t.big
  BY <1>7 DEF InOrder
<1>8. CASE ~t.big
  <2>1. \A b : InOrder(t, b) = Lists!Reverse(b)
    BY <1>8 DEF InOrder
  <2> QED BY <2>1, <1>2, <1>3, <1>6
<1> QED BY <1>7, <1>8

\* Slices.
LEMMA TakesFirst ==
  ASSUME NEW S, NEW a \in Seq(S), NEW b \in Seq(S)
  PROVE  Take(a \o b, Len(a)) = Read(a, b)
<1> DEFINE c == a \o b
<1>1. c \in Seq(S) /\ Len(c) = Len(a) + Len(b) /\ Len(a) \in Nat /\ Len(b) \in Nat
      /\ (\A i \in 1 .. Len(a) : c[i] = a[i]) /\ (\A i \in 1 .. Len(b) : c[Len(a) + i] = b[i])
  OBVIOUS
<1> HIDE DEF c
<1>2. First(c, Len(a)) = a
  <2> DEFINE f == SubSeq(c, 1, Len(a))
  <2>1. f \in Seq(S) /\ Len(f) = Len(a) /\ \A i \in 1 .. Len(f) : f[i] = c[i]
    BY <1>1
  <2> HIDE DEF f
  <2>2. f = a
    BY <1>1, <2>1, SeqEqual
  <2> QED BY <2>2 DEF f, First
<1>3. Behind(c, Len(a)) = b
  <2> DEFINE f == SubSeq(c, Len(a) + 1, Len(c))
  <2>1. f \in Seq(S) /\ Len(f) = Len(b) /\ \A i \in 1 .. Len(f) : f[i] = c[Len(a) + i]
    BY <1>1
  <2> HIDE DEF f
  <2>2. f = b
    BY <1>1, <2>1, SeqEqual
  <2> QED BY <2>2 DEF f, Behind
<1>4. ~(Len(c) < Len(a))
  BY <1>1
<1> QED BY <1>2, <1>3, <1>4 DEF Take, c

LEMMA FirstOfTwo ==
  ASSUME NEW S, NEW a \in Seq(S), NEW b \in Seq(S), NEW n \in Len(a) .. Len(a) + Len(b)
  PROVE  /\ First(a \o b, n) = a \o First(b, n - Len(a))
         /\ First(b, n - Len(a)) \in Seq(S)
         /\ Len(First(b, n - Len(a))) = n - Len(a)
<1> DEFINE c == a \o b
           f == SubSeq(c, 1, n)
           g == SubSeq(b, 1, n - Len(a))
<1>1. c \in Seq(S) /\ Len(c) = Len(a) + Len(b) /\ Len(a) \in Nat /\ Len(b) \in Nat
      /\ (\A i \in 1 .. Len(a) : c[i] = a[i]) /\ (\A i \in 1 .. Len(b) : c[Len(a) + i] = b[i])
  OBVIOUS
<1> HIDE DEF c
<1>2. f \in Seq(S) /\ Len(f) = n /\ \A i \in 1 .. n : f[i] = c[i]
  BY <1>1
<1>3. g \in Seq(S) /\ Len(g) = n - Len(a) /\ \A i \in 1 .. n - Len(a) : g[i] = b[i]
  BY <1>1
<1> HIDE DEF f, g
<1> DEFINE h == a \o g
<1>4. h \in Seq(S) /\ Len(h) = n
      /\ (\A i \in 1 .. Len(a) : h[i] = a[i]) /\ (\A i \in 1 .. Len(g) : h[Len(a) + i] = g[i])
  BY <1>1, <1>3
<1> HIDE DEF h
<1>5. ASSUME NEW i \in 1 .. n PROVE f[i] = h[i]
  <2>1. CASE i <= Len(a)
    BY <2>1, <1>1, <1>2, <1>4
  <2>2. CASE i > Len(a)
    <3> DEFINE j == i - Len(a)
    <3>1. j \in 1 .. n - Len(a) /\ j \in 1 .. Len(b) /\ j \in 1 .. Len(g) /\ i = Len(a) + j
      BY <2>2, <1>1, <1>3
    <3> HIDE DEF j
    <3>2. c[Len(a) + j] = b[j] /\ h[Len(a) + j] = g[j] /\ g[j] = b[j]
      BY <3>1, <1>1, <1>3, <1>4
    <3> QED BY <3>1, <3>2, <1>2
  <2> QED BY <2>1, <2>2, <1>1
<1>6. f = h
  BY <1>2, <1>4, <1>5, SeqEqual
<1> QED BY <1>3, <1>6 DEF First, f, g, h, c

LEMMA FirstOfOne ==
  ASSUME NEW S, NEW a \in Seq(S), NEW n \in 0 .. Len(a)
  PROVE  First(a, n) \in Seq(S) /\ Len(First(a, n)) = n
  BY DEF First

\* As many bytes as the type has, each of them a byte.
LEMMA BytesOfInteger ==
  ASSUME NEW t \in IntTypes, Aligned(t), NEW n \in MinValue(t) .. MaxValue(t)
  PROVE  /\ Size(t) \in Nat /\ Power(Base, Size(t)) = Power(2, t.bits)
         /\ ToBytes(t, n) \in Seq(Byte) /\ Len(ToBytes(t, n)) = Size(t)
         /\ FromBytes(t, ToBytes(t, n)) = n
<1> DEFINE d == Digits(Base, Size(t), n)
<1>1. t.bits \in Nat /\ ByteBits \in Nat \ {0} /\ t.bits % ByteBits = 0
  BY BytesHaveBits DEF IntTypes, Aligned
<1>2. Size(t) \in Nat /\ t.bits = Size(t) * ByteBits
  BY <1>1 DEF Size
<1>3. Power(Base, Size(t)) = Power(2, t.bits)
  BY <1>2, PowerOfBase
<1>4. n \in Int
  BY SignedReadBack
<1>5. d \in Seq(Byte) /\ Len(d) = Size(t)
  BY <1>2, <1>4, BaseIs, DigitsAre DEF Byte
<1>6. Signed(t, Number(Base, d)) = n
  BY <1>2, <1>3, BaseIs, DigitsReadBack
<1> HIDE DEF d
<1>7. ToBytes(t, n) = InOrder(t, d)
  BY DEF ToBytes, d
<1>8. InOrder(t, d) \in Seq(Byte) /\ Len(InOrder(t, d)) = Len(d) /\ InOrder(t, InOrder(t, d)) = d
  BY <1>5, OrderedTwice
<1>9. FromBytes(t, ToBytes(t, n)) = n
  BY <1>6, <1>7, <1>8 DEF FromBytes
<1> QED BY <1>2, <1>3, <1>5, <1>7, <1>8, <1>9

\* An integer of any whole number of bytes, signed or not, in either order of the bytes,
\* comes back from what serialize() has written, which is as long as the type says, and
\* leaves what follows it; with a byte too few there is an error.
THEOREM IntegersComeBack ==
  ASSUME NEW t \in IntTypes, Aligned(t), NEW n \in MinValue(t) .. MaxValue(t),
         NEW more \in Seq(Byte)
  PROVE  /\ Len(ToBytes(t, n)) = Size(t)
         /\ ReadInt(t, ToBytes(t, n) \o more) = Read(n, more)
         /\ \A k \in 0 .. Size(t) - 1 : ReadInt(t, First(ToBytes(t, n), k)) = Error
<1> DEFINE b == ToBytes(t, n)
<1>1. Size(t) \in Nat /\ b \in Seq(Byte) /\ Len(b) = Size(t) /\ FromBytes(t, b) = n
  BY BytesOfInteger
<1> HIDE DEF b
<1>2. Take(b \o more, Size(t)) = Read(b, more)
  BY <1>1, TakesFirst
<1>3. ReadInt(t, b \o more) = Read(n, more)
  BY <1>1, <1>2 DEF ReadInt, Read
<1>4. ASSUME NEW k \in 0 .. Size(t) - 1 PROVE ReadInt(t, First(b, k)) = Error
  <2>1. k \in 0 .. Len(b) /\ k < Size(t)
    BY <1>1
  <2>2. Len(First(b, k)) = k
    BY <2>1, <1>1, FirstOfOne
  <2>3. Len(First(b, k)) < Size(t)
    BY <2>1, <2>2
  <2> QED BY <2>3 DEF ReadInt, Take, Error
<1> QED BY <1>1, <1>3, <1>4 DEF b

-----------------------------------------------------------------------------
(* Strings.                                                                *)

\* A length before a string is in the range of its prefix.
LEMMA LengthFits ==
  ASSUME NEW prefix \in Nat \ {0}, NEW n \in Nat, n < Power(Base, prefix)
  PROVE  /\ UInt(prefix) \in IntTypes /\ Aligned(UInt(prefix)) /\ Size(UInt(prefix)) = prefix
         /\ n \in MinValue(UInt(prefix)) .. MaxValue(UInt(prefix))
<1> DEFINE t == UInt(prefix)
<1>1. ByteBits \in Nat \ {0} /\ Base \in Nat \ {0}
  BY BytesHaveBits, BaseIs
<1>2. t.bits = prefix * ByteBits /\ t.signed = FALSE
  BY DEF UInt, FixedInt
<1>3. prefix * ByteBits \in Nat \ {0}
  BY <1>1
<1>4. t \in IntTypes
  BY <1>3 DEF UInt, FixedInt, IntTypes
<1>5. (prefix * ByteBits) % ByteBits = 0 /\ (prefix * ByteBits) \div ByteBits = prefix
  BY <1>1
<1>6. Aligned(t) /\ Size(t) = prefix
  BY <1>2, <1>5 DEF Aligned, Size
<1>7. Power(2, t.bits) = Power(Base, prefix) /\ Power(Base, prefix) \in Nat
  BY <1>1, <1>2, PowerOfBase, PowerIs
<1>8. MinValue(t) = 0 /\ MaxValue(t) = Power(Base, prefix) - 1
  BY <1>2, <1>7 DEF MinValue, MaxValue
<1> HIDE DEF t
<1>9. n \in MinValue(t) .. MaxValue(t)
  BY <1>1, <1>7, <1>8
<1> QED BY <1>4, <1>6, <1>9 DEF t

\* What is read of bytes with a length before them: the length first, if it is there.
LEMMA LengthIsRead ==
  ASSUME NEW prefix \in Nat \ {0}, NEW n \in Nat, n < Power(Base, prefix) - 1,
         NEW s \in Seq(Byte), NEW more \in Seq(Byte)
  PROVE  LET b == ToBytes(UInt(prefix), n) \o s
         IN  /\ b \in Seq(Byte) /\ Len(b) = prefix + Len(s)
             /\ ReadInt(UInt(prefix), b \o more) = Read(n, s \o more)
             /\ \A k \in 0 .. prefix - 1 : ReadInt(UInt(prefix), First(b, k)) = Error
             /\ \A k \in prefix .. prefix + Len(s) - 1 :
                  ReadInt(UInt(prefix), First(b, k)) = Read(n, First(s, k - prefix))
<1> DEFINE t == UInt(prefix)
           l == ToBytes(t, n)
           b == l \o s
<1>1. Base \in Nat \ {0} /\ prefix \in Nat
  BY BaseIs
<1>2. Len(s) \in Nat /\ Power(Base, prefix) \in Nat
  <2>1. Power(Base, prefix) \in Nat
    BY <1>1, PowerIs
  <2> QED BY <2>1
<1>3. n < Power(Base, prefix) /\ b = l \o s
  BY <1>2
<1>4. t \in IntTypes /\ Aligned(t) /\ Size(t) = prefix /\ n \in MinValue(t) .. MaxValue(t)
  BY <1>3, LengthFits
<1> HIDE DEF t
<1>5. l \in Seq(Byte) /\ Len(l) = prefix
  BY <1>4, BytesOfInteger
<1>6. \A w \in Seq(Byte) : ReadInt(t, l \o w) = Read(n, w)
  BY <1>4, IntegersComeBack
<1>7. \A k \in 0 .. prefix - 1 : ReadInt(t, First(l, k)) = Error
  BY <1>4, IntegersComeBack
<1> HIDE DEF b, l
<1>8. b \in Seq(Byte) /\ Len(b) = prefix + Len(s)
  <2> HIDE DEF Byte
  <2>1. l \o s \in Seq(Byte) /\ Len(l \o s) = Len(l) + Len(s)
    BY <1>5
  <2> QED BY <2>1, <1>3, <1>5
<1>9. ReadInt(t, b \o more) = Read(n, s \o more)
  <2>1. b \o more = l \o (s \o more) /\ s \o more \in Seq(Byte)
    BY <1>3, <1>5, ConcatAssociative
  <2> QED BY <2>1, <1>6
<1>10. ASSUME NEW k \in 0 .. prefix - 1 PROVE ReadInt(t, First(b, k)) = Error
  <2> DEFINE f == First(b, k)
  <2>1. Len(f) = k
    BY <1>8, <1>2, FirstOfOne
  <2> HIDE DEF f
  <2>2. Len(f) < Size(t)
    BY <2>1, <1>4
  <2> QED BY <2>2 DEF ReadInt, Take, Error, f
<1>11. ASSUME NEW k \in prefix .. prefix + Len(s) - 1
      PROVE  ReadInt(t, First(b, k)) = Read(n, First(s, k - prefix))
  <2>1. k \in Len(l) .. Len(l) + Len(s)
    BY <1>2, <1>5
  <2>2. First(l \o s, k) = l \o First(s, k - Len(l)) /\ First(s, k - Len(l)) \in Seq(Byte)
    <3>1. l \in Seq(Byte) /\ s \in Seq(Byte)
      BY <1>5
    <3> HIDE DEF Byte
    <3> QED BY <3>1, <2>1, FirstOfTwo
  <2> QED BY <2>2, <1>3, <1>5, <1>6
<1> QED BY <1>8, <1>9, <1>10, <1>11 DEF b, l, t

\* What is taken of them: as many bytes as the length says, or an error.
LEMMA CountedIsTaken ==
  ASSUME NEW prefix \in Nat \ {0}, NEW n \in Nat, n < Power(Base, prefix) - 1,
         NEW s \in Seq(Byte), NEW more \in Seq(Byte), n <= Len(s)
  PROVE  LET b == ToBytes(UInt(prefix), n) \o s
         IN  /\ TakeCounted(b \o more, prefix) = Take(s \o more, n)
             /\ \A k \in 0 .. prefix + n - 1 : TakeCounted(First(b, k), prefix) = Error
<1> DEFINE b == ToBytes(UInt(prefix), n) \o s
<1>0. Len(s) \in Nat
  OBVIOUS
<1>1. /\ ReadInt(UInt(prefix), b \o more) = Read(n, s \o more)
      /\ \A k \in 0 .. prefix - 1 : ReadInt(UInt(prefix), First(b, k)) = Error
      /\ \A k \in prefix .. prefix + Len(s) - 1 :
           ReadInt(UInt(prefix), First(b, k)) = Read(n, First(s, k - prefix))
  BY LengthIsRead
<1> HIDE DEF b
<1>2. TakeCounted(b \o more, prefix) = Take(s \o more, n)
  BY <1>1 DEF TakeCounted, Read
<1>3. ASSUME NEW k \in 0 .. prefix + n - 1 PROVE TakeCounted(First(b, k), prefix) = Error
  <2>1. k \in 0 .. prefix - 1 \/ k \in prefix .. prefix + Len(s) - 1
    BY <1>0
  <2>2. CASE k \in 0 .. prefix - 1
    <3>1. ReadInt(UInt(prefix), First(b, k)) = Error
      BY <2>2, <1>1
    <3> QED BY <3>1 DEF TakeCounted, Error
  <2>3. CASE k \in prefix .. prefix + Len(s) - 1
    <3>1. ReadInt(UInt(prefix), First(b, k)) = Read(n, First(s, k - prefix))
      BY <2>3, <1>1
    <3>2. Len(First(s, k - prefix)) < n
      <4>1. k - prefix \in 0 .. Len(s) /\ k - prefix < n
        BY <2>3, <1>0
      <4>2. Len(First(s, k - prefix)) = k - prefix
        BY <4>1, FirstOfOne
      <4> QED BY <4>1, <4>2
    <3>3. Take(First(s, k - prefix), n) = Error
      BY <3>2 DEF Take
    <3> QED BY <3>1, <3>3 DEF TakeCounted, Read
  <2> QED BY <2>1, <2>2, <2>3
<1> QED BY <1>2, <1>3 DEF b

\* What serialize() writes of a string, with a length of any number of bytes, is read back
\* and leaves what follows it; cut off anywhere, it is an error.
THEOREM StringsComeBack ==
  ASSUME NEW prefix \in Nat \ {0}, NEW s \in Seq(Byte), NEW more \in Seq(Byte),
         WithLength(prefix, s).ok
  PROVE  LET b == WithLength(prefix, s).bytes
         IN  /\ TakeCounted(b \o more, prefix) = Read(s, more)
             /\ \A k \in 0 .. Len(b) - 1 : TakeCounted(First(b, k), prefix) = Error
<1> DEFINE b == ToBytes(UInt(prefix), Len(s)) \o s
<1>1. Len(s) \in Nat /\ Len(s) < Power(Base, prefix) - 1 /\ WithLength(prefix, s).bytes = b
  <2>0. Base \in Nat \ {0} /\ prefix \in Nat /\ Len(s) \in Nat
    BY BaseIs
  <2>1. Power(Base, prefix) \in Nat /\ Len(s) \in Nat
    BY <2>0, PowerIs
  <2> QED BY <2>1 DEF WithLength, Good, Refused
<1>2. Len(b) = prefix + Len(s)
  BY <1>1, LengthIsRead
<1>3. /\ TakeCounted(b \o more, prefix) = Take(s \o more, Len(s))
      /\ \A k \in 0 .. prefix + Len(s) - 1 : TakeCounted(First(b, k), prefix) = Error
  BY <1>1, CountedIsTaken
<1>4. Take(s \o more, Len(s)) = Read(s, more)
  BY TakesFirst
<1> HIDE DEF b
<1> QED BY <1>1, <1>2, <1>3, <1>4

-----------------------------------------------------------------------------
(* Texts.                                                                  *)

\* Characters of one byte are that byte, and the others are two.
LEMMA EncodedIs ==
  /\ Ascii \subseteq Byte /\ Ascii \subseteq Characters
  /\ \A c \in Characters : /\ Encoded(c) \in Seq(Byte)
                           /\ Len(Encoded(c)) = IF c \in Ascii THEN 1 ELSE 2
<1>1. Base \in Nat /\ Base > 1
  BY BaseIs
<1>2. Characters \subseteq Byte /\ Ascii \subseteq Byte /\ Ascii \subseteq Characters
  BY <1>1 DEF Characters, Ascii, Byte
<1>3. Lead \in Byte
  BY <1>1 DEF Lead, Byte
<1> QED BY <1>2, <1>3 DEF Encoded

\* The elements of one list, and then those of another.
LEMMA JoinedIs ==
  ASSUME NEW S, NEW a \in Seq(S), NEW b \in Seq(S)
  PROVE  /\ a \o b \in Seq(S) /\ Len(a \o b) = Len(a) + Len(b)
         /\ \A i \in 1 .. Len(a) : (a \o b)[i] = a[i]
         /\ \A i \in 1 .. Len(b) : (a \o b)[Len(a) + i] = b[i]
  OBVIOUS

\* The bytes of a text are at least as many as its characters, and as many only if each
\* character is one byte; then they are the text.
LEMMA Utf8Is ==
  ASSUME NEW text \in Seq(Characters)
  PROVE  /\ Utf8(text) \in Seq(Byte)
         /\ Len(Utf8(text)) >= Len(text)
         /\ Len(Utf8(text)) = Len(text) <=> OneByteEach(text)
         /\ OneByteEach(text) => Utf8(text) = text
<1> DEFINE n == Len(text)
           Says(p) == p = [i \in 0 .. n |->
                             IF i = 0 THEN <<>> ELSE p[i - 1] \o Encoded(text[i])]
           P == CHOOSE p : Says(p)
           Step == [i \in 1 .. n |-> [x \in Seq(Byte) |-> x \o Encoded(text[i])]]
<1>0. n \in Nat /\ \A i \in 1 .. n : text[i] \in Characters
  OBVIOUS
<1>a. \A i \in 1 .. n : /\ Encoded(text[i]) \in Seq(Byte)
                        /\ Len(Encoded(text[i])) = IF text[i] \in Ascii THEN 1 ELSE 2
                        /\ text[i] \in Ascii => Encoded(text[i]) = <<text[i]>>
  BY <1>0, EncodedIs DEF Encoded
<1> HIDE DEF n
<1>1. Step \in Steps(1 .. n, Seq(Byte))
  <2> HIDE DEF Byte
  <2> QED BY <1>a DEF Steps
<1>2. \A i \in 1 .. n, x \in Seq(Byte) : Step[i][x] = x \o Encoded(text[i])
  OBVIOUS
<1> HIDE DEF Step
<1>3. PICK f : RecursiveTo(n, f, Seq(Byte), <<>>, Step)
  <2>1. <<>> \in Seq(Byte)
    OBVIOUS
  <2> QED BY <1>0, <1>1, <2>1, ListRecursionExists, Zenon
<1>4. f \in [0 .. n -> Seq(Byte)] /\ f[0] = <<>> /\ \A i \in 1 .. n : f[i] = Step[i][f[i - 1]]
  BY <1>3 DEF RecursiveTo
<1>5. \A i \in 1 .. n : f[i - 1] \in Seq(Byte) /\ f[i] = f[i - 1] \o Encoded(text[i])
  <2> TAKE i \in 1 .. n
  <2>1. i - 1 \in 0 .. n
    BY <1>0
  <2>2. f[i - 1] \in Seq(Byte)
    BY <2>1, <1>4
  <2> QED BY <2>2, <1>2, <1>4
<1>6. Says(f)
  <2>1. \A i \in 0 .. n : f[i] = IF i = 0 THEN <<>> ELSE f[i - 1] \o Encoded(text[i])
    <3> TAKE i \in 0 .. n
    <3>1. i = 0 \/ i \in 1 .. n
      BY <1>0
    <3> QED BY <3>1, <1>4, <1>5
  <2>2. f = [i \in 0 .. n |-> f[i]]
    BY <1>4
  <2> QED BY <2>1, <2>2
<1>7. Says(P)
  <2> HIDE DEF Says
  <2> QED BY <1>6
<1>8. Utf8(text) = P[n]
  BY DEF Utf8, n
<1> HIDE DEF P
<1>9. /\ P[0] = <<>>
      /\ \A i \in 1 .. n : P[i] = P[i - 1] \o Encoded(text[i])
  BY <1>0, <1>7
<1> HIDE DEF Says
<1> DEFINE One(i) == \A j \in 1 .. i : text[j] \in Ascii
           Right(i) == /\ P[i] \in Seq(Byte) /\ Len(P[i]) >= i
                       /\ Len(P[i]) = i <=> One(i)
                       /\ One(i) => \A j \in 1 .. i : P[i][j] = text[j]
           T == {i \in Nat : i <= n => Right(i)}
<1>10. T \in SUBSET Nat /\ 0 \in T
  <2>1. 1 .. 0 = {} /\ P[0] = <<>> /\ <<>> \in Seq(Byte) /\ Len(<<>>) = 0
    BY <1>9
  <2>2. Right(0)
    BY <2>1
  <2> HIDE DEF Right
  <2> QED BY <2>2
<1>11. ASSUME NEW i \in T PROVE i + 1 \in T
  <2> HIDE DEF Byte
  <2> SUFFICES ASSUME i + 1 <= n PROVE Right(i + 1)
    OBVIOUS
  <2>1. i \in Nat /\ i + 1 \in 1 .. n /\ (i + 1) - 1 = i /\ i <= n
    BY <1>0
  <2>2. /\ P[i] \in Seq(Byte) /\ Len(P[i]) >= i
        /\ Len(P[i]) = i <=> One(i)
        /\ One(i) => \A j \in 1 .. i : P[i][j] = text[j]
    BY <2>1
  <2>3. P[i + 1] = P[i] \o Encoded(text[i + 1])
    BY <2>1, <1>9
  <2>4. /\ Encoded(text[i + 1]) \in Seq(Byte)
        /\ Len(Encoded(text[i + 1])) = IF text[i + 1] \in Ascii THEN 1 ELSE 2
        /\ text[i + 1] \in Ascii => Encoded(text[i + 1]) = <<text[i + 1]>>
    BY <2>1, <1>a
  <2>5. One(i + 1) <=> One(i) /\ text[i + 1] \in Ascii
    <3>1. 1 .. i + 1 = (1 .. i) \cup {i + 1}
      BY <2>1
    <3> QED BY <3>1
  <2> HIDE DEF One
  <2>a. P[i] \in Seq(Byte) /\ Len(P[i]) \in Nat /\ Len(P[i]) >= i /\ (Len(P[i]) = i <=> One(i))
    BY <2>2
  <2>6. P[i + 1] \in Seq(Byte) /\ Len(P[i + 1]) = Len(P[i]) + Len(Encoded(text[i + 1]))
    <3>1. P[i] \in Seq(Byte) /\ Encoded(text[i + 1]) \in Seq(Byte)
      BY <2>a, <2>4
    <3>2. /\ P[i] \o Encoded(text[i + 1]) \in Seq(Byte)
          /\ Len(P[i] \o Encoded(text[i + 1])) = Len(P[i]) + Len(Encoded(text[i + 1]))
      BY ONLY <3>1, JoinedIs
    <3> QED BY ONLY <3>2, <2>3
  <2>7. Len(P[i + 1]) >= i + 1 /\ (Len(P[i + 1]) = i + 1 <=> One(i + 1))
    <3>1. CASE text[i + 1] \in Ascii
      BY ONLY <3>1, <2>1, <2>a, <2>4, <2>5, <2>6
    <3>2. CASE text[i + 1] \notin Ascii
      BY ONLY <3>2, <2>1, <2>a, <2>4, <2>5, <2>6
    <3> QED BY <3>1, <3>2
  <2>8. ASSUME One(i + 1), NEW j \in 1 .. i + 1 PROVE P[i + 1][j] = text[j]
    <3>1. One(i) /\ text[i + 1] \in Ascii /\ Len(P[i]) = i
      BY <2>8, <2>5, <2>2
    <3>2. P[i + 1] = P[i] \o <<text[i + 1]>>
      BY <3>1, <2>3, <2>4
    <3>3. j \in 1 .. i \/ j = i + 1
      BY <2>1
    <3>4. P[i] \in Seq(Byte)
      BY <2>2
    <3>5. CASE j \in 1 .. i
      <4>1. P[i + 1][j] = P[i][j]
        BY ONLY <3>1, <3>2, <3>4, <3>5, <2>1
      <4> QED BY <4>1, <3>1, <3>5, <2>2
    <3>6. CASE j = i + 1
      <4>1. Encoded(text[i + 1]) = <<text[i + 1]>> /\ Encoded(text[i + 1]) \in Seq(Byte)
        BY <3>1, <2>4
      <4>2. /\ 1 \in 1 .. Len(Encoded(text[i + 1]))
            /\ Encoded(text[i + 1])[1] = text[i + 1]
        BY <4>1
      <4>3. P[i + 1][Len(P[i]) + 1] = Encoded(text[i + 1])[1]
        BY <4>1, <4>2, <3>4, <2>3, JoinedIs
      <4> QED BY <4>2, <4>3, <3>1, <3>6
    <3> QED BY <3>3, <3>5, <3>6
  <2> QED BY <2>6, <2>7, <2>8
<1> HIDE DEF T
<1>12. T = Nat
  BY <1>10, <1>11, CountingUp
<1>13. Right(n)
  BY <1>0, <1>12 DEF T
<1>14. One(n) <=> OneByteEach(text)
  <2>1. DOMAIN text = 1 .. n
    BY DEF n
  <2> QED BY <2>1 DEF OneByteEach
<1>15. ASSUME One(n) PROVE P[n] = text
  <2>1. P[n] \in Seq(Byte) /\ text \in Seq(Characters) /\ Len(P[n]) = n /\ Len(text) = n
    BY <1>13, <1>15 DEF n
  <2>2. \A j \in 1 .. n : P[n][j] = text[j]
    BY <1>13, <1>15
  <2> HIDE DEF Byte, Characters
  <2> QED BY ONLY <2>1, <2>2, <1>0
<1> HIDE DEF One
<1> QED BY <1>8, <1>13, <1>14, <1>15 DEF n

\* Bytes of which each is a character are read as these characters.
LEMMA FromAscii ==
  ASSUME NEW text \in Seq(Ascii)
  PROVE  FromUtf8(text) = text
<1> DEFINE n == Len(text)
           Says(p) == p = [i \in 0 .. n |->
                             IF i = 0 THEN <<>> ELSE p[i - 1] \o Decoded(text, i)]
           P == CHOOSE p : Says(p)
           f == [i \in 0 .. n |-> SubSeq(text, 1, i)]
<1>0. n \in Nat /\ \A i \in 1 .. n : text[i] \in Ascii
  OBVIOUS
<1>1. \A i \in 1 .. n : Decoded(text, i) = <<text[i]>>
  BY <1>0 DEF Decoded
<1>2. \A i \in 1 .. n : SubSeq(text, 1, i) = SubSeq(text, 1, i - 1) \o <<text[i]>>
  <2> HIDE DEF Ascii
  <2> TAKE i \in 1 .. n
  <2>1. i \in Nat /\ i >= 1 /\ i <= Len(text) /\ i - 1 \in Nat
    BY <1>0
  <2> DEFINE a == SubSeq(text, 1, i)
             b == SubSeq(text, 1, i - 1)
  <2>2. /\ a \in Seq(Ascii) /\ Len(a) = i /\ b \in Seq(Ascii) /\ Len(b) = i - 1
        /\ (\A j \in 1 .. i : a[j] = text[j]) /\ (\A j \in 1 .. i - 1 : b[j] = text[j])
    BY <2>1
  <2>3. text[i] \in Ascii
    BY <2>1
  <2> HIDE DEF a, b
  <2>4. a = b \o <<text[i]>>
    BY <2>1, <2>2, <2>3
  <2> QED BY <2>4 DEF a, b
<1> HIDE DEF n
<1>3. Says(f)
  <2>1. \A i \in 0 .. n : f[i] = IF i = 0 THEN <<>> ELSE f[i - 1] \o Decoded(text, i)
    <3> TAKE i \in 0 .. n
    <3>1. CASE i = 0
      <4>1. SubSeq(text, 1, 0) = <<>>
        OBVIOUS
      <4> QED BY <4>1, <3>1
    <3>2. CASE i # 0
      <4>1. i \in 1 .. n /\ i - 1 \in 0 .. n
        BY <3>2, <1>0
      <4>2. f[i] = SubSeq(text, 1, i) /\ f[i - 1] = SubSeq(text, 1, i - 1)
        BY <4>1
      <4> HIDE DEF f
      <4> QED BY <4>1, <4>2, <3>2, <1>1, <1>2
    <3> QED BY <3>1, <3>2
  <2>2. f = [i \in 0 .. n |-> f[i]]
    OBVIOUS
  <2> HIDE DEF f
  <2> QED BY <2>1, <2>2
<1>4. Says(P)
  <2> HIDE DEF Says, f
  <2> QED BY <1>3
<1>5. FromUtf8(text) = P[n]
  BY DEF FromUtf8, n
<1> HIDE DEF P
<1>6. P[0] = <<>> /\ \A i \in 1 .. n : P[i] = P[i - 1] \o Decoded(text, i)
  <2>1. P = [i \in 0 .. n |-> IF i = 0 THEN <<>> ELSE P[i - 1] \o Decoded(text, i)]
    BY ONLY <1>4
  <2>2. \A i \in 0 .. n : P[i] = IF i = 0 THEN <<>> ELSE P[i - 1] \o Decoded(text, i)
    BY ONLY <2>1
  <2>3. 0 \in 0 .. n
    BY <1>0
  <2>4. ASSUME NEW i \in 1 .. n PROVE P[i] = P[i - 1] \o Decoded(text, i)
    <3>1. i \in 0 .. n /\ i # 0
      BY <1>0
    <3> QED BY ONLY <3>1, <2>2
  <2>5. P[0] = <<>>
    BY ONLY <2>2, <2>3
  <2> QED BY ONLY <2>4, <2>5
<1> HIDE DEF Says
<1> DEFINE T == {i \in Nat : i <= n => P[i] = SubSeq(text, 1, i)}
<1>7. T \in SUBSET Nat /\ 0 \in T
  <2>1. SubSeq(text, 1, 0) = <<>>
    OBVIOUS
  <2> QED BY <2>1, <1>6
<1>8. ASSUME NEW i \in T PROVE i + 1 \in T
  <2> SUFFICES ASSUME i + 1 <= n PROVE P[i + 1] = SubSeq(text, 1, i + 1)
    OBVIOUS
  <2>1. i \in Nat /\ i + 1 \in 1 .. n /\ (i + 1) - 1 = i /\ P[i] = SubSeq(text, 1, i)
    BY <1>0
  <2>2. P[i + 1] = P[i] \o <<text[i + 1]>>
    BY <2>1, <1>1, <1>6
  <2>3. SubSeq(text, 1, i + 1) = SubSeq(text, 1, i) \o <<text[i + 1]>>
    BY <2>1, <1>2
  <2> QED BY <2>1, <2>2, <2>3
<1> HIDE DEF T
<1>9. T = Nat
  BY <1>7, <1>8, CountingUp
<1>10. P[n] = SubSeq(text, 1, n)
  BY <1>0, <1>9 DEF T
<1>11. SubSeq(text, 1, n) = text
  BY DEF n
<1> QED BY <1>5, <1>10, <1>11

\* The bytes before the first null are bytes of the text.
LEMMA UpToNullIs ==
  ASSUME NEW S, NEW s \in Seq(S)
  PROVE  UpToNull(s) \in Seq(S)
<1> DEFINE nulls == {i \in DOMAIN s : s[i] = 0}
           least == CHOOSE i \in nulls : \A j \in nulls : i <= j
<1>1. CASE nulls = {}
  BY <1>1 DEF UpToNull
<1>2. CASE nulls # {}
  <2>1. nulls \subseteq 1 .. Len(s) /\ Len(s) \in Nat
    OBVIOUS
  <2>2. \E i \in nulls : \A j \in nulls : i <= j
    <3>1. PICK x \in nulls : TRUE
      BY <1>2
    <3> DEFINE R == OpToRel(<, Nat)
    <3>2. IsWellFoundedOn(R, Nat)
      BY NatLessThanWellFounded
    <3>6. nulls \subseteq Nat
      BY <2>1
    <3>3. \A a, b \in Nat : a < b => <<a, b>> \in R
      BY DEF OpToRel
    <3> HIDE DEF R, nulls
    <3>4. PICK i \in nulls : \A j \in nulls : ~(<<j, i>> \in R)
      BY <3>1, <3>2, <3>6, WFMin, Zenon
    <3>5. \A j \in nulls : i <= j
      <4> TAKE j \in nulls
      <4>1. i \in Nat /\ j \in Nat /\ ~(<<j, i>> \in R)
        BY <3>4, <3>6
      <4>2. ~(j < i)
        BY <4>1, <3>3
      <4> QED BY <4>1, <4>2
    <3> QED BY <3>5
  <2>3. least \in nulls
    <3> HIDE DEF nulls
    <3> QED BY <2>2
  <2>4. UpToNull(s) = First(s, least - 1)
    BY <1>2 DEF UpToNull
  <2> HIDE DEF least, nulls
  <2>5. least - 1 \in 0 .. Len(s)
    BY <2>1, <2>3
  <2> QED BY <2>4, <2>5, FirstOfOne
<1> QED BY <1>1, <1>2

\* A text that serialize() accepts and whose length is not the mark of an invalid text,
\* which a prefix of one byte never has.  The length is that of its characters: the bytes
\* behind the text are untouched if, and only if, each character is one byte (ASCII).
\* Then what comes back is the text up to its first null.  Cut off where its characters
\* would end or earlier, the text is an error.
THEOREM TextsComeBack ==
  ASSUME NEW prefix \in Nat \ {0}, NEW text \in Seq(Characters), NEW more \in Seq(Byte),
         TextWithLength(prefix, text).ok, prefix = 1 \/ Len(text) # InvalidLength
  PROVE  LET b == TextWithLength(prefix, text).bytes
         IN  /\ ReadText(prefix, b \o more).ok
             /\ ReadText(prefix, b \o more).rest = more <=> OneByteEach(text)
             /\ OneByteEach(text) => ReadText(prefix, b \o more) = Read(UpToNull(text), more)
             /\ \A k \in 0 .. prefix + Len(text) - 1 : ReadText(prefix, First(b, k)) = Error
<1> DEFINE n == Len(text)
           u == Utf8(text)
           b == ToBytes(UInt(prefix), n) \o u
           c == u \o more
<1>1. n \in Nat /\ n < Power(Base, prefix) - 1 /\ TextWithLength(prefix, text).bytes = b
  <2>0. Base \in Nat \ {0} /\ prefix \in Nat /\ Len(text) \in Nat
    BY BaseIs
  <2>1. Power(Base, prefix) \in Nat /\ Len(text) \in Nat
    BY <2>0, PowerIs
  <2> QED BY <2>1 DEF TextWithLength, Good, Refused
<1>2. /\ u \in Seq(Byte) /\ Len(u) >= n /\ (Len(u) = n <=> OneByteEach(text))
      /\ OneByteEach(text) => u = text
  BY Utf8Is
<1>3. n # InvalidLength
  <2>1. CASE prefix = 1
    <3>1. Power(Base, 1) = Base
      <4>1. Base \in Nat \ {0} /\ 0 \in Nat
        BY BaseIs
      <4>2. Power(Base, 0 + 1) = Base * Power(Base, 0) /\ Power(Base, 0) = 1
        BY <4>1, PowerIs
      <4> QED BY <4>2, BaseIs
    <3> QED BY <3>1, <2>1, <1>1, BaseIs DEF InvalidLength
  <2> QED BY <2>1
<1> HIDE DEF u, n
<1>4. /\ ReadInt(UInt(prefix), b \o more) = Read(n, c)
      /\ \A k \in 0 .. prefix - 1 : ReadInt(UInt(prefix), First(b, k)) = Error
      /\ \A k \in prefix .. prefix + Len(u) - 1 :
           ReadInt(UInt(prefix), First(b, k)) = Read(n, First(u, k - prefix))
  BY <1>1, <1>2, LengthIsRead
<1>5. /\ TakeCounted(b \o more, prefix) = Take(c, n)
      /\ \A k \in 0 .. prefix + n - 1 : TakeCounted(First(b, k), prefix) = Error
  BY <1>1, <1>2, CountedIsTaken
<1> HIDE DEF b
<1>6. c \in Seq(Byte) /\ Len(c) = Len(u) + Len(more) /\ Len(u) \in Nat /\ Len(more) \in Nat
  <2> HIDE DEF Byte
  <2> QED BY <1>2
<1>7. Take(c, n) = Read(First(c, n), Behind(c, n))
  BY <1>1, <1>2, <1>6 DEF Take
<1>8. ReadText(prefix, b \o more) = Read(FromUtf8(UpToNull(First(c, n))), Behind(c, n))
  BY <1>3, <1>4, <1>5, <1>7 DEF ReadText, Read
<1>9. Len(Behind(c, n)) = Len(u) + Len(more) - n
  <2> HIDE DEF Byte, c
  <2>1. n <= Len(c)
    BY <1>1, <1>2, <1>6
  <2> QED BY <2>1, <1>1, <1>6 DEF Behind
<1>10. ASSUME OneByteEach(text)
      PROVE  ReadText(prefix, b \o more) = Read(UpToNull(text), more)
  <2>1. u = text /\ Len(u) = n
    BY <1>10, <1>2
  <2>2. Take(c, n) = Read(text, more)
    <3>1. Take(c, Len(u)) = Read(u, more)
      <4> HIDE DEF Byte
      <4> QED BY <1>2, TakesFirst
    <3> QED BY <3>1, <2>1
  <2>3. First(c, n) = text /\ Behind(c, n) = more
    BY <2>2, <1>7 DEF Read
  <2>4. text \in Seq(Ascii)
    BY <1>10 DEF OneByteEach
  <2>5. UpToNull(text) \in Seq(Ascii)
    BY <2>4, UpToNullIs
  <2>6. FromUtf8(UpToNull(text)) = UpToNull(text)
    BY <2>5, FromAscii
  <2> QED BY <2>3, <2>6, <1>8
<1>11. ReadText(prefix, b \o more).ok
  BY <1>8 DEF Read
<1>12. ASSUME ReadText(prefix, b \o more).rest = more PROVE OneByteEach(text)
  <2>1. Behind(c, n) = more
    BY <1>8, <1>12 DEF Read
  <2>2. Len(u) + Len(more) - n = Len(more)
    BY <2>1, <1>9
  <2>3. Len(u) = n
    BY <2>2, <1>1, <1>6
  <2> QED BY <2>3, <1>2
<1>13. ASSUME NEW k \in 0 .. prefix + n - 1 PROVE ReadText(prefix, First(b, k)) = Error
  <2>1. k \in 0 .. prefix - 1 \/ k \in prefix .. prefix + Len(u) - 1
    BY <1>1, <1>2, <1>6
  <2>2. TakeCounted(First(b, k), prefix) = Error
    BY <1>5
  <2>3. CASE k \in 0 .. prefix - 1
    <3>1. ReadInt(UInt(prefix), First(b, k)) = Error
      BY <2>3, <1>4
    <3> QED BY <3>1 DEF ReadText, Error
  <2>4. CASE k \in prefix .. prefix + Len(u) - 1
    <3>1. ReadInt(UInt(prefix), First(b, k)) = Read(n, First(u, k - prefix))
      BY <2>4, <1>4
    <3> QED BY <3>1, <2>2, <1>3 DEF ReadText, Read, Error
  <2> QED BY <2>1, <2>3, <2>4
<1>14. ReadText(prefix, b \o more).rest = more <=> OneByteEach(text)
  BY <1>10, <1>12 DEF Read
<1> QED BY <1>1, <1>10, <1>11, <1>13, <1>14 DEF n

-----------------------------------------------------------------------------
(* Bit fields.                                                             *)

BitValues == 0 .. 1

\* Bits make bytes, byte by byte, and the same bits come out of them.
LEMMA BitsComeBack ==
  ASSUME NEW bits \in Seq(BitValues), Len(bits) % ByteBits = 0
  PROVE  /\ BytesOfBits(bits) \in Seq(Byte)
         /\ Len(BytesOfBits(bits)) = Len(bits) \div ByteBits
         /\ BitsOfBytes(BytesOfBits(bits)) = bits
<1> DEFINE m == Len(bits) \div ByteBits
           Group(j) == SubSeq(bits, (j - 1) * ByteBits + 1, j * ByteBits)
           b == [j \in 1 .. m |-> Number(2, Group(j))]
           c == [i \in 1 .. m * ByteBits |->
                   Digits(2, ByteBits, b[((i - 1) \div ByteBits) + 1])[((i - 1) % ByteBits) + 1]]
<1>0. ByteBits \in Nat /\ ByteBits > 0 /\ 2 \in Nat /\ 2 > 1
  BY BytesHaveBits
<1>1. Len(bits) \in Nat /\ m \in Nat /\ m * ByteBits = Len(bits)
  BY <1>0
<1>2. ASSUME NEW j \in 1 .. m
      PROVE  /\ Group(j) \in Seq(BitValues) /\ Len(Group(j)) = ByteBits
             /\ \A q \in 1 .. ByteBits : Group(j)[q] = bits[(j - 1) * ByteBits + q]
  <2> DEFINE x == (j - 1) * ByteBits
  <2>1. x \in Nat /\ j * ByteBits = x + ByteBits /\ j * ByteBits <= m * ByteBits
    BY <1>0, <1>1
  <2>2. Group(j) = SubSeq(bits, x + 1, x + ByteBits)
    BY <2>1
  <2> HIDE DEF x, m
  <2>3. x + 1 \in 1 .. Len(bits) + 1 /\ x + ByteBits <= Len(bits)
    BY <2>1, <1>0, <1>1
  <2> DEFINE g == SubSeq(bits, x + 1, x + ByteBits)
  <2>a. Len(bits) \in Nat /\ ByteBits \in Nat /\ x \in Nat
    BY <2>1, <1>0, <1>1
  <2>b. g \in Seq(BitValues) /\ Len(g) = ByteBits
    BY <2>a, <2>3, <1>0
  <2>c. ASSUME NEW q \in 1 .. ByteBits PROVE g[q] = bits[x + q]
    BY <2>a, <2>3, <1>0
  <2>4. /\ g \in Seq(BitValues) /\ Len(g) = ByteBits
        /\ \A q \in 1 .. ByteBits : g[q] = bits[x + q]
    BY <2>b, <2>c
  <2> HIDE DEF g
  <2> QED BY <2>2, <2>4 DEF g, x
<1> HIDE DEF Group, m
<1>3. ASSUME NEW j \in 1 .. m
      PROVE  /\ Number(2, Group(j)) \in Byte
             /\ Digits(2, ByteBits, Number(2, Group(j))) = Group(j)
  <2>1. Group(j) \in Seq(0 .. 2 - 1) /\ Len(Group(j)) = ByteBits
    BY <1>2 DEF BitValues
  <2> QED BY <2>1, <1>0, DigitsOfNumber DEF Byte, Base
<1>4. b \in Seq(Byte) /\ Len(b) = m
  <2> HIDE DEF Byte
  <2> QED BY <1>1, <1>3
<1>5. BytesOfBits(bits) = b
  BY DEF BytesOfBits, Group, m
<1>6. BitsOfBytes(b) = c
  BY <1>4 DEF BitsOfBytes
<1>7. ASSUME NEW i \in 1 .. Len(bits) PROVE c[i] = bits[i]
  <2> DEFINE j == ((i - 1) \div ByteBits) + 1
             q == ((i - 1) % ByteBits) + 1
  <2>1. (i - 1) \div ByteBits \in Nat /\ (i - 1) % ByteBits \in 0 .. ByteBits - 1
        /\ i - 1 = ByteBits * ((i - 1) \div ByteBits) + ((i - 1) % ByteBits)
    <3>1. CASE ByteBits > 1
      <4>1. i - 1 \in Int /\ i - 1 >= 0
        OBVIOUS
      <4>2. (i - 1) \div ByteBits \in Nat
        BY <4>1, <1>0
      <4> QED BY <4>1, <4>2, <3>1, <1>0, Remainder
    <3>2. CASE ByteBits = 1
      BY <3>2
    <3> QED BY <3>1, <3>2, <1>0
  <2>2. j \in Nat \ {0} /\ q \in 1 .. ByteBits /\ i = (j - 1) * ByteBits + q
    BY <2>1, <1>0
  <2>3. (j - 1) * ByteBits < m * ByteBits
    <3> HIDE DEF j, q
    <3>1. (j - 1) * ByteBits \in Nat
      BY <2>2, <1>0
    <3> QED BY <2>2, <3>1, <1>0, <1>1
  <2>4. j \in 1 .. m
    <3> HIDE DEF j, q
    <3>1. j - 1 < m
      BY <2>2, <2>3, <1>0, <1>1
    <3> QED BY <3>1, <2>2, <1>1
  <2>5. c[i] = Digits(2, ByteBits, b[j])[q] /\ b[j] = Number(2, Group(j))
    BY <1>1, <2>4
  <2> HIDE DEF c, b, j, q
  <2>6. Digits(2, ByteBits, b[j]) = Group(j)
    BY <2>4, <2>5, <1>3
  <2>7. Group(j)[q] = bits[(j - 1) * ByteBits + q]
    BY <2>2, <2>4, <1>2
  <2> QED BY <2>2, <2>5, <2>6, <2>7
<1>8. c = bits
  <2>1. c = [i \in 1 .. Len(bits) |-> c[i]]
    BY <1>1
  <2>2. bits = [i \in 1 .. Len(bits) |-> bits[i]]
    OBVIOUS
  <2> HIDE DEF c
  <2>3. [i \in 1 .. Len(bits) |-> c[i]] = [i \in 1 .. Len(bits) |-> bits[i]]
    BY <1>7
  <2> QED BY <2>1, <2>2, <2>3
<1> QED BY <1>4, <1>5, <1>6, <1>8 DEF m

\* How many bits come before each field.
LEMMA BitsBeforeIs ==
  ASSUME NEW types \in Seq(IntTypes)
  PROVE  /\ BitsBefore(types, 0) = 0
         /\ \A i \in 0 .. Len(types) : BitsBefore(types, i) \in Nat
         /\ \A i \in 1 .. Len(types) :
              BitsBefore(types, i) = BitsBefore(types, i - 1) + types[i].bits
<1> DEFINE k == Len(types)
           Says(p) == p = [i \in 0 .. k |-> IF i = 0 THEN 0 ELSE p[i - 1] + types[i].bits]
           P == CHOOSE p : Says(p)
           Step == [i \in 1 .. k |-> [x \in Nat |-> x + types[i].bits]]
<1>0. k \in Nat /\ \A i \in 1 .. k : types[i].bits \in Nat
  <2>1. \A i \in 1 .. k : types[i] \in IntTypes
    OBVIOUS
  <2> QED BY <2>1 DEF IntTypes
<1>1. Step \in Steps(1 .. k, Nat)
  BY <1>0 DEF Steps
<1>2. \A i \in 1 .. k, x \in Nat : Step[i][x] = x + types[i].bits
  OBVIOUS
<1> HIDE DEF Step
<1>3. PICK f : RecursiveTo(k, f, Nat, 0, Step)
  <2>1. 0 \in Nat
    OBVIOUS
  <2> HIDE DEF k
  <2> QED BY <1>0, <1>1, <2>1, ListRecursionExists, Zenon
<1>4. f \in [0 .. k -> Nat] /\ f[0] = 0 /\ \A i \in 1 .. k : f[i] = Step[i][f[i - 1]]
  BY <1>3 DEF RecursiveTo
<1>5. \A i \in 1 .. k : f[i] = f[i - 1] + types[i].bits
  <2> TAKE i \in 1 .. k
  <2>0. f \in [0 .. k -> Nat]
    BY <1>4
  <2>1. i - 1 \in 0 .. k /\ f[i - 1] \in Nat
    <3>1. k \in Nat
      BY <1>0
    <3> HIDE DEF k
    <3> QED BY ONLY <2>0, <3>1, i \in 1 .. k
  <2> QED BY <2>1, <1>2, <1>4
<1>6. Says(f)
  BY <1>0, <1>4, <1>5
<1>7. Says(P)
  <2> HIDE DEF Says
  <2> QED BY <1>6
<1>8. \A i : BitsBefore(types, i) = P[i]
  BY DEF BitsBefore
<1> HIDE DEF P, k
<1>9. P[0] = 0 /\ \A i \in 1 .. k : P[i] = P[i - 1] + types[i].bits
  BY <1>0, <1>7
<1> HIDE DEF Says
<1> DEFINE T == {i \in Nat : i \in 0 .. k => P[i] \in Nat}
<1>10. T \in SUBSET Nat /\ 0 \in T
  BY <1>9
<1>11. ASSUME NEW i \in T PROVE i + 1 \in T
  <2> SUFFICES ASSUME i + 1 \in 0 .. k PROVE P[i + 1] \in Nat
    OBVIOUS
  <2>1. i \in Nat /\ i \in 0 .. k /\ i + 1 \in 1 .. k /\ (i + 1) - 1 = i
    BY <1>0
  <2>2. P[i] \in Nat /\ types[i + 1].bits \in Nat
    BY <2>1, <1>0
  <2>3. P[i + 1] = P[i] + types[i + 1].bits
    BY <2>1, <1>9
  <2> QED BY <2>2, <2>3
<1> HIDE DEF T
<1>12. T = Nat
  BY <1>10, <1>11, CountingUp
<1>13. \A i \in 0 .. k : P[i] \in Nat
  BY <1>0, <1>12 DEF T
<1> QED BY <1>8, <1>9, <1>13 DEF k

\* The values that fit their types.
Fit(types, values) ==
  /\ types \in Seq(IntTypes) /\ values \in Seq(Int) /\ Len(values) = Len(types)
  /\ \A i \in 1 .. Len(types) : values[i] \in MinValue(types[i]) .. MaxValue(types[i])

\* The bits of one field.
LEMMA FieldBits ==
  ASSUME NEW types, NEW values, Fit(types, values), NEW i \in 1 .. Len(types)
  PROVE  /\ types[i].bits \in Nat
         /\ BitsOf(types[i], values[i]) \in Seq(BitValues)
         /\ Len(BitsOf(types[i], values[i])) = types[i].bits
         /\ FromBits(types[i], BitsOf(types[i], values[i])) = values[i]
<1> DEFINE t == types[i]
           n == values[i]
<1>1. t \in IntTypes /\ n \in MinValue(t) .. MaxValue(t) /\ n \in Int
  BY DEF Fit
<1> HIDE DEF t, n
<1>2. t.bits \in Nat /\ 2 \in Nat /\ 2 > 1 /\ 2 - 1 = 1
  BY <1>1 DEF IntTypes
<1>3. Digits(2, t.bits, n) \in Seq(0 .. 2 - 1) /\ Len(Digits(2, t.bits, n)) = t.bits
  BY <1>1, <1>2, DigitsAre
<1>4. Signed(t, Number(2, Digits(2, t.bits, n))) = n
  BY <1>1, <1>2, DigitsReadBack
<1> QED BY <1>2, <1>3, <1>4 DEF BitsOf, FromBits, BitValues, t, n

\* The fields collected so far: each one is before those that came first.
CollectsTo(c, types, values) ==
  /\ c \in [0 .. Len(types) -> Seq(BitValues)]
  /\ c[0] = <<>>
  /\ \A i \in 1 .. Len(types) : c[i] = BitsOf(types[i], values[i]) \o c[i - 1]
  /\ FromBitfields(types, values) = c[Len(types)]

LEMMA FromBitfieldsIs ==
  ASSUME NEW types, NEW values, Fit(types, values)
  PROVE  \E c : CollectsTo(c, types, values)
<1> DEFINE k == Len(types)
           S == Seq(BitValues)
           More(i) == BitsOf(types[i], values[i])
           Says(p) == p = [i \in 0 .. k |-> IF i = 0 THEN <<>> ELSE Collected(p[i - 1], More(i))]
           P == CHOOSE p : Says(p)
           Step == [i \in 1 .. k |-> [x \in S |-> Collected(x, More(i))]]
<1>0. k \in Nat /\ \A i \in 1 .. k : More(i) \in S
  <2>1. k \in Nat
    BY DEF Fit
  <2>2. \A i \in 1 .. k : More(i) \in S
    BY FieldBits
  <2> QED BY <2>1, <2>2
<1>1. Step \in Steps(1 .. k, S)
  <2>1. ASSUME NEW i \in 1 .. k, NEW x \in S PROVE Collected(x, More(i)) \in S
    BY <1>0, ConcatProperties DEF Collected
  <2> HIDE DEF S, More
  <2> QED BY <2>1 DEF Steps
<1>2. \A i \in 1 .. k, x \in S : Step[i][x] = Collected(x, More(i))
  OBVIOUS
<1> HIDE DEF Step
<1>3. PICK f : RecursiveTo(k, f, S, <<>>, Step)
  <2>1. <<>> \in S
    OBVIOUS
  <2> HIDE DEF k, S
  <2> QED BY <1>0, <1>1, <2>1, ListRecursionExists, Zenon
<1>4. f \in [0 .. k -> S] /\ f[0] = <<>> /\ \A i \in 1 .. k : f[i] = Step[i][f[i - 1]]
  BY <1>3 DEF RecursiveTo
<1>5. \A i \in 1 .. k : f[i] = Collected(f[i - 1], More(i))
  <2> TAKE i \in 1 .. k
  <2>0. f \in [0 .. k -> S]
    BY <1>4
  <2>1. i - 1 \in 0 .. k
    BY <1>0
  <2>2. f[i - 1] \in S
    <3> HIDE DEF S, k
    <3> QED BY <2>0, <2>1
  <2> HIDE DEF S, More, k
  <2> QED BY <2>2, <1>2, <1>4
<1>6. Says(f)
  <2>1. f = [i \in 0 .. k |-> f[i]]
    BY <1>4
  <2>2. \A i \in 0 .. k : f[i] = IF i = 0 THEN <<>> ELSE Collected(f[i - 1], More(i))
    <3> HIDE DEF More, S
    <3> QED BY <1>0, <1>4, <1>5
  <2> HIDE DEF k, More, S
  <2>3. [i \in 0 .. k |-> f[i]] =
          [i \in 0 .. k |-> IF i = 0 THEN <<>> ELSE Collected(f[i - 1], More(i))]
    BY <2>2
  <2> QED BY <2>1, <2>3
<1>7. Says(P)
  <2> HIDE DEF Says
  <2> QED BY <1>6
<1>8. FromBitfields(types, values) = P[k]
  BY DEF FromBitfields
<1> HIDE DEF P, k, More
<1>9. P[0] = <<>> /\ \A i \in 1 .. k : P[i] = Collected(P[i - 1], More(i))
  BY <1>0, <1>7
<1>10. P = [i \in 0 .. k |-> P[i]]
  BY <1>7
<1> HIDE DEF Says
<1> DEFINE T == {i \in Nat : i \in 0 .. k => P[i] \in S}
<1>11. T \in SUBSET Nat /\ 0 \in T
  <2>1. <<>> \in S
    OBVIOUS
  <2> HIDE DEF S
  <2> QED BY <1>9, <2>1
<1>12. ASSUME NEW i \in T PROVE i + 1 \in T
  <2> SUFFICES ASSUME i + 1 \in 0 .. k PROVE P[i + 1] \in S
    OBVIOUS
  <2>1. i \in Nat /\ i \in 0 .. k /\ i + 1 \in 1 .. k /\ (i + 1) - 1 = i
    BY <1>0
  <2>2. P[i] \in S /\ More(i + 1) \in S
    BY <2>1, <1>0
  <2>3. P[i + 1] = More(i + 1) \o P[i]
    BY <2>1, <1>9 DEF Collected
  <2> QED BY <2>2, <2>3, ConcatProperties
<1> HIDE DEF T
<1>13. T = Nat
  BY <1>11, <1>12, CountingUp
<1>14. \A i \in 0 .. k : P[i] \in S
  BY <1>0, <1>13 DEF T
<1>15. P \in [0 .. k -> S]
  <2> HIDE DEF S
  <2> QED BY <1>10, <1>14
<1>16. \A i \in 1 .. k : P[i] = More(i) \o P[i - 1]
  BY <1>9 DEF Collected
<1>17. CollectsTo(P, types, values)
  BY <1>8, <1>9, <1>15, <1>16 DEF k, More, CollectsTo
<1> QED BY <1>17

\* More fields take no fewer bits.
LEMMA BitsBeforeGrows ==
  ASSUME NEW types \in Seq(IntTypes)
  PROVE  \A i, j \in 0 .. Len(types) : j <= i => BitsBefore(types, j) <= BitsBefore(types, i)
<1> DEFINE k == Len(types)
           L(i) == BitsBefore(types, i)
<1>0. k \in Nat /\ DOMAIN types = 1 .. k
  OBVIOUS
<1>1. L(0) = 0 /\ (\A i \in 0 .. k : L(i) \in Nat)
      /\ \A i \in 1 .. k : L(i) = L(i - 1) + types[i].bits
  BY BitsBeforeIs
<1>2. \A i \in 1 .. k : types[i].bits \in Nat
  <2>1. \A i \in 1 .. k : types[i] \in IntTypes
    OBVIOUS
  <2> QED BY <2>1 DEF IntTypes
<1> HIDE DEF L, k
<1> SUFFICES ASSUME NEW j \in 0 .. k PROVE \A i \in 0 .. k : j <= i => L(j) <= L(i)
  BY DEF L, k
<1> DEFINE U == {x \in Nat : x \in j .. k => L(j) <= L(x)}
<1>3. j \in Nat /\ L(j) \in Nat
  BY <1>0, <1>1
<1>4. U \in SUBSET Nat /\ 0 \in U
  BY <1>3
<1>5. ASSUME NEW x \in U PROVE x + 1 \in U
  <2> SUFFICES ASSUME x + 1 \in j .. k PROVE L(j) <= L(x + 1)
    OBVIOUS
  <2>1. CASE x + 1 = j
    BY <2>1, <1>3
  <2>2. CASE x + 1 # j
    <3>1. x \in Nat /\ x \in j .. k /\ x + 1 \in 1 .. k /\ (x + 1) - 1 = x /\ x \in 0 .. k
      BY <2>2, <1>0, <1>3
    <3>2. L(x + 1) = L(x) + types[x + 1].bits /\ types[x + 1].bits \in Nat /\ L(x) \in Nat
      BY <3>1, <1>1, <1>2
    <3>3. L(j) <= L(x)
      BY <3>1
    <3> QED BY <3>2, <3>3, <1>3
  <2> QED BY <2>1, <2>2
<1> HIDE DEF U
<1>6. U = Nat
  BY <1>4, <1>5, CountingUp
<1> QED BY <1>0, <1>3, <1>6 DEF U

\* Bit fields of any widths, signed or not, that fill whole bytes together: they are
\* packed into just these bytes, and what is unpacked of the bytes is the values.
THEOREM BitfieldsComeBack ==
  ASSUME NEW types, NEW values, Fit(types, values), BitLength(types) % ByteBits = 0
  PROVE  LET bytes == BytesOfBits(FromBitfields(types, values))
         IN  /\ bytes \in Seq(Byte) /\ Len(bytes) = BitLength(types) \div ByteBits
             /\ ToBitfields(types, BitsOfBytes(bytes)) = values
<1> DEFINE k == Len(types)
           L(i) == BitsBefore(types, i)
           More(i) == BitsOf(types[i], values[i])
           bits == FromBitfields(types, values)
<1>0. types \in Seq(IntTypes) /\ k \in Nat /\ DOMAIN types = 1 .. k
      /\ values \in Seq(Int) /\ Len(values) = k
  BY DEF Fit
<1>1. L(0) = 0 /\ (\A i \in 0 .. k : L(i) \in Nat)
      /\ \A i \in 1 .. k : L(i) = L(i - 1) + types[i].bits
  BY <1>0, BitsBeforeIs
<1>2. \A i, j \in 0 .. k : j <= i => L(j) <= L(i)
  BY <1>0, BitsBeforeGrows
<1>3. \A i \in 1 .. k : /\ types[i].bits \in Nat
                        /\ More(i) \in Seq(BitValues) /\ Len(More(i)) = types[i].bits
                        /\ FromBits(types[i], More(i)) = values[i]
  BY FieldBits
<1>4. PICK c : CollectsTo(c, types, values)
  BY FromBitfieldsIs
<1>5. /\ c[0] = <<>>
      /\ \A i \in 1 .. k : c[i] = More(i) \o c[i - 1]
      /\ bits = c[k]
  BY <1>4 DEF CollectsTo
<1>6. \A i \in 0 .. k : c[i] \in Seq(BitValues)
  <2>1. c \in [0 .. k -> Seq(BitValues)]
    BY <1>4 DEF CollectsTo
  <2> HIDE DEF k
  <2> QED BY <2>1
<1> HIDE DEF L, More, bits, k
<1> DEFINE Holds(i) == /\ Len(c[i]) = L(i)
                       /\ \A j \in 1 .. i : \A q \in 1 .. types[j].bits :
                            c[i][(L(i) - L(j)) + q] = More(j)[q]
           T == {i \in Nat : i <= k => Holds(i)}
<1>7. T \in SUBSET Nat /\ 0 \in T
  BY <1>1, <1>5
<1>8. ASSUME NEW i \in Nat, i + 1 <= k, Holds(i) PROVE Holds(i + 1)
  <2> DEFINE a == More(i + 1)
             b == c[i]
             w == types[i + 1].bits
             d == a \o b
  <2>1. i \in 0 .. k /\ i + 1 \in 1 .. k /\ (i + 1) - 1 = i
    BY <1>0, <1>8
  <2>2. c[i + 1] = d
    BY <2>1, <1>5
  <2>3. w \in Nat /\ L(i) \in Nat /\ L(i + 1) = L(i) + w
    BY <2>1, <1>1, <1>3
  <2>4. a \in Seq(BitValues) /\ Len(a) = w /\ b \in Seq(BitValues) /\ Len(b) = L(i)
    BY <2>1, <1>3, <1>6, <1>8
  <2> HIDE DEF a, b, w
  <2>5. Len(d) = w + L(i) /\ (\A q \in 1 .. w : d[q] = a[q])
        /\ \A q \in 1 .. L(i) : d[w + q] = b[q]
    BY <2>3, <2>4
  <2> HIDE DEF d
  <2>6. Len(c[i + 1]) = L(i + 1)
    BY <2>2, <2>3, <2>5
  <2>7. ASSUME NEW j \in 1 .. i + 1, NEW q \in 1 .. types[j].bits
        PROVE  c[i + 1][(L(i + 1) - L(j)) + q] = More(j)[q]
    <3>1. CASE j = i + 1
      <4>1. (L(i + 1) - L(j)) + q = q /\ q \in 1 .. w
        BY <3>1, <2>3, <2>7 DEF w
      <4>2. d[q] = a[q]
        BY <4>1, <2>5
      <4> QED BY <4>1, <4>2, <3>1, <2>2 DEF a
    <3>2. CASE j \in 1 .. i
      <4> DEFINE r == (L(i) - L(j)) + q
      <4>1. j \in 1 .. k /\ j \in 0 .. k /\ j - 1 \in 0 .. k /\ types[j].bits \in Nat
        <5>1. j \in 1 .. k /\ j \in 0 .. k /\ j - 1 \in 0 .. k
          BY <3>2, <2>1, <1>0
        <5> QED BY <5>1, <1>3
      <4>2. L(j) \in Nat /\ q <= types[j].bits /\ L(j) = L(j - 1) + types[j].bits /\ L(j - 1) \in Nat
        BY <4>1, <1>1, <2>7
      <4>3. L(j) <= L(i)
        <5>1. j <= i
          BY <3>2, <2>1
        <5> QED BY <5>1, <4>1, <2>1, <1>2
      <4>4. r \in 1 .. L(i) /\ (L(i + 1) - L(j)) + q = w + r
        BY <4>1, <4>2, <4>3, <2>3, <2>7
      <4>5. b[r] = More(j)[q]
        BY <3>2, <1>8, <2>7 DEF b
      <4> HIDE DEF r
      <4>6. d[w + r] = b[r]
        BY <4>4, <2>5
      <4> QED BY <4>4, <4>5, <4>6, <2>2
    <3> QED BY <3>1, <3>2
  <2> QED BY <2>6, <2>7
<1> HIDE DEF Holds
<1>9. \A i \in T : i + 1 \in T
  <2> TAKE i \in T
  <2> SUFFICES ASSUME i + 1 <= k PROVE Holds(i + 1)
    OBVIOUS
  <2>1. i \in Nat /\ i <= k
    BY <1>0
  <2>2. Holds(i)
    BY <2>1
  <2> QED BY <2>1, <2>2, <1>8
<1> HIDE DEF T
<1>10. T = Nat
  BY <1>7, <1>9, CountingUp
<1>11. Holds(k)
  BY <1>0, <1>10 DEF T
<1>12. bits \in Seq(BitValues) /\ Len(bits) = L(k) /\ L(k) \in Nat
  BY <1>0, <1>1, <1>5, <1>6, <1>11 DEF Holds
<1>13. Len(bits) % ByteBits = 0
  BY <1>12 DEF BitLength, L, k
<1>14. /\ BytesOfBits(bits) \in Seq(Byte)
       /\ Len(BytesOfBits(bits)) = L(k) \div ByteBits
       /\ BitsOfBytes(BytesOfBits(bits)) = bits
  BY <1>12, <1>13, BitsComeBack
<1>15. ASSUME NEW j \in 1 .. k
       PROVE  FromBits(types[j], SubSeq(bits, Len(bits) - L(j) + 1, Len(bits) - L(j - 1))) = values[j]
  <2> DEFINE x == L(k) - L(j)
             w == types[j].bits
             s == SubSeq(bits, x + 1, x + w)
  <2>1. j \in 0 .. k /\ j - 1 \in 0 .. k
    BY <1>0
  <2>2. L(j) = L(j - 1) + w /\ L(j - 1) \in Nat /\ L(j) \in Nat /\ w \in Nat
    BY <2>1, <1>1, <1>3
  <2>3. Len(bits) - L(j) = x /\ Len(bits) - L(j - 1) = x + w /\ x + w <= Len(bits)
    BY <2>2, <1>12
  <2>4. \A q \in 1 .. w : bits[x + q] = More(j)[q]
    BY <1>5, <1>11, <1>0 DEF Holds
  <2>5. x \in Nat
    <3>1. k \in 0 .. k /\ j <= k
      BY <1>0
    <3>2. L(j) <= L(k)
      BY <3>1, <2>1, <1>2
    <3> QED BY <3>2, <2>2, <1>12
  <2> HIDE DEF x, w
  <2>6. s \in Seq(BitValues) /\ Len(s) = w /\ \A q \in 1 .. w : s[q] = bits[x + q]
    BY <2>2, <2>3, <2>5, <1>12
  <2> HIDE DEF s
  <2>7. More(j) \in Seq(BitValues) /\ Len(More(j)) = w
    BY <1>3 DEF w
  <2>8. s = More(j)
    BY <2>4, <2>6, <2>7, SeqEqual
  <2> QED BY <2>3, <2>8, <1>3 DEF s
<1>16. ToBitfields(types, bits) = values
  <2>1. ToBitfields(types, bits) = [j \in 1 .. k |-> values[j]]
    BY <1>0, <1>15 DEF ToBitfields, L
  <2>2. values = [j \in 1 .. k |-> values[j]]
    BY <1>0
  <2> QED BY <2>1, <2>2
<1> QED BY <1>14, <1>16 DEF BitLength, L, k, bits

-----------------------------------------------------------------------------
(* Floats.                                                                 *)

\* The formats have at least two bits of exponent.
FloatTypes == {Float(exp, frac) : exp \in Nat \ {0, 1}, frac \in Nat}

\* The sign, the exponent and the fraction of a pattern, for E exponents and F fractions.
Pattern(E, F, sign, exp, frac) == sign * (E * F) + exp * F + frac

\* What the powers of two in _convert_format are to each other.
LEMMA FloatPowers ==
  ASSUME NEW t \in FloatTypes
  PROVE  /\ t.exp \in Nat /\ t.frac \in Nat
         /\ Power(2, t.exp - 1) \in Nat /\ Power(2, t.exp - 1) >= 2
         /\ Power(2, t.exp) = 2 * Power(2, t.exp - 1)
         /\ Power(2, t.frac) \in Nat \ {0}
         /\ Power(2, t.exp + t.frac) = Power(2, t.exp) * Power(2, t.frac)
         /\ Power(2, t.bits) = 2 * Power(2, t.exp + t.frac)
<1>1. PICK exp \in Nat \ {0, 1}, frac \in Nat : t = Float(exp, frac)
  BY DEF FloatTypes
<1>2. t.exp = exp /\ t.frac = frac /\ t.bits = (exp + frac) + 1
  BY <1>1 DEF Float
<1>3. 2 \in Nat \ {0} /\ exp - 2 \in Nat /\ (exp - 2) + 1 = exp - 1
      /\ exp - 1 \in Nat /\ (exp - 1) + 1 = exp /\ exp + frac \in Nat
  OBVIOUS
<1>4. Power(2, exp - 2) \in Nat \ {0} /\ Power(2, exp - 1) = 2 * Power(2, exp - 2)
  BY <1>3, PowerIs
<1>5. Power(2, exp - 1) \in Nat /\ Power(2, exp - 1) >= 2
  BY <1>4
<1>6. Power(2, exp) = 2 * Power(2, exp - 1)
  BY <1>3, PowerIs
<1>7. Power(2, frac) \in Nat \ {0}
  BY <1>3, PowerIs
<1>8. Power(2, exp + frac) = Power(2, exp) * Power(2, frac)
  BY <1>3, PowerOfSum
<1>9. Power(2, (exp + frac) + 1) = 2 * Power(2, exp + frac)
  BY <1>3, PowerIs
<1> QED BY <1>1, <1>2, <1>5, <1>6, <1>7, <1>8, <1>9

\* A quotient by any positive number, of what is not negative.
LEMMA QuotientByAny ==
  ASSUME NEW r \in Nat \ {0}, NEW a \in Nat, NEW d \in 0 .. r - 1
  PROVE  (r * a + d) \div r = a /\ (r * a + d) % r = d
<1>1. CASE r = 1
  <2>1. d = 0 /\ r * a + d = a
    BY <1>1
  <2> QED BY <1>1, <2>1
<1>2. CASE r > 1
  BY <1>2, Quotient
<1> QED BY <1>1, <1>2

LEMMA RemainderByAny ==
  ASSUME NEW r \in Nat \ {0}, NEW a \in Nat
  PROVE  a \div r \in Nat /\ a % r \in 0 .. r - 1 /\ a = r * (a \div r) + (a % r)
<1>1. CASE r = 1
  <2>1. a \div 1 = a /\ a % 1 = 0
    OBVIOUS
  <2> QED BY <1>1, <2>1
<1>2. CASE r > 1
  <2>1. a \div r \in Int /\ a % r \in 0 .. r - 1 /\ a = r * (a \div r) + (a % r)
    BY <1>2, Remainder
  <2>2. a \div r \in Nat
    <3> DEFINE q == a \div r
               m == a % r
    <3>1. q \in Int /\ m \in 0 .. r - 1 /\ a = r * q + m
      BY <2>1
    <3> HIDE DEF q, m
    <3>2. q >= 0
      <4> SUFFICES ASSUME q <= -1 PROVE FALSE
        BY <3>1
      <4>1. r * q <= r * (-1)
        BY <3>1
      <4> QED BY <3>1, <4>1
    <3> QED BY <3>1, <3>2 DEF q
  <2> QED BY <2>1, <2>2
<1> QED BY <1>1, <1>2

\* An exponent and a fraction are below the sign.
LEMMA BelowTheSign ==
  ASSUME NEW E \in Nat, E > 1, NEW F \in Nat \ {0}, NEW x \in 0 .. E - 1, NEW f \in 0 .. F - 1
  PROVE  F * x + f \in 0 .. E * F - 1 /\ E * F \in Nat /\ E * F > 1
<1> DEFINE e == E - x - 1
           g == F - f - 1
<1>1. e \in Nat /\ E = x + 1 + e /\ x \in Nat /\ g \in Nat /\ F = f + 1 + g /\ f \in Nat
  OBVIOUS
<1> HIDE DEF e, g
<1>2. F * x \in Nat /\ F * e \in Nat
  BY <1>1
<1>3. E * F = F * x + F + F * e
  BY <1>1
<1>4. E * F = F + F * (E - 1) /\ F * (E - 1) \in Nat /\ F * (E - 1) >= 1
  <2> DEFINE h == E - 1
  <2>1. h \in Nat /\ h >= 1 /\ E = h + 1
    OBVIOUS
  <2> HIDE DEF h
  <2>2. F * h \in Nat /\ F * h >= 1
    <3> DEFINE i == F - 1
               j == h - 1
    <3>1. i \in Nat /\ F = i + 1 /\ j \in Nat /\ h = j + 1
      BY <2>1
    <3> HIDE DEF i, j
    <3>2. F * h = i * j + i + j + 1 /\ i * j \in Nat
      BY <3>1
    <3> QED BY <3>1, <3>2
  <2>3. E * F = F + F * h
    BY <2>1
  <2> QED BY <2>2, <2>3 DEF h
<1> QED BY <1>1, <1>2, <1>3, <1>4

\* A pattern is put together of its parts, and each part is found in it.
LEMMA PatternHasParts ==
  ASSUME NEW E \in Nat, E > 1, NEW F \in Nat \ {0}, NEW n \in 0 .. 2 * (E * F) - 1
  PROVE  /\ n \div (E * F) \in 0 .. 1 /\ (n \div F) % E \in 0 .. E - 1 /\ n % F \in 0 .. F - 1
         /\ n = Pattern(E, F, n \div (E * F), (n \div F) % E, n % F)
<1> DEFINE q == n \div F
           f == n % F
           u == q \div E
           x == q % E
<1>1. q \in Nat /\ f \in 0 .. F - 1 /\ n = F * q + f
  <2>1. n \in Nat
    OBVIOUS
  <2> QED BY <2>1, RemainderByAny
<1> HIDE DEF q, f
<1>2. u \in Nat /\ x \in 0 .. E - 1 /\ q = E * u + x
  <2>1. E \in Nat \ {0}
    OBVIOUS
  <2> QED BY <2>1, <1>1, RemainderByAny
<1> HIDE DEF u, x
<1> DEFINE S == E * F
           d == F * x + f
<1>3. S \in Nat /\ S > 1 /\ d \in 0 .. S - 1
  BY <1>1, <1>2, BelowTheSign
<1>4. n = S * u + d
  <2>1. F * (E * u + x) = (E * F) * u + F * x
    BY <1>1, <1>2
  <2>2. F * x \in Int /\ (E * F) * u \in Int
    BY <1>2
  <2> QED BY <1>1, <1>2, <2>1, <2>2
<1>5. n \in 0 .. 2 * S - 1
  OBVIOUS
<1>6. d = F * x + f /\ n = u * S + x * F + f
  <2>1. S * u = u * S /\ F * x = x * F /\ S * u \in Int /\ F * x \in Int
    BY <1>2, <1>3
  <2> QED BY <1>1, <1>4, <2>1
<1> HIDE DEF S, d
<1>7. n \div S = u
  BY <1>2, <1>3, <1>4, QuotientByAny
<1>8. u \in 0 .. 1
  <2> SUFFICES ASSUME u >= 2 PROVE FALSE
    BY <1>2
  <2> DEFINE v == u - 2
  <2>1. v \in Nat /\ u = v + 2
    BY <1>2
  <2> HIDE DEF v
  <2>2. S * u = S * v + 2 * S /\ S * v \in Nat
    BY <2>1, <1>3
  <2> QED BY <2>2, <1>3, <1>4, <1>5
<1> QED BY <1>1, <1>2, <1>6, <1>7, <1>8 DEF Pattern, S, x, q, f

LEMMA PartsOfPattern ==
  ASSUME NEW E \in Nat, E > 1, NEW F \in Nat \ {0},
         NEW s \in 0 .. 1, NEW x \in 0 .. E - 1, NEW f \in 0 .. F - 1
  PROVE  LET n == Pattern(E, F, s, x, f)
         IN n \div (E * F) = s /\ (n \div F) % E = x /\ n % F = f
<1> DEFINE S == E * F
           n == Pattern(E, F, s, x, f)
           d == F * x + f
           q == E * s + x
<1>1. S \in Nat /\ S > 1 /\ d \in 0 .. S - 1
  BY BelowTheSign
<1>2. n = S * s + d
  <2>1. S * s = s * S /\ F * x = x * F /\ S * s \in Int /\ F * x \in Int
    BY <1>1
  <2> QED BY <2>1 DEF Pattern
<1>3. n = F * q + f
  <2>1. F * (E * s + x) = s * (E * F) + x * F
    OBVIOUS
  <2> QED BY <2>1 DEF Pattern
<1>4. q \in Nat
  <2>1. E * s \in Nat
    OBVIOUS
  <2> QED BY <2>1
<1> HIDE DEF S, n, d
<1>5. n \div S = s
  BY <1>1, <1>2, QuotientByAny
<1>6. q \div E = s /\ q % E = x
  BY QuotientByAny
<1> HIDE DEF q
<1>7. n \div F = q /\ n % F = f
  BY <1>3, <1>4, QuotientByAny
<1> QED BY <1>5, <1>6, <1>7 DEF S, n

\* What _convert_format makes of an exponent and of a fraction.
NewExponent(src, dst, x) ==
  LET bias == Power(2, dst.exp - 1)
  IN  IF x = Power(2, src.exp) - 1 THEN Power(2, dst.exp) - 1
      ELSE IF x = 0 THEN 0
      ELSE bias + Clamp(x - Power(2, src.exp - 1), 2 - bias, bias - 2)
NewFraction(src, dst, f) ==
  IF src.frac > dst.frac THEN f \div Power(2, src.frac - dst.frac)
  ELSE f * Power(2, dst.frac - src.frac)

LEMMA ConvertedParts ==
  ASSUME NEW src \in FloatTypes, NEW dst \in FloatTypes, NEW s \in 0 .. 1,
         NEW x \in 0 .. Power(2, src.exp) - 1, NEW f \in 0 .. Power(2, src.frac) - 1
  PROVE  Convert(src, dst, Pattern(Power(2, src.exp), Power(2, src.frac), s, x, f)) =
           Pattern(Power(2, dst.exp), Power(2, dst.frac), s,
                   NewExponent(src, dst, x), NewFraction(src, dst, f))
<1> DEFINE E == Power(2, src.exp)
           F == Power(2, src.frac)
           n == Pattern(E, F, s, x, f)
<1>1. E \in Nat /\ E > 1 /\ F \in Nat \ {0} /\ Power(2, src.exp + src.frac) = E * F
  BY FloatPowers
<1>2. Power(2, dst.exp + dst.frac) = Power(2, dst.exp) * Power(2, dst.frac)
  BY FloatPowers
<1>3. x \in 0 .. E - 1 /\ f \in 0 .. F - 1
  OBVIOUS
<1> HIDE DEF E, F
<1>4. n \div (E * F) = s /\ (n \div F) % E = x /\ n % F = f
  BY <1>1, <1>3, PartsOfPattern
<1> HIDE DEF n
<1>5. n \div Power(2, src.exp + src.frac) = s /\ Exponent(src, n) = x /\ n % Power(2, src.frac) = f
  BY <1>1, <1>4 DEF Exponent, E, F
<1>6. Convert(src, dst, n) = s * Power(2, dst.exp + dst.frac)
        + NewExponent(src, dst, x) * Power(2, dst.frac) + NewFraction(src, dst, f)
  BY ONLY <1>5 DEF Convert, NewExponent, NewFraction
<1> QED BY <1>2, <1>6 DEF Pattern, n, E, F

\* An exponent comes back from a format with no fewer bits of it, unless it is 1.
LEMMA ExponentsComeBack ==
  ASSUME NEW a \in FloatTypes, NEW b \in FloatTypes, a.exp <= b.exp,
         NEW x \in 0 .. Power(2, a.exp) - 1
  PROVE  /\ NewExponent(a, b, x) \in 0 .. Power(2, b.exp) - 1
         /\ NewExponent(b, a, NewExponent(a, b, x)) = IF x = 1 THEN 2 ELSE x
<1> DEFINE H == Power(2, a.exp - 1)
           K == Power(2, b.exp - 1)
           y == NewExponent(a, b, x)
<1>1. H \in Nat /\ H >= 2 /\ Power(2, a.exp) = 2 * H /\ K \in Nat /\ K >= 2
      /\ Power(2, b.exp) = 2 * K /\ a.exp \in Nat /\ b.exp \in Nat
  BY FloatPowers
<1>2. H <= K
  <2> DEFINE more == b.exp - a.exp
             G == Power(2, more)
  <2>1. more \in Nat /\ a.exp - 1 \in Nat /\ (a.exp - 1) + more = b.exp - 1
    <3>1. a.exp - 1 \in Nat
      <4> SUFFICES a.exp # 0
        BY <1>1
      <4> QED BY DEF FloatTypes, Float
    <3> QED BY <1>1, <3>1
  <2>2. K = H * G
    BY <2>1, PowerOfSum
  <2>3. G \in Nat \ {0}
    <3>1. 2 \in Nat \ {0}
      OBVIOUS
    <3> HIDE DEF more
    <3> QED BY <2>1, <3>1, PowerIs
  <2> DEFINE g == G - 1
  <2>4. g \in Nat /\ G = g + 1
    BY <2>3
  <2> HIDE DEF H, K, G, g
  <2>5. H * G = H * g + H /\ H * g \in Nat
    BY <2>4, <1>1
  <2> QED BY <2>2, <2>5, <1>1
<1>3. x \in 0 .. 2 * H - 1
  BY <1>1
<1>4. y = IF x = 2 * H - 1 THEN 2 * K - 1 ELSE IF x = 0 THEN 0
          ELSE K + Clamp(x - H, 2 - K, K - 2)
  BY <1>1 DEF NewExponent
<1>5. NewExponent(b, a, y) = IF y = 2 * K - 1 THEN 2 * H - 1 ELSE IF y = 0 THEN 0
                             ELSE H + Clamp(y - K, 2 - H, H - 2)
  BY <1>1 DEF NewExponent
<1> HIDE DEF H, K, y
<1>6. CASE x = 2 * H - 1
  <2>1. y = 2 * K - 1
    BY <1>4, <1>6
  <2> QED BY <2>1, <1>1, <1>5, <1>6 DEF y
<1>7. CASE x = 0
  <2>1. y = 0
    BY <1>1, <1>4, <1>7
  <2> QED BY <2>1, <1>1, <1>5, <1>7 DEF y
<1>8. CASE x \in 1 .. 2 * H - 2
  <2>1. x - H \in 1 - H .. H - 2 /\ y = K + Clamp(x - H, 2 - K, K - 2)
    BY <1>1, <1>3, <1>4, <1>8
  <2>2. CASE x = 1 /\ H = K
    <3>1. Clamp(x - H, 2 - K, K - 2) = 2 - K
      BY <2>2, <1>1 DEF Clamp
    <3>2. y = 2
      BY <2>1, <3>1, <1>1
    <3>3. Clamp(y - K, 2 - H, H - 2) = 2 - H
      BY <3>2, <2>2, <1>1 DEF Clamp
    <3>4. NewExponent(b, a, y) = 2
      BY <3>2, <3>3, <2>2, <1>1, <1>5
    <3> QED BY <3>2, <3>4, <2>2, <1>1 DEF y
  <2>3. CASE x # 1 \/ H # K
    <3>1. Clamp(x - H, 2 - K, K - 2) = x - H
      BY <2>1, <2>3, <1>1, <1>2, <1>8 DEF Clamp
    <3>2. y = K + (x - H)
      BY <2>1, <3>1
    <3>3. y \in 1 .. 2 * K - 2
      BY <3>2, <2>1, <2>3, <1>1, <1>2, <1>8
    <3>4. y - K = x - H
      BY <3>2, <1>1, <1>8
    <3>5. NewExponent(b, a, y) = H + Clamp(x - H, 2 - H, H - 2)
      BY <3>3, <3>4, <1>1, <1>5
    <3>6. Clamp(x - H, 2 - H, H - 2) = (IF x = 1 THEN 2 ELSE x) - H
      BY <1>1, <1>8 DEF Clamp
    <3>7. NewExponent(b, a, y) = IF x = 1 THEN 2 ELSE x
      BY <3>5, <3>6, <1>1, <1>8
    <3> QED BY <3>3, <3>7, <1>1 DEF y
  <2> QED BY <2>2, <2>3
<1>9. x = 2 * H - 1 \/ x = 0 \/ x \in 1 .. 2 * H - 2
  BY <1>1, <1>3
<1> QED BY <1>6, <1>7, <1>8, <1>9

\* A fraction comes back from a format with no fewer bits of it.
LEMMA FractionsComeBack ==
  ASSUME NEW a \in FloatTypes, NEW b \in FloatTypes, a.frac <= b.frac,
         NEW f \in 0 .. Power(2, a.frac) - 1
  PROVE  /\ NewFraction(a, b, f) \in 0 .. Power(2, b.frac) - 1
         /\ NewFraction(b, a, NewFraction(a, b, f)) = f
<1> DEFINE more == b.frac - a.frac
           G == Power(2, more)
           F == Power(2, a.frac)
<1>1. a.frac \in Nat /\ b.frac \in Nat /\ more \in Nat /\ a.frac + more = b.frac
      /\ F \in Nat \ {0}
  BY FloatPowers
<1>2. Power(2, b.frac) = F * G
  BY <1>1, PowerOfSum
<1>3. G \in Nat \ {0} /\ Power(2, 0) = 1
  <2>1. 2 \in Nat \ {0}
    OBVIOUS
  <2> HIDE DEF more
  <2> QED BY <1>1, <2>1, PowerIs
<1>4. NewFraction(a, b, f) = f * G
  BY <1>1 DEF NewFraction
<1>5. NewFraction(b, a, f * G) = IF more > 0 THEN (f * G) \div G ELSE (f * G) * Power(2, a.frac - b.frac)
  BY <1>1 DEF NewFraction
<1>6. a.frac - b.frac = 0 \/ more > 0
  BY <1>1
<1>7. more > 0 \/ G = 1
  <2> SUFFICES ASSUME more = 0 PROVE G = 1
    BY <1>1
  <2> QED BY <1>3
<1> HIDE DEF more, G
<1>8. f \in 0 .. F - 1 /\ f \in Nat /\ f * G \in Nat
  BY <1>1, <1>3
<1> HIDE DEF F
<1>9. f * G \in 0 .. F * G - 1
  <2> DEFINE g == F - f - 1
  <2>1. g \in Nat /\ F = f + 1 + g
    BY <1>1, <1>8
  <2> HIDE DEF g
  <2>2. F * G = f * G + G + g * G /\ g * G \in Nat
    BY <2>1, <1>3, <1>8
  <2> QED BY <2>2, <1>3, <1>8
<1>10. (f * G) \div G = f
  <2>1. f * G = G * f + 0 /\ 0 \in 0 .. G - 1
    BY <1>3, <1>8
  <2> QED BY <2>1, <1>3, <1>8, QuotientByAny
<1>11. NewFraction(b, a, f * G) = f
  <2>1. CASE more > 0
    BY <2>1, <1>5, <1>10
  <2>2. CASE ~(more > 0)
    <3>1. G = 1 /\ Power(2, a.frac - b.frac) = 1 /\ f * G = f
      BY <2>2, <1>3, <1>6, <1>7, <1>8
    <3> QED BY <3>1, <2>2, <1>5, <1>8
  <2> QED BY <2>1, <2>2
<1> QED BY <1>2, <1>4, <1>9, <1>11 DEF F

\* A pattern of a format comes back from any format that has at least as many bits of
\* exponent and of fraction (Double, where Python keeps it), unless its exponent is 1:
\* that comes back as 2, so that the float is twice as large.
THEOREM FloatsComeBack ==
  ASSUME NEW a \in FloatTypes, NEW b \in FloatTypes, a.exp <= b.exp, a.frac <= b.frac,
         NEW n \in 0 .. Power(2, a.bits) - 1
  PROVE  Convert(b, a, Convert(a, b, n)) =
           IF Exponent(a, n) = 1 THEN n + Power(2, a.frac) ELSE n
<1> DEFINE E == Power(2, a.exp)
           F == Power(2, a.frac)
           s == n \div (E * F)
           x == Exponent(a, n)
           f == n % F
           y == NewExponent(a, b, x)
           g == NewFraction(a, b, f)
           z == IF x = 1 THEN 2 ELSE x
<1>1. E \in Nat /\ E > 1 /\ F \in Nat \ {0} /\ Power(2, a.bits) = 2 * (E * F)
  BY FloatPowers
<1>2. x = (n \div F) % E
  BY DEF Exponent
<1> HIDE DEF E, F, x
<1>3. s \in 0 .. 1 /\ x \in 0 .. E - 1 /\ f \in 0 .. F - 1 /\ n = Pattern(E, F, s, x, f)
  <2>1. n \in 0 .. 2 * (E * F) - 1
    BY <1>1
  <2> QED BY <2>1, <1>1, <1>2, PatternHasParts
<1> HIDE DEF s, f
<1>4. Convert(a, b, n) = Pattern(Power(2, b.exp), Power(2, b.frac), s, y, g)
  BY <1>3, ConvertedParts DEF E, F
<1>5. y \in 0 .. Power(2, b.exp) - 1 /\ NewExponent(b, a, y) = z
  BY <1>3, ExponentsComeBack DEF E
<1>6. g \in 0 .. Power(2, b.frac) - 1 /\ NewFraction(b, a, g) = f
  BY <1>3, FractionsComeBack DEF F
<1> HIDE DEF y, g
<1>7. Convert(b, a, Pattern(Power(2, b.exp), Power(2, b.frac), s, y, g)) = Pattern(E, F, s, z, f)
  BY <1>3, <1>5, <1>6, ConvertedParts DEF E, F
<1>8. CASE x = 1
  <2>1. Pattern(E, F, s, 2, f) = Pattern(E, F, s, 1, f) + F
    <3> DEFINE S == s * (E * F)
    <3>1. S \in Int
      BY <1>1, <1>3
    <3> HIDE DEF S
    <3>2. S + 2 * F + f = (S + 1 * F + f) + F
      BY <3>1, <1>1, <1>3
    <3> QED BY <3>2 DEF Pattern, S
  <2> QED BY <2>1, <1>3, <1>4, <1>7, <1>8 DEF x, F
<1>9. CASE x # 1
  BY <1>3, <1>4, <1>7, <1>9 DEF x
<1> QED BY <1>8, <1>9 DEF x

=============================================================================
