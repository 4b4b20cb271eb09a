---------------------------- MODULE DeviceProofs ----------------------------
(***************************************************************************)
(* Proofs about a device.  DeviceRequests with one request at a time, the  *)
(* value of MAX_DEVICE_CONCURRENCY in the code, for any number of callers, *)
(* any priorities and any number of requests.  What the semaphore          *)
(* guarantees comes from PrioritySemaphoreProofs.                          *)
(* DeviceLifecycle, for any set of addresses and any number of tries,      *)
(* objects and calls: the database follows the events, however joins,      *)
(* initializations, quirks, removals and restarts interleave, because      *)
(* every event puts its callback into the queue in the same step: the last *)
(* one of them is what the table will come to.  And as long as no          *)
(* initialization goes astray, one object is at work and has the address:  *)
(* removals cancel it, and announcements replace nothing.                  *)
(***************************************************************************)
EXTENDS DeviceRequests, DeviceLifecycle, SequenceTheorems, TLAPS

\* The semaphore's theorems; those about its history are not needed.
SP == INSTANCE PrioritySemaphoreProofs
        WITH Tasks <- Callers, InitialMax <- MaxConcurrency, NewMaxValues <- {},
             cameBefore <- {}

OneAtATime == MaxConcurrency = 1
WindowFits == Window <= TsnModulus

-----------------------------------------------------------------------------
(* The semaphore of DeviceRequests is the one the theorems are about.      *)

\* Both instances of the semaphore count the entries of the heap alike.
LEMMA SameCardinality == \A S : Semaphore!Cardinality(S) = SP!Cardinality(S)
BY DEF Semaphore!Cardinality, SP!Cardinality

\* Both instances pop the same entries in _wake_up_next.
LEMMA SamePopped == \A k : Semaphore!Popped(k) = SP!Popped(k)
BY SameCardinality
   DEF Semaphore!Popped, SP!Popped, Semaphore!LiveBefore, SP!LiveBefore

\* Both instances wake the same waiters.
LEMMA SameWoken == \A k : Semaphore!Woken(k) = SP!Woken(k)
BY SamePopped DEF Semaphore!Woken, SP!Woken

\* Both instances push a waiter at the same place.
LEMMA SamePushed == \A t : Semaphore!Pushed(t) = SP!Pushed(t)
BY SameCardinality DEF Semaphore!Pushed, SP!Pushed

\* What a caller does to the device's semaphore is a step of the semaphore.
LEMMA SameTaskStep == \A t : Semaphore!TaskStep(t) => SP!TaskStep(t)
BY SameCardinality, SamePopped, SameWoken, SamePushed
   DEF Semaphore!TaskStep, SP!TaskStep, Semaphore!Resume, SP!Resume,
       Semaphore!MustWait, SP!MustWait, Semaphore!WakeUpNext, SP!WakeUpNext,
       Semaphore!AcquireAtOnce, SP!AcquireAtOnce, Semaphore!AcquireWait, SP!AcquireWait,
       Semaphore!ResumeEnter, SP!ResumeEnter, Semaphore!ResumeWait, SP!ResumeWait,
       Semaphore!ResumeCancelled, SP!ResumeCancelled,
       Semaphore!CancelPending, SP!CancelPending, Semaphore!CancelWoken, SP!CancelWoken,
       Semaphore!Release, SP!Release

\* Every step of a request is a step of the semaphore or leaves it alone.
THEOREM SemaphoreIsUsed == Spec => SP!Spec
<1>1. Init => SP!Init
  BY DEF Init, Semaphore!Init, SP!Init
<1>2. [Next]_vars => [SP!Next]_(SP!vars)
  <2> SUFFICES ASSUME [Next]_vars PROVE [SP!Next]_(SP!vars)
    OBVIOUS
  <2> USE DEF semVars, SP!vars
  <2>1. ASSUME NEW c \in Callers, Semaphore!TaskStep(c) PROVE SP!Next
    BY <2>1, SameTaskStep DEF SP!Next
  <2>2. ASSUME NEW c \in Callers, Exit(c) PROVE SP!Next
    BY <2>1, <2>2 DEF Exit, Semaphore!TaskStep
  <2>3. ASSUME NEW c \in Callers, CallerStep(c) PROVE [SP!Next]_(SP!vars)
    <3>1. CASE StartAtOnce(c) \/ StartQueued(c) \/ Enter(c) \/ Requeue(c)
                 \/ CancelQueued(c) \/ LeaveQueue(c)
      BY <2>1, <3>1 DEF StartAtOnce, StartQueued, Enter, Requeue, CancelQueued, LeaveQueue,
                        Semaphore!TaskStep, Semaphore!Resume
    <3>2. CASE SendDone(c) \/ SendFailed(c) \/ Finish(c)
      BY <2>2, <3>2 DEF SendDone, SendFailed, Finish
    <3>3. CASE Interrupt(c, "timeout") \/ Interrupt(c, "cancelled")
      BY <3>3 DEF Interrupt
    <3> QED BY <2>3, <3>1, <3>2, <3>3 DEF CallerStep
  <2>4. CASE DeviceStep
    BY <2>4 DEF DeviceStep, Answer, ReplyReceived, NotificationReceived, Dropped, Resolve
  <2>5. CASE UNCHANGED vars
    BY <2>5 DEF vars
  <2> QED BY <2>3, <2>4, <2>5 DEF Next
<1> QED BY <1>1, <1>2, PTL DEF Spec, SP!Spec

\* The assumptions of PrioritySemaphore hold of its use here.
LEMMA SemaphoreAssumptions ==
  SP!TasksFinite /\ SP!PrioritiesAreIntegers /\ SP!MaxValuesAreNaturals /\ SP!CancelChoice
<1>1. SP!TasksFinite
  BY CallersFinite DEF SP!IsFiniteSet, IsFiniteSet, SP!TasksFinite
<1>2. SP!PrioritiesAreIntegers
  BY CallersHavePriorities DEF SP!PrioritiesAreIntegers
<1>3. SP!MaxValuesAreNaturals
  BY SemaphoreParameters DEF SP!MaxValuesAreNaturals
<1>4. SP!CancelChoice
  BY SemaphoreParameters DEF SP!CancelChoice
<1> QED BY <1>1, <1>2, <1>3, <1>4

\* The inductive invariant of the semaphore holds in the device's semaphore.
LEMMA SemaphoreInvariant == Spec => []SP!IInv
<1>5. SP!Spec => []SP!IInv
  BY ONLY SP!IInvHolds, SemaphoreAssumptions
<1> QED BY <1>5, SemaphoreIsUsed, PTL

\* With MAX_DEVICE_CONCURRENCY = 1 one caller at a time is past the semaphore.
LEMMA SemaphoreExcludes == ASSUME OneAtATime PROVE Spec => []SP!Mutex
<1>5. MaxConcurrency = 1
  BY DEF OneAtATime
<1>6. SP!Spec => []SP!Mutex
  BY ONLY SP!MutualExclusion, SemaphoreAssumptions, <1>5
<1> QED BY <1>6, SemaphoreIsUsed, PTL

-----------------------------------------------------------------------------
(* What each use of the semaphore does to the places of the callers.       *)

Places == [Callers -> {"idle", "waiting", "woken", "cancelling", "holding"}]

\* Where the callers are in the semaphore.
LEMMA PlacesTyped == ASSUME SP!IInv PROVE pc \in Places
BY DEF SP!IInv, SP!TypeOK, Places

\* _wake_up_next wakes callers that wait.
LEMMA WokenPlaces ==
  ASSUME SP!IInv, NEW k \in Nat
  PROVE  \A u \in Semaphore!Woken(k) : pc[u] = "waiting"
<1>1. \A j \in Nat : \A u \in SP!Woken(j) : u \in Callers /\ pc[u] = "waiting"
  BY SP!WokenWereWaiting, SemaphoreAssumptions
<1> QED BY <1>1, SameWoken

\* release() takes the caller out, and lets in nobody by itself.
LEMMA ReleasePlaces ==
  ASSUME SP!IInv, NEW c \in Callers, Semaphore!Release(c)
  PROVE  /\ pc[c] = "holding" /\ pc'[c] = "idle"
         /\ \A d \in Callers \ {c} : /\ pc'[d] = "holding" <=> pc[d] = "holding"
                                     /\ pc'[d] = "idle" <=> pc[d] = "idle"
<1> DEFINE k == IF value >= maxValue THEN 0 ELSE 1
<1>1. /\ pc[c] = "holding"
      /\ pc' = [u \in Callers |-> IF u \in Semaphore!Woken(k) THEN "woken"
                                  ELSE IF u = c THEN "idle" ELSE pc[u]]
  BY DEF Semaphore!Release
<1>2. k \in Nat
  OBVIOUS
<1> HIDE DEF k
<1>3. \A u \in Semaphore!Woken(k) : pc[u] = "waiting"
  BY <1>2, WokenPlaces
<1> QED BY <1>1, <1>3, PlacesTyped DEF Places

\* A caller cancelled in the queue leaves, and nobody comes in by it.
LEMMA LeaveQueuePlaces ==
  ASSUME SP!IInv, NEW c \in Callers, Semaphore!ResumeCancelled(c)
  PROVE  /\ pc[c] = "cancelling" /\ pc'[c] = "idle"
         /\ \A d \in Callers \ {c} : /\ pc'[d] = "holding" <=> pc[d] = "holding"
                                     /\ pc'[d] = "idle" <=> pc[d] = "idle"
<1>1. /\ pc[c] = "cancelling"
      /\ pc' = [u \in Callers |-> IF u \in Semaphore!Woken(1) THEN "woken"
                                  ELSE IF u = c THEN "idle" ELSE pc[u]]
  BY DEF Semaphore!ResumeCancelled
<1>2. \A u \in Semaphore!Woken(1) : pc[u] = "waiting"
  BY WokenPlaces
<1> QED BY <1>1, <1>2, PlacesTyped DEF Places

-----------------------------------------------------------------------------
(* The invariant of the requests.                                          *)

TypeInv ==
  /\ last \in Nat
  /\ number \in [Callers -> Nat]
  /\ stage \in [Callers -> {"out", "sending", "awaiting", "rejected"}]
  /\ result \in [Callers -> [kind : Kinds, from : Nat]]
  /\ air \subseteq Nat

\* A caller is at the radio or waits for a reply exactly while it holds the
\* semaphore; Requests.new has not raised for anybody.
StageInv ==
  \A c \in Callers :
    /\ stage[c] \in {"sending", "awaiting"} <=> pc[c] = "holding"
    /\ stage[c] # "rejected"
    /\ stage[c] = "out" => result[c] = NoResult

PendingInv == PendingIsExact /\ \A s \in DOMAIN pending : pending[s] \in Expects

RInv == TypeInv /\ StageInv /\ PendingInv

\* What a future can hold.
LEMMA ResultsTyped ==
  /\ NoResult \in [kind : Kinds, from : Nat] /\ Cancelled \in [kind : Kinds, from : Nat]
  /\ Notification \in [kind : Kinds, from : Nat]
  /\ \A n \in Nat : Reply(n) \in [kind : Kinds, from : Nat]
                    /\ Garbled(n) \in [kind : Kinds, from : Nat]
BY DEF NoResult, Cancelled, Notification, Reply, Garbled, Kinds

\* Whoever is let in finds the table empty, and its TSN is not taken.
LEMMA BeginKeeps ==
  ASSUME RInv, SP!IInv, SP!Mutex', NEW c \in Callers, NEW n \in Nat,
         pc' = [pc EXCEPT ![c] = "holding"], pc[c] # "holding",
         number' \in [Callers -> Nat], number'[c] = n,
         last' \in Nat, air' \subseteq Nat, Begin(c, n)
  PROVE  RInv' /\ stage'[c] = "sending" /\ result'[c] = NoResult
               /\ \A d \in Callers \ {c} : result'[d] = result[d]
<1> USE DEF RInv
<1>0. pc \in Places
  BY PlacesTyped
<1>1. \A d \in Callers \ {c} : pc[d] # "holding"
  <2> SUFFICES ASSUME NEW d \in Callers \ {c}, pc[d] = "holding" PROVE FALSE
    OBVIOUS
  <2>1. pc'[d] = "holding" /\ pc'[c] = "holding"
    BY <1>0 DEF Places
  <2> QED BY <2>1 DEF SP!Mutex
<1>2. \A d \in Callers : stage[d] = "out" /\ result[d] = NoResult
  BY <1>1 DEF StageInv, TypeInv
<1>3. DOMAIN pending = {}
  <2> SUFFICES ASSUME NEW s \in DOMAIN pending PROVE FALSE
    OBVIOUS
  <2>1. pending[s] \in Callers
    BY CallersHavePriorities DEF PendingInv
  <2> QED BY <1>2, <2>1 DEF PendingInv, PendingIsExact
<1>4. stage' = [stage EXCEPT ![c] = "sending"]
  BY <1>3 DEF Begin
<1>5. /\ c \in Expects => /\ DOMAIN pending' = {Tsn(n)} /\ pending'[Tsn(n)] = c
                          /\ result' = [result EXCEPT ![c] = NoResult]
      /\ c \notin Expects => pending' = pending /\ result' = result
  BY <1>3 DEF Begin
<1>6. TypeInv'
  <2>1. result' \in [Callers -> [kind : Kinds, from : Nat]]
    BY <1>5, ResultsTyped DEF TypeInv
  <2>2. stage' \in [Callers -> {"out", "sending", "awaiting", "rejected"}]
    BY <1>4 DEF TypeInv
  <2> QED BY <2>1, <2>2 DEF TypeInv
<1>7. StageInv'
  BY <1>0, <1>1, <1>2, <1>4, <1>5 DEF StageInv, TypeInv, Places
<1>8. PendingInv'
  <2>1. CASE c \in Expects
    BY <1>2, <1>4, <1>5, <2>1 DEF PendingInv, PendingIsExact, TypeInv
  <2>2. CASE c \notin Expects
    BY <1>2, <1>3, <1>4, <1>5, <2>2 DEF PendingInv, PendingIsExact, TypeInv
  <2> QED BY <2>1, <2>2
<1>9. result'[c] = NoResult /\ \A d \in Callers \ {c} : result'[d] = result[d]
  BY <1>2, <1>5 DEF TypeInv
<1>10. stage'[c] = "sending"
  BY <1>4 DEF TypeInv
<1> QED BY <1>6, <1>7, <1>8, <1>9, <1>10

\* However a request ends, it takes its own entry with it and no other.
LEMMA ExitKeeps ==
  ASSUME RInv, SP!IInv, NEW c \in Callers, Exit(c)
  PROVE  RInv' /\ result'[c] = NoResult /\ \A d \in Callers \ {c} : result'[d] = result[d]
<1> USE DEF RInv
<1>0. pc \in Places
  BY PlacesTyped
<1>1. /\ pc[c] = "holding" /\ pc'[c] = "idle"
      /\ \A d \in Callers \ {c} : pc'[d] = "holding" <=> pc[d] = "holding"
  BY ReleasePlaces DEF Exit
<1>2. /\ stage' = [stage EXCEPT ![c] = "out"]
      /\ result' = [result EXCEPT ![c] = NoResult]
      /\ number' = number /\ last' = last /\ air' = air
  BY DEF Exit
<1>3. /\ c \in Expects => /\ DOMAIN pending' = DOMAIN pending \ {Tsn(number[c])}
                          /\ \A s \in DOMAIN pending' : pending'[s] = pending[s]
      /\ c \notin Expects => pending' = pending
  BY DEF Exit, StageInv
<1>4. TypeInv'
  BY <1>2, ResultsTyped DEF TypeInv
<1>5. StageInv'
  BY <1>1, <1>2 DEF StageInv, TypeInv
<1>6. \A s \in DOMAIN pending : pending[s] = c => s = Tsn(number[c]) /\ c \in Expects
  BY DEF PendingInv, PendingIsExact
<1>7. PendingInv'
  <2>1. \A s \in DOMAIN pending' : /\ s \in DOMAIN pending /\ pending'[s] = pending[s]
                                   /\ pending[s] # c /\ pending[s] \in Callers
    BY <1>3, <1>6, CallersHavePriorities DEF PendingInv
  <2>2. \A s \in DOMAIN pending' :
          /\ pending'[s] \in Expects
          /\ stage'[pending'[s]] \in {"sending", "awaiting"}
          /\ Tsn(number'[pending'[s]]) = s
    BY <1>2, <2>1 DEF PendingInv, PendingIsExact, TypeInv
  <2>3. ASSUME NEW d \in Callers, d \in Expects, stage'[d] \in {"sending", "awaiting"}
        PROVE  Tsn(number'[d]) \in DOMAIN pending' /\ pending'[Tsn(number'[d])] = d
    <3>1. d # c /\ stage[d] \in {"sending", "awaiting"}
      BY <1>2, <2>3 DEF TypeInv
    <3>2. Tsn(number[d]) \in DOMAIN pending /\ pending[Tsn(number[d])] = d
      BY <2>3, <3>1 DEF PendingInv, PendingIsExact
    <3>3. c \in Expects => Tsn(number[d]) # Tsn(number[c])
      BY <1>1, <3>1, <3>2 DEF StageInv, PendingInv, PendingIsExact
    <3> QED BY <1>2, <1>3, <3>2, <3>3
  <2> QED BY <2>2, <2>3 DEF PendingInv, PendingIsExact
<1>8. result'[c] = NoResult /\ \A d \in Callers \ {c} : result'[d] = result[d]
  BY <1>2 DEF TypeInv
<1> QED BY <1>4, <1>5, <1>7, <1>8

\* A new device has an empty table and no caller.
LEMMA InitRInv == Init => RInv
<1> SUFFICES ASSUME Init PROVE RInv
  OBVIOUS
<1>1. TypeInv
  BY ResultsTyped DEF Init, TypeInv
<1>2. StageInv
  BY DEF Init, Semaphore!Init, StageInv
<1>3. PendingInv
  BY DEF Init, PendingInv, PendingIsExact
<1> QED BY <1>1, <1>2, <1>3 DEF RInv

\* Every step of a caller or of the device keeps table and callers in agreement.
LEMMA NextRInv ==
  ASSUME RInv, SP!IInv, SP!Mutex', [Next]_vars
  PROVE  RInv'
<1> USE DEF RInv
<1>0. pc \in Places
  BY PlacesTyped
<1>1. ASSUME NEW c \in Callers, StartAtOnce(c) PROVE RInv'
  <2>1. /\ pc' = [pc EXCEPT ![c] = "holding"] /\ pc[c] # "holding"
        /\ number' = [number EXCEPT ![c] = last + 1] /\ last' = last + 1 /\ air' \subseteq air
        /\ Begin(c, last + 1)
    BY <1>1 DEF StartAtOnce, TakeSequence, Semaphore!AcquireAtOnce
  <2>2. last + 1 \in Nat /\ number' \in [Callers -> Nat] /\ number'[c] = last + 1
    BY <2>1 DEF TypeInv
  <2>3. last' \in Nat /\ air' \subseteq Nat
    BY <2>1, <2>2 DEF TypeInv
  <2> QED BY <2>1, <2>2, <2>3, BeginKeeps
<1>2. ASSUME NEW c \in Callers, StartQueued(c) PROVE RInv'
  <2>1. /\ pc' = [pc EXCEPT ![c] = "waiting"] /\ pc[c] = "idle"
        /\ number' = [number EXCEPT ![c] = last + 1] /\ last' = last + 1 /\ air' \subseteq air
        /\ UNCHANGED <<stage, pending, result>>
    BY <1>2 DEF StartQueued, TakeSequence, Semaphore!AcquireWait
  <2>2. stage[c] = "out"
    BY <2>1 DEF TypeInv, StageInv
  <2>3. TypeInv' /\ StageInv'
    BY <1>0, <2>1, <2>2 DEF TypeInv, StageInv, Places
  <2>4. \A d \in Callers : d # c => number'[d] = number[d]
    BY <2>1 DEF TypeInv
  <2>5. PendingInv'
    BY <2>1, <2>2, <2>4, CallersHavePriorities DEF PendingInv, PendingIsExact
  <2> QED BY <2>3, <2>5
<1>3. ASSUME NEW c \in Callers, Enter(c) PROVE RInv'
  <2>1. /\ pc' = [pc EXCEPT ![c] = "holding"] /\ pc[c] # "holding"
        /\ number' = number /\ last' = last /\ air' = air
        /\ Begin(c, number[c])
    BY <1>3 DEF Enter, Semaphore!ResumeEnter
  <2>2. number[c] \in Nat /\ number' \in [Callers -> Nat] /\ number'[c] = number[c]
        /\ last' \in Nat /\ air' \subseteq Nat
    BY <2>1 DEF TypeInv
  <2> QED BY <2>1, <2>2, BeginKeeps
<1>4. ASSUME NEW c \in Callers, Requeue(c) \/ CancelQueued(c) \/ LeaveQueue(c) PROVE RInv'
  <2>1. \A d \in Callers : pc'[d] = "holding" <=> pc[d] = "holding"
    <3>1. CASE Requeue(c)
      BY <1>0, <3>1 DEF Requeue, Semaphore!ResumeWait, Places
    <3>2. CASE CancelQueued(c)
      BY <1>0, <3>2 DEF CancelQueued, Semaphore!CancelPending, Semaphore!CancelWoken, Places
    <3>3. CASE LeaveQueue(c)
      BY <3>3, LeaveQueuePlaces DEF LeaveQueue
    <3> QED BY <1>4, <3>1, <3>2, <3>3
  <2>2. UNCHANGED <<last, number, stage, pending, result, air>>
    BY <1>4 DEF Requeue, CancelQueued, LeaveQueue
  <2> QED BY <2>1, <2>2 DEF TypeInv, StageInv, PendingInv, PendingIsExact
<1>5. ASSUME NEW c \in Callers, SendFailed(c) \/ Finish(c) PROVE RInv'
  BY <1>5, ExitKeeps DEF SendFailed, Finish
<1>6. ASSUME NEW c \in Callers, SendDone(c) PROVE RInv'
  <2>1. CASE Exit(c)
    BY <2>1, ExitKeeps
  <2>2. CASE /\ stage[c] = "sending" /\ stage' = [stage EXCEPT ![c] = "awaiting"]
             /\ UNCHANGED <<semVars, last, number, pending, result, air>>
    <3>1. stage'[c] = "awaiting" /\ \A d \in Callers \ {c} : stage'[d] = stage[d]
      BY <2>2 DEF TypeInv
    <3>2. TypeInv'
      BY <2>2 DEF TypeInv
    <3>3. StageInv'
      BY <2>2, <3>1 DEF semVars, StageInv
    <3>4. PendingInv'
      BY <2>2, <3>1, CallersHavePriorities DEF PendingInv, PendingIsExact
    <3> QED BY <3>2, <3>3, <3>4
  <2> QED BY <1>6, <2>1, <2>2 DEF SendDone
<1>7. ASSUME NEW c \in Callers, NEW w, Interrupt(c, w) PROVE RInv'
  <2>1. stage[c] # "out" /\ UNCHANGED <<semVars, last, number, stage, pending, air>>
    BY <1>7 DEF Interrupt
  <2>2. result' = [result EXCEPT ![c] = Cancelled] \/ result' = result
    BY <1>7 DEF Interrupt, TypeInv
  <2>3. TypeInv' /\ StageInv'
    BY <2>1, <2>2, ResultsTyped DEF semVars, TypeInv, StageInv
  <2>4. PendingInv'
    BY <2>1 DEF PendingInv, PendingIsExact
  <2> QED BY <2>3, <2>4
<1>8. CASE DeviceStep
  <2>1. ASSUME NEW s, NEW w \in [kind : Kinds, from : Nat], Resolve(s, w) PROVE RInv'
    <3>1. s \in DOMAIN pending /\ UNCHANGED <<semVars, last, number, stage, pending, air>>
      BY <2>1 DEF Resolve
    <3>2. pending[s] \in Callers /\ stage[pending[s]] # "out"
      BY <3>1, CallersHavePriorities DEF PendingInv, PendingIsExact
    <3>3. result' = [result EXCEPT ![pending[s]] = w] \/ result' = result
      BY <2>1, <3>2 DEF Resolve, TypeInv
    <3>4. TypeInv'
      BY <3>1, <3>2, <3>3 DEF TypeInv
    <3>6. \A d \in Callers : stage[d] = "out" => result'[d] = result[d]
      BY <3>1, <3>2, <3>3 DEF TypeInv
    <3>7. StageInv'
      BY <3>1, <3>6 DEF semVars, StageInv
    <3>8. PendingInv'
      BY <3>1 DEF PendingInv, PendingIsExact
    <3> QED BY <3>4, <3>7, <3>8
  <2>2. ASSUME NEW c \in Callers, Answer(c) PROVE RInv'
    <3>1. UNCHANGED <<semVars, last, number, stage, pending, result>>
      BY <2>2 DEF Answer
    <3>2. TypeInv'
      BY <2>2, <3>1 DEF Answer, TypeInv
    <3>3. StageInv' /\ PendingInv'
      BY <3>1 DEF semVars, StageInv, PendingInv, PendingIsExact
    <3> QED BY <3>2, <3>3
  <2>3. ASSUME NEW n \in air, ReplyReceived(n) PROVE RInv'
    <3>1. n \in Nat
      BY DEF TypeInv
    <3> QED BY <2>1, <2>3, <3>1, ResultsTyped DEF ReplyReceived
  <2>4. ASSUME NEW n \in air, Dropped(n) PROVE RInv'
    <3>1. UNCHANGED <<semVars, last, number, stage, pending, result>>
      BY <2>4 DEF Dropped
    <3>2. TypeInv'
      BY <2>4, <3>1 DEF Dropped, TypeInv
    <3>3. StageInv' /\ PendingInv'
      BY <3>1 DEF semVars, StageInv, PendingInv, PendingIsExact
    <3> QED BY <3>2, <3>3
  <2>5. ASSUME NEW s \in DOMAIN pending, NotificationReceived(s) PROVE RInv'
    BY <2>1, <2>5, ResultsTyped DEF NotificationReceived
  <2> QED BY <1>8, <2>2, <2>3, <2>4, <2>5 DEF DeviceStep
<1>9. CASE UNCHANGED vars
  BY <1>9 DEF vars, semVars, TypeInv, StageInv, PendingInv, PendingIsExact
<1> QED BY <1>1, <1>2, <1>3, <1>4, <1>5, <1>6, <1>7, <1>8, <1>9 DEF Next, CallerStep

\* The inductive invariant of the table of pending requests.
LEMMA RInvHolds == ASSUME OneAtATime PROVE Spec => []RInv
<1>1. RInv /\ SP!IInv /\ SP!Mutex' /\ [Next]_vars => RInv'
  BY NextRInv
<1> QED BY <1>1, InitRInv, SemaphoreInvariant, SemaphoreExcludes, PTL DEF Spec

\* The table of pending requests holds exactly the requests that are between
\* new() and __exit__, whatever ends them.
THEOREM PendingExact == ASSUME OneAtATime PROVE Spec => []PendingIsExact
<1>1. RInv => PendingIsExact
  BY DEF RInv, PendingInv
<1> QED BY <1>1, RInvHolds, PTL

\* Requests.new never finds its TSN taken.
THEOREM TsnNeverDuplicate == ASSUME OneAtATime PROVE Spec => []NoDuplicateTsn
<1>1. RInv => NoDuplicateTsn
  BY DEF RInv, StageInv, NoDuplicateTsn
<1> QED BY <1>1, RInvHolds, PTL

-----------------------------------------------------------------------------
(* Types of the requests, for any number of requests at a time.            *)

\* TypeOK without what the semaphore says of its own variables.
RequestTypeInv ==
  /\ TypeInv
  /\ interrupt \in [Callers -> {"none", "timeout", "cancelled"}]
  /\ DOMAIN pending \subseteq 0 .. TsnModulus - 1
  /\ \A s \in DOMAIN pending : pending[s] \in Callers

\* get_sequence() wraps around.
LEMMA TsnBelow == ASSUME NEW n \in Nat PROVE Tsn(n) \in 0 .. TsnModulus - 1
BY NumbersAreNaturals DEF Tsn

\* Whoever is let in gets the TSN of its number.
LEMMA BeginTyped ==
  ASSUME RequestTypeInv, NEW c \in Callers, NEW n \in Nat, Begin(c, n)
  PROVE  /\ stage' \in [Callers -> {"out", "sending", "awaiting", "rejected"}]
         /\ result' \in [Callers -> [kind : Kinds, from : Nat]]
         /\ DOMAIN pending' \subseteq 0 .. TsnModulus - 1
         /\ \A s \in DOMAIN pending' : pending'[s] \in Callers
<1>1. Tsn(n) \in 0 .. TsnModulus - 1
  BY TsnBelow
<1>2. CASE c \in Expects /\ Tsn(n) \in DOMAIN pending
  BY <1>2 DEF Begin, RequestTypeInv, TypeInv
<1>3. CASE ~(c \in Expects /\ Tsn(n) \in DOMAIN pending)
  <2>1. stage' = [stage EXCEPT ![c] = "sending"]
    BY <1>3 DEF Begin
  <2>2. CASE c \in Expects
    <3>1. /\ pending' = [s \in DOMAIN pending \cup {Tsn(n)} |->
                           IF s = Tsn(n) THEN c ELSE pending[s]]
          /\ result' = [result EXCEPT ![c] = NoResult]
      BY <1>3, <2>2 DEF Begin
    <3>2. /\ DOMAIN pending' \subseteq 0 .. TsnModulus - 1
          /\ \A s \in DOMAIN pending' : pending'[s] \in Callers
      BY <1>1, <3>1 DEF RequestTypeInv
    <3> QED BY <2>1, <3>1, <3>2, ResultsTyped DEF RequestTypeInv, TypeInv
  <2>3. CASE c \notin Expects
    BY <1>3, <2>1, <2>3 DEF Begin, RequestTypeInv, TypeInv
  <2> QED BY <2>2, <2>3
<1> QED BY <1>2, <1>3

\* Whoever leaves takes its entry out of the table.
LEMMA ExitTyped == ASSUME RequestTypeInv, NEW c \in Callers, Exit(c) PROVE RequestTypeInv'
<1>1. /\ stage' = [stage EXCEPT ![c] = "out"] /\ interrupt' = [interrupt EXCEPT ![c] = "none"]
      /\ result' = [result EXCEPT ![c] = NoResult] /\ UNCHANGED <<last, number, air>>
      /\ \/ pending' = pending
         \/ pending' = [s \in DOMAIN pending \ {Tsn(number[c])} |-> pending[s]]
  BY DEF Exit
<1>2. TypeInv'
  BY <1>1, ResultsTyped DEF RequestTypeInv, TypeInv
<1>3. /\ DOMAIN pending' \subseteq 0 .. TsnModulus - 1
      /\ \A s \in DOMAIN pending' : pending'[s] \in Callers
  BY <1>1 DEF RequestTypeInv
<1> QED BY <1>1, <1>2, <1>3 DEF RequestTypeInv

\* Every step keeps the types.
LEMMA NextRequestTypes == RequestTypeInv /\ [Next]_vars => RequestTypeInv'
<1> SUFFICES ASSUME RequestTypeInv, [Next]_vars PROVE RequestTypeInv'
  OBVIOUS
<1>1. ASSUME NEW c \in Callers, StartAtOnce(c) PROVE RequestTypeInv'
  <2>1. /\ Begin(c, last + 1) /\ last' = last + 1 /\ number' = [number EXCEPT ![c] = last + 1]
        /\ air' \subseteq air /\ UNCHANGED interrupt
    BY <1>1 DEF StartAtOnce, TakeSequence
  <2>2. last \in Nat /\ last + 1 \in Nat
    BY DEF RequestTypeInv, TypeInv
  <2> QED BY <2>1, <2>2, BeginTyped DEF RequestTypeInv, TypeInv
<1>2. ASSUME NEW c \in Callers, StartQueued(c) PROVE RequestTypeInv'
  <2>1. /\ last' = last + 1 /\ number' = [number EXCEPT ![c] = last + 1]
        /\ air' \subseteq air /\ UNCHANGED <<stage, interrupt, pending, result>>
    BY <1>2 DEF StartQueued, TakeSequence
  <2>2. last \in Nat /\ last + 1 \in Nat
    BY DEF RequestTypeInv, TypeInv
  <2> QED BY <2>1, <2>2 DEF RequestTypeInv, TypeInv
<1>3. ASSUME NEW c \in Callers, Enter(c) PROVE RequestTypeInv'
  <2>1. Begin(c, number[c]) /\ UNCHANGED <<last, number, interrupt, air>>
    BY <1>3 DEF Enter
  <2>2. number[c] \in Nat
    BY DEF RequestTypeInv, TypeInv
  <2> QED BY <2>1, <2>2, BeginTyped DEF RequestTypeInv, TypeInv
<1>4. ASSUME NEW c \in Callers, Requeue(c) \/ CancelQueued(c) \/ LeaveQueue(c)
      PROVE  RequestTypeInv'
  <2>1. UNCHANGED <<last, number, stage, interrupt, pending, result, air>>
    BY <1>4 DEF Requeue, CancelQueued, LeaveQueue
  <2> QED BY <2>1 DEF RequestTypeInv, TypeInv
<1>5. ASSUME NEW c \in Callers, Exit(c) PROVE RequestTypeInv'
  BY <1>5, ExitTyped
<1>6. ASSUME NEW c \in Callers, SendDone(c) \/ SendFailed(c) \/ Finish(c) PROVE RequestTypeInv'
  <2>1. CASE Exit(c)
    BY <2>1, <1>5
  <2>2. CASE /\ stage' = [stage EXCEPT ![c] = "awaiting"]
             /\ UNCHANGED <<last, number, interrupt, pending, result, air>>
    BY <2>2 DEF RequestTypeInv, TypeInv
  <2> QED BY <1>6, <2>1, <2>2 DEF SendDone, SendFailed, Finish
<1>7. ASSUME NEW c \in Callers, NEW w \in {"timeout", "cancelled"}, Interrupt(c, w)
      PROVE  RequestTypeInv'
  <2>1. UNCHANGED <<last, number, stage, pending, air>>
        /\ interrupt' = [interrupt EXCEPT ![c] = w]
    BY <1>7 DEF Interrupt
  <2>2. result' = [result EXCEPT ![c] = Cancelled] \/ result' = result
    BY <1>7 DEF Interrupt, RequestTypeInv, TypeInv
  <2>3. TypeInv'
    <3>1. TypeInv /\ Cancelled \in [kind : Kinds, from : Nat]
      BY ResultsTyped DEF RequestTypeInv
    <3> QED BY <2>1, <2>2, <3>1 DEF TypeInv
  <2>4. interrupt' \in [Callers -> {"none", "timeout", "cancelled"}]
    BY <2>1 DEF RequestTypeInv
  <2> QED BY <2>1, <2>3, <2>4 DEF RequestTypeInv
<1>8. CASE DeviceStep
  <2>1. ASSUME NEW s, NEW w \in [kind : Kinds, from : Nat], Resolve(s, w) PROVE RequestTypeInv'
    <3>1. /\ s \in DOMAIN pending /\ UNCHANGED <<last, number, stage, interrupt, pending, air>>
          /\ pending[s] \in Callers
      BY <2>1 DEF Resolve, RequestTypeInv
    <3>2. result' = [result EXCEPT ![pending[s]] = w] \/ result' = result
      BY <2>1, <3>1 DEF Resolve, RequestTypeInv, TypeInv
    <3> QED BY <3>1, <3>2 DEF RequestTypeInv, TypeInv
  <2>2. ASSUME NEW c \in Callers, Answer(c) PROVE RequestTypeInv'
    BY <2>2 DEF Answer, RequestTypeInv, TypeInv
  <2>3. ASSUME NEW n \in air, ReplyReceived(n) PROVE RequestTypeInv'
    <3>1. n \in Nat
      BY DEF RequestTypeInv, TypeInv
    <3> QED BY <2>1, <2>3, <3>1, ResultsTyped DEF ReplyReceived
  <2>4. ASSUME NEW n \in air, Dropped(n) PROVE RequestTypeInv'
    BY <2>4 DEF Dropped, RequestTypeInv, TypeInv
  <2>5. ASSUME NEW s \in DOMAIN pending, NotificationReceived(s) PROVE RequestTypeInv'
    BY <2>1, <2>5, ResultsTyped DEF NotificationReceived
  <2> QED BY <1>8, <2>2, <2>3, <2>4, <2>5 DEF DeviceStep
<1>9. CASE UNCHANGED vars
  BY <1>9 DEF vars, RequestTypeInv, TypeInv
<1> QED BY <1>1, <1>2, <1>3, <1>4, <1>6, <1>7, <1>8, <1>9 DEF Next, CallerStep

\* Whatever replies, interruptions and notifications come, and in whatever order,
\* every entry of the table of pending requests is a TSN with its caller.
THEOREM RequestTypes == Spec => []TypeOK
<1>1. Init => RequestTypeInv
  BY ResultsTyped DEF Init, RequestTypeInv, TypeInv
<1>2. SP!IInv => Semaphore!TypeOK
  BY DEF SP!IInv, SP!TypeOK, Semaphore!TypeOK, SP!Entries, Semaphore!Entries
<1>3. RequestTypeInv /\ Semaphore!TypeOK => TypeOK
  BY DEF RequestTypeInv, TypeInv, TypeOK
<1> QED BY <1>1, <1>2, <1>3, NextRequestTypes, SemaphoreInvariant, PTL DEF Spec

-----------------------------------------------------------------------------
(* Replies.                                                                *)

\* Two numbers that are less than m apart have different residues.
LEMMA ResiduesDiffer ==
  ASSUME NEW a \in Nat, NEW b \in Nat, NEW m \in Nat \ {0},
         a % m = b % m, a - b < m, b - a < m
  PROVE  a = b
<1>1. a = m * (a \div m) + (a % m) /\ (a \div m) \in Int /\ (a % m) \in Int
  BY Z3
<1>2. b = m * (b \div m) + (b % m) /\ (b \div m) \in Int
  BY Z3
<1> DEFINE x == (a \div m) - (b \div m)
<1>3. x \in Int /\ a - b = m * x
  BY <1>1, <1>2
<1> HIDE DEF x
<1>4. x = 0
  BY <1>3
<1> QED BY <1>3, <1>4

\* No number is above the latest one, and what is on the air is recent.
AgeInv ==
  /\ \A c \in Callers : number[c] <= last
  /\ \A n \in air : n <= last /\ Recent(n)

\* No request has been made, and no reply is under way.
LEMMA InitAgeInv == Init => AgeInv
BY DEF Init, AgeInv

\* With a new request the replies that are not recent any more die out; no other step
\* makes a request older.
LEMMA NextAgeInv == ASSUME RInv, AgeInv, [Next]_vars PROVE AgeInv'
<1> USE DEF AgeInv, Recent
<1>0. last \in Nat /\ number \in [Callers -> Nat] /\ air \subseteq Nat
      /\ Window \in Nat \ {0}
  BY NumbersAreNaturals DEF RInv, TypeInv
<1>1. ASSUME NEW c \in Callers, TakeSequence(c) PROVE AgeInv'
  <2>1. /\ last' = last + 1 /\ number' = [number EXCEPT ![c] = last + 1]
        /\ air' = {n \in air : last + 1 - n < Window}
    BY <1>1 DEF TakeSequence
  <2>2. \A d \in Callers : number'[d] <= last'
    BY <1>0, <2>1
  <2>3. \A n \in air' : n <= last' /\ last' - n < Window
    BY <1>0, <2>1
  <2> QED BY <2>2, <2>3
<1>2. ASSUME UNCHANGED <<last, number>>, air' \subseteq air PROVE AgeInv'
  BY <1>2
<1>3. ASSUME NEW c \in Callers, StartAtOnce(c) \/ StartQueued(c) PROVE AgeInv'
  BY <1>1, <1>3 DEF StartAtOnce, StartQueued
<1>4. ASSUME NEW c \in Callers, Enter(c) \/ Requeue(c) \/ CancelQueued(c) \/ LeaveQueue(c)
      PROVE  AgeInv'
  BY <1>2, <1>4 DEF Enter, Requeue, CancelQueued, LeaveQueue
<1>5. ASSUME NEW c \in Callers, SendDone(c) \/ SendFailed(c) \/ Finish(c)
      PROVE  AgeInv'
  BY <1>2, <1>5 DEF SendDone, SendFailed, Finish, Exit
<1>6. ASSUME NEW c \in Callers, NEW w, Interrupt(c, w) PROVE AgeInv'
  BY <1>2, <1>6 DEF Interrupt
<1>7. ASSUME NEW c \in Callers, Answer(c) PROVE AgeInv'
  <2>1. Recent(number[c]) /\ air' = air \cup {number[c]} /\ UNCHANGED <<last, number>>
    BY <1>7 DEF Answer
  <2> QED BY <2>1
<1>8. CASE \/ \E n \in air : ReplyReceived(n) \/ Dropped(n)
           \/ \E s \in DOMAIN pending : NotificationReceived(s)
  BY <1>2, <1>8 DEF ReplyReceived, Dropped, NotificationReceived, Resolve
<1>9. CASE UNCHANGED vars
  BY <1>2, <1>9 DEF vars
<1> QED BY <1>3, <1>4, <1>5, <1>6, <1>7, <1>8, <1>9 DEF Next, CallerStep, DeviceStep

\* Replies under way are those of the last Window requests.
LEMMA AgeInvHolds == ASSUME OneAtATime PROVE Spec => []AgeInv
<1>1. RInv /\ AgeInv /\ [Next]_vars => AgeInv'
  BY NextAgeInv
<1> QED BY <1>1, InitAgeInv, RInvHolds, PTL DEF Spec

\* The pending request of reply n's TSN is request n, if it is recent.
LEMMA ReplyFindsRequest ==
  ASSUME RInv, AgeInv, WindowFits, NEW n \in air, Tsn(n) \in DOMAIN pending
  PROVE  /\ pending[Tsn(n)] \in Callers
         /\ Recent(number[pending[Tsn(n)]]) => number[pending[Tsn(n)]] = n
<1> DEFINE c == pending[Tsn(n)]
<1>1. c \in Callers /\ stage[c] \in {"sending", "awaiting"} /\ Tsn(number[c]) = Tsn(n)
  BY CallersHavePriorities DEF RInv, PendingInv, PendingIsExact
<1> HIDE DEF c
<1>2. SUFFICES ASSUME Recent(number[c]) PROVE number[c] = n
  BY <1>1 DEF c
<1>3. /\ n \in Nat /\ number[c] \in Nat /\ last \in Nat
      /\ TsnModulus \in Nat \ {0} /\ Window \in Nat \ {0}
  BY <1>1, NumbersAreNaturals DEF RInv, TypeInv
<1>4. /\ n <= last /\ last - n < Window
      /\ number[c] <= last /\ last - number[c] < Window
  BY <1>1, <1>2 DEF AgeInv, Recent
<1>5. n - number[c] < TsnModulus /\ number[c] - n < TsnModulus
  BY <1>3, <1>4 DEF WindowFits
<1>6. n % TsnModulus = number[c] % TsnModulus
  BY <1>1 DEF Tsn
<1> QED BY <1>3, <1>5, <1>6, ResiduesDiffer

\* A caller whose future says what it said, or nothing about a reply.
Silent(r) == r.kind \notin {"reply", "garbled"}

\* Neither an empty or cancelled future nor a report claims to be a reply.
LEMMA SilentResults == Silent(NoResult) /\ Silent(Cancelled) /\ Silent(Notification)
BY DEF Silent, NoResult, Cancelled, Notification

\* No step of packet_received or of a caller gives a request another one's reply.
LEMMA NextReplies ==
  ASSUME RInv, SP!IInv, SP!Mutex', AgeInv, WindowFits, RepliesReachTheirRequest, [Next]_vars
  PROVE  RepliesReachTheirRequest'
<1>0. pc \in Places /\ number \in [Callers -> Nat] /\ last \in Nat /\ air \subseteq Nat
      /\ result \in [Callers -> [kind : Kinds, from : Nat]]
  BY PlacesTyped DEF RInv, TypeInv
<1>1. ASSUME NEW c \in Callers, Silent(result'[c]), last' \in {last, last + 1},
             \A d \in Callers \ {c} : result'[d] = result[d] /\ number'[d] = number[d]
      PROVE  RepliesReachTheirRequest'
  <2>1. Window \in Nat /\ \A d \in Callers : number[d] \in Nat
    BY <1>0, NumbersAreNaturals
  <2>2. \A d \in Callers \ {c} : Recent(number[d])' => Recent(number[d])
    BY <1>0, <1>1, <2>1 DEF Recent
  <2> QED BY <1>1, <2>2 DEF RepliesReachTheirRequest, Silent
<1>2. ASSUME UNCHANGED <<last, number, result>> PROVE RepliesReachTheirRequest'
  BY <1>2 DEF RepliesReachTheirRequest, Recent
<1>3. ASSUME NEW c \in Callers, StartAtOnce(c) PROVE RepliesReachTheirRequest'
  <2>1. /\ pc' = [pc EXCEPT ![c] = "holding"] /\ pc[c] # "holding"
        /\ number' = [number EXCEPT ![c] = last + 1] /\ last' = last + 1 /\ air' \subseteq air
        /\ Begin(c, last + 1)
    BY <1>3 DEF StartAtOnce, TakeSequence, Semaphore!AcquireAtOnce
  <2>2. last + 1 \in Nat /\ number' \in [Callers -> Nat] /\ number'[c] = last + 1
        /\ \A d \in Callers \ {c} : number'[d] = number[d]
    BY <1>0, <2>1
  <2>3. last' \in Nat /\ air' \subseteq Nat
    BY <1>0, <2>1, <2>2
  <2>4. result'[c] = NoResult /\ \A d \in Callers \ {c} : result'[d] = result[d]
    BY <2>1, <2>2, <2>3, BeginKeeps
  <2> QED BY <1>1, <2>1, <2>2, <2>4, SilentResults
<1>4. ASSUME NEW c \in Callers, StartQueued(c) PROVE RepliesReachTheirRequest'
  <2>1. /\ pc[c] = "idle" /\ number' = [number EXCEPT ![c] = last + 1] /\ result' = result
        /\ last' = last + 1
    BY <1>4 DEF StartQueued, TakeSequence, Semaphore!AcquireWait
  <2>2. result[c] = NoResult
    BY <2>1 DEF RInv, TypeInv, StageInv
  <2>3. \A d \in Callers \ {c} : result'[d] = result[d] /\ number'[d] = number[d]
    BY <1>0, <2>1
  <2> QED BY <1>1, <2>1, <2>2, <2>3, SilentResults
<1>5. ASSUME NEW c \in Callers, Enter(c) PROVE RepliesReachTheirRequest'
  <2>1. /\ pc' = [pc EXCEPT ![c] = "holding"] /\ pc[c] # "holding"
        /\ number' = number /\ last' = last /\ air' = air
        /\ Begin(c, number[c])
    BY <1>5 DEF Enter, Semaphore!ResumeEnter
  <2>2. number[c] \in Nat /\ number' \in [Callers -> Nat] /\ number'[c] = number[c]
        /\ last' \in Nat /\ air' \subseteq Nat
    BY <1>0, <2>1
  <2>3. result'[c] = NoResult /\ \A d \in Callers \ {c} : result'[d] = result[d]
    BY <2>1, <2>2, BeginKeeps
  <2> QED BY <1>1, <2>1, <2>3, SilentResults
<1>6. ASSUME NEW c \in Callers, Requeue(c) \/ CancelQueued(c) \/ LeaveQueue(c) \/ Answer(c)
      PROVE  RepliesReachTheirRequest'
  BY <1>2, <1>6 DEF Requeue, CancelQueued, LeaveQueue, Answer
<1>7. ASSUME NEW c \in Callers, Exit(c) PROVE RepliesReachTheirRequest'
  <2>1. result'[c] = NoResult /\ \A d \in Callers \ {c} : result'[d] = result[d]
    BY <1>7, ExitKeeps
  <2>2. number' = number /\ last' = last
    BY <1>7 DEF Exit
  <2> QED BY <1>1, <2>1, <2>2, SilentResults
<1>8. ASSUME NEW c \in Callers, SendDone(c) \/ SendFailed(c) \/ Finish(c)
      PROVE  RepliesReachTheirRequest'
  BY <1>2, <1>7, <1>8 DEF SendDone, SendFailed, Finish
<1>9. ASSUME NEW c \in Callers, NEW w, Interrupt(c, w) PROVE RepliesReachTheirRequest'
  <2>1. /\ number' = number /\ last' = last
        /\ result' = [result EXCEPT ![c] = Cancelled] \/ result' = result
    BY <1>0, <1>9 DEF Interrupt
  <2>2. CASE result' = [result EXCEPT ![c] = Cancelled]
    <3>1. result'[c] = Cancelled /\ \A d \in Callers \ {c} : result'[d] = result[d]
      BY <1>0, <2>2
    <3> QED BY <1>1, <2>1, <3>1, SilentResults
  <2> QED BY <1>2, <2>1, <2>2
<1>10. ASSUME NEW n \in air, ReplyReceived(n) PROVE RepliesReachTheirRequest'
  <2> DEFINE c == pending[Tsn(n)]
  <2>1. /\ Tsn(n) \in DOMAIN pending /\ number' = number /\ last' = last
        /\ \/ result' = [result EXCEPT ![c] = IF @ = NoResult THEN Reply(n) ELSE @]
           \/ result' = [result EXCEPT ![c] = IF @ = NoResult THEN Garbled(n) ELSE @]
    BY <1>10 DEF ReplyReceived, Resolve
  <2>2. c \in Callers /\ (Recent(number[c]) => number[c] = n)
    BY <2>1, ReplyFindsRequest
  <2> HIDE DEF c
  <2>3. /\ \A d \in Callers \ {c} : result'[d] = result[d]
        /\ result'[c] = result[c] \/ result'[c] = Reply(n) \/ result'[c] = Garbled(n)
    BY <1>0, <2>1, <2>2
  <2>4. Reply(n).from = n /\ Garbled(n).from = n
    BY DEF Reply, Garbled
  <2> QED BY <2>1, <2>2, <2>3, <2>4 DEF RepliesReachTheirRequest, Recent
<1>11. ASSUME NEW s \in DOMAIN pending, NotificationReceived(s) PROVE RepliesReachTheirRequest'
  <2>1. pending[s] \in Callers
    BY CallersHavePriorities DEF RInv, PendingInv
  <2>2. /\ number' = number /\ last' = last
        /\ \A d \in Callers \ {pending[s]} : result'[d] = result[d]
        /\ result'[pending[s]] = result[pending[s]] \/ result'[pending[s]] = Notification
    BY <1>0, <1>11, <2>1 DEF NotificationReceived, Resolve
  <2>3. CASE result'[pending[s]] = Notification
    BY <1>1, <2>1, <2>2, <2>3, SilentResults
  <2>4. CASE result'[pending[s]] = result[pending[s]]
    BY <2>2, <2>4 DEF RepliesReachTheirRequest, Recent
  <2> QED BY <2>2, <2>3, <2>4
<1>12. ASSUME NEW n \in air, Dropped(n) PROVE RepliesReachTheirRequest'
  BY <1>2, <1>12 DEF Dropped
<1>13. CASE UNCHANGED vars
  BY <1>2, <1>13 DEF vars
<1> QED BY <1>3, <1>4, <1>5, <1>6, <1>8, <1>9, <1>10, <1>11, <1>12, <1>13
        DEF Next, CallerStep, DeviceStep

\* A reply completes the request it answers and no other, however the sequence numbers
\* wrap around, when replies older than one round of them are gone, and the request did
\* not have to wait for its turn that long itself.
THEOREM RepliesOwn == ASSUME OneAtATime, WindowFits PROVE Spec => []RepliesReachTheirRequest
<1>1. Init => RepliesReachTheirRequest
  BY DEF Init, RepliesReachTheirRequest, NoResult
<1>2. RInv /\ SP!IInv /\ SP!Mutex' /\ AgeInv /\ RepliesReachTheirRequest /\ [Next]_vars
        => RepliesReachTheirRequest'
  BY NextReplies
<1> QED BY <1>1, <1>2, RInvHolds, AgeInvHolds, SemaphoreInvariant, SemaphoreExcludes, PTL
        DEF Spec

-----------------------------------------------------------------------------
(* The life of a device.                                                   *)

\* The callbacks the listener gets are operations.
LEMMA OperationsTyped ==
  /\ \A nwk \in Nwks : SaveNwk(nwk) \in Operation
  /\ \A o \in Nat : SaveDevice(o) \in Operation
  /\ DeleteDevice \in Operation
BY DEF SaveNwk, SaveDevice, DeleteDevice, Operation

\* What the queue may hold when there are n objects.
QueueOK(q, n) ==
  /\ q \in Seq(Operation)
  /\ \A i \in DOMAIN q :
       /\ q[i].op = "save" => q[i].of \in 1 .. n
       /\ q[i].op = "nwk" => q[i].nwk \in Nwks

\* A callback is appended to the queue, and there may be more objects.
LEMMA QueueGrows ==
  ASSUME NEW q, NEW n \in Nat, NEW m \in Nat, n <= m, QueueOK(q, n)
  PROVE  /\ QueueOK(q, m)
         /\ \A nwk \in Nwks : QueueOK(Append(q, SaveNwk(nwk)), m)
         /\ \A o \in 1 .. m : QueueOK(Append(q, SaveDevice(o)), m)
         /\ QueueOK(Append(q, DeleteDevice), m)
<1> USE DEF QueueOK
<1>1. QueueOK(q, m)
  OBVIOUS
<1>2. ASSUME NEW e \in Operation,
             e.op = "save" => e.of \in 1 .. m, e.op = "nwk" => e.nwk \in Nwks
      PROVE  QueueOK(Append(q, e), m)
  <2>1. Append(q, e) \in Seq(Operation) /\ Len(Append(q, e)) = Len(q) + 1
    BY <1>1
  <2>2. ASSUME NEW i \in 1 .. Len(q) + 1
        PROVE  Append(q, e)[i] = IF i = Len(q) + 1 THEN e ELSE q[i]
    BY <1>1
  <2> QED BY <1>1, <1>2, <2>1, <2>2
<1>3. ASSUME NEW nwk \in Nwks PROVE QueueOK(Append(q, SaveNwk(nwk)), m)
  BY <1>2, OperationsTyped DEF SaveNwk
<1>4. ASSUME NEW o \in 1 .. m PROVE QueueOK(Append(q, SaveDevice(o)), m)
  BY <1>2, OperationsTyped DEF SaveDevice
<1>5. QueueOK(Append(q, DeleteDevice), m)
  BY <1>2, OperationsTyped DEF DeleteDevice
<1> QED BY <1>1, <1>3, <1>4, <1>5

\* The worker takes the first callback.
LEMMA QueueShrinks ==
  ASSUME NEW q, NEW n \in Nat, QueueOK(q, n), q # <<>>
  PROVE  QueueOK(Tail(q), n)
<1>1. /\ q \in Seq(Operation) /\ Tail(q) \in Seq(Operation) /\ Len(Tail(q)) = Len(q) - 1
      /\ \A i \in 1 .. Len(q) - 1 : Tail(q)[i] = q[i + 1]
  BY DEF QueueOK
<1> QED BY <1>1 DEF QueueOK

\* What the database may hold.
RowOK(r) == r \in Row /\ (r.present => r.nwk \in Nwks)

\* LifecycleTypeOK in parts.
LifeTyped ==
  /\ objects \in Seq(Object)
  /\ dev \in 0 .. Len(objects)
  /\ removals \in Nat
  /\ told \in {"none", "joined", "initialized", "failed", "removed"}
  /\ QueueOK(queue, Len(objects))
  /\ RowOK(row)
  /\ hasQuirk \in {"never", "model", "always"}
  /\ unpopped \in BOOLEAN /\ astray \in BOOLEAN
  /\ calls \in 0 .. MaxCalls

\* device_initialized keeps the types, whoever calls it.
LEMMA DeviceInitializedTyped ==
  ASSUME NEW objs \in Seq(Object), NEW o \in 1 .. Len(objs), NEW ops,
         QueueOK(ops, Len(objs)), DeviceInitialized(o, objs, ops)
  PROVE  /\ objects' \in Seq(Object) /\ dev' \in 1 .. Len(objects')
         /\ QueueOK(queue', Len(objects')) /\ told' = "initialized"
<1> DEFINE quirk == [objs[o] EXCEPT !.quirk = TRUE, !.task = "idle"]
<1>1. objs[o] \in Object
  OBVIOUS
<1>2. quirk \in Object
  BY <1>1 DEF Object
<1> HIDE DEF quirk
<1>3. \/ objects' = objs /\ dev' = o
      \/ objects' = Append(objs, quirk) /\ dev' = Len(objs) + 1
  BY DEF DeviceInitialized, quirk
<1>4. /\ objects' \in Seq(Object) /\ dev' \in 1 .. Len(objects')
      /\ Len(objects') \in Nat /\ Len(objs) \in Nat /\ Len(objs) <= Len(objects')
      /\ o \in 1 .. Len(objects')
  BY <1>2, <1>3
<1>5. QueueOK(queue', Len(objects'))
  BY <1>4, QueueGrows DEF DeviceInitialized
<1> QED BY <1>4, <1>5 DEF DeviceInitialized

\* An object of the sequence may be replaced by another one.
LEMMA ObjectReplaced ==
  ASSUME NEW objs \in Seq(Object), NEW o \in 1 .. Len(objs), NEW x \in Object
  PROVE  /\ [objs EXCEPT ![o] = x] \in Seq(Object)
         /\ Len([objs EXCEPT ![o] = x]) = Len(objs)
BY ExceptSeq

\* What the steps of a task make of an object is an object.
LEMMA ObjectUpdated ==
  ASSUME NEW x \in Object
  PROVE  /\ [x EXCEPT !.task = "running", !.tries = MaxTries] \in Object
         /\ [x EXCEPT !.asked = TRUE, !.task = "idle"] \in Object
         /\ [x EXCEPT !.task = "idle"] \in Object
         /\ [x EXCEPT !.task = "cancelling"] \in Object
         /\ x.progress < 3 => [x EXCEPT !.progress = x.progress + 1] \in Object
         /\ x.tries > 1 => [x EXCEPT !.tries = x.tries - 1] \in Object
         /\ \A nwk \in Nwks : [x EXCEPT !.nwk = nwk] \in Object
<1>1. MaxTries \in 0 .. MaxTries
  BY TriesArePositive
<1> USE DEF Object
<1>2. [x EXCEPT !.task = "running", !.tries = MaxTries] \in Object
  BY <1>1
<1>3. x.progress < 3 => [x EXCEPT !.progress = x.progress + 1] \in Object
  <2>1. x.progress \in 0 .. 3
    OBVIOUS
  <2>2. x.progress < 3 => x.progress + 1 \in 0 .. 3
    BY <2>1
  <2> QED BY <2>2
<1>4. x.tries > 1 => [x EXCEPT !.tries = x.tries - 1] \in Object
  <2>1. x.tries \in 0 .. MaxTries
    OBVIOUS
  <2>2. x.tries > 1 => x.tries - 1 \in 0 .. MaxTries
    BY <2>1, TriesArePositive
  <2> QED BY <2>2
<1>5. [x EXCEPT !.asked = TRUE, !.task = "idle"] \in Object
  OBVIOUS
<1>6. [x EXCEPT !.task = "idle"] \in Object /\ [x EXCEPT !.task = "cancelling"] \in Object
  OBVIOUS
<1>7. \A nwk \in Nwks : [x EXCEPT !.nwk = nwk] \in Object
  OBVIOUS
<1> QED BY <1>2, <1>3, <1>4, <1>5, <1>6, <1>7

\* schedule_initialize keeps the types, whoever calls it.
LEMMA ScheduleTyped ==
  ASSUME LifeTyped, NEW objs \in Seq(Object), NEW o \in 1 .. Len(objs), NEW ops,
         QueueOK(ops, Len(objs)), calls' \in 0 .. MaxCalls,
         NEW event \in {"none", "joined", "initialized", "failed", "removed"},
         ScheduleInitialize(o, objs, ops, event)
  PROVE  LifeTyped'
<1>1. /\ removals' = removals /\ row' = row /\ hasQuirk' = hasQuirk
      /\ unpopped' \in BOOLEAN /\ astray' \in BOOLEAN
  BY DEF ScheduleInitialize, LifeTyped
<1>2. ASSUME objects' \in Seq(Object), dev' \in 1 .. Len(objects'),
             QueueOK(queue', Len(objects')),
             told' \in {"none", "joined", "initialized", "failed", "removed"}
      PROVE  LifeTyped'
  <2>1. dev' \in 0 .. Len(objects')
    BY <1>2
  <2> QED BY <1>1, <1>2, <2>1 DEF LifeTyped, QueueOK
<1>3. CASE DeviceInitialized(o, objs, ops)
  <2>1. /\ objects' \in Seq(Object) /\ dev' \in 1 .. Len(objects')
        /\ QueueOK(queue', Len(objects')) /\ told' = "initialized"
    BY <1>3, DeviceInitializedTyped
  <2> QED BY <1>2, <2>1
<1>4. CASE /\ objects' = [objs EXCEPT ![o] = [@ EXCEPT !.task = "running", !.tries = MaxTries]]
           /\ dev' = o /\ queue' = ops /\ told' = event
  <2>1. objs[o] \in Object
    OBVIOUS
  <2>2. [objs[o] EXCEPT !.task = "running", !.tries = MaxTries] \in Object
    BY <2>1, ObjectUpdated
  <2>3. objects' \in Seq(Object) /\ Len(objects') = Len(objs)
    BY <1>4, <2>2, ObjectReplaced
  <2> QED BY <1>2, <1>4, <2>3
<1> QED BY <1>3, <1>4 DEF ScheduleInitialize
\* At the start there is nothing that could have a wrong type.
LEMMA InitTyped == LifecycleInit => LifeTyped
<1> SUFFICES ASSUME LifecycleInit PROVE LifeTyped
  OBVIOUS
<1>1. objects \in Seq(Object) /\ Len(objects) = 0
  BY DEF LifecycleInit
<1>2. QueueOK(queue, Len(objects))
  BY DEF LifecycleInit, QueueOK
<1>3. RowOK(row)
  BY DEF LifecycleInit, NoRow, Row, RowOK, Nowhere
<1>4. dev \in 0 .. Len(objects) /\ calls \in 0 .. MaxCalls
  BY <1>1, BoundsAreNaturals DEF LifecycleInit
<1> QED BY <1>1, <1>2, <1>3, <1>4 DEF LifecycleInit, LifeTyped

\* The joins and the packets that schedule an initialization keep the types.
LEMMA JoinsTyped ==
  ASSUME LifeTyped,
         \/ \E nwk \in Nwks : JoinNew(nwk) \/ JoinMoved(nwk)
         \/ JoinAgain \/ PacketReceived
  PROVE  LifeTyped'
<1>1. /\ objects \in Seq(Object) /\ Len(objects) \in Nat
      /\ dev \in 0 .. Len(objects) /\ QueueOK(queue, Len(objects))
      /\ told \in {"none", "joined", "initialized", "failed", "removed"}
  BY DEF LifeTyped
<1>2. ASSUME Call PROVE calls' \in 0 .. MaxCalls
  BY <1>2, BoundsAreNaturals DEF Call, LifeTyped
<1>3. ASSUME NEW nwk \in Nwks, JoinNew(nwk) PROVE LifeTyped'
  <2> DEFINE objs == Append(objects, NewObject(nwk))
             ops == Append(queue, SaveNwk(nwk))
  <2>1. NewObject(nwk) \in Object
    BY TriesArePositive DEF NewObject, Object
  <2>2. objs \in Seq(Object) /\ Len(objs) = Len(objects) + 1
    BY <1>1, <2>1
  <2>3. QueueOK(ops, Len(objs))
    BY <1>1, <2>2, QueueGrows
  <2>4. ScheduleInitialize(Len(objects) + 1, objs, ops, "joined") /\ Call
    BY <1>3 DEF JoinNew
  <2>5. Len(objects) + 1 \in 1 .. Len(objs)
    BY <1>1, <2>2
  <2> HIDE DEF objs, ops
  <2> QED BY <1>2, <2>2, <2>3, <2>4, <2>5, ScheduleTyped
<1>4. ASSUME NEW nwk \in Nwks, JoinMoved(nwk) PROVE LifeTyped'
  <2> DEFINE objs == [objects EXCEPT ![dev].nwk = nwk]
             ops == Append(queue, SaveNwk(nwk))
  <2>1. ScheduleInitialize(dev, objs, ops, "joined") /\ Call /\ dev # 0
    BY <1>4 DEF JoinMoved
  <2>2. dev \in 1 .. Len(objects) /\ objects[dev] \in Object
    BY <1>1, <2>1
  <2>3. objs \in Seq(Object) /\ Len(objs) = Len(objects)
    BY <1>1, <2>2, ObjectReplaced, ObjectUpdated
  <2>4. QueueOK(ops, Len(objs))
    BY <1>1, <2>3, QueueGrows
  <2> HIDE DEF objs, ops
  <2> QED BY <1>2, <2>1, <2>2, <2>3, <2>4, ScheduleTyped
<1>5. CASE JoinAgain
  BY <1>1, <1>2, <1>5, ScheduleTyped DEF JoinAgain
<1>6. CASE PacketReceived
  <2>1. calls' \in 0 .. MaxCalls
    BY <1>6 DEF PacketReceived, LifeTyped
  <2> QED BY <1>1, <1>6, <2>1, ScheduleTyped DEF PacketReceived
<1> QED BY <1>3, <1>4, <1>5, <1>6

\* The steps of an initialization keep the types.
LEMMA TasksTyped ==
  ASSUME LifeTyped, NEW o \in 1 .. Len(objects), TaskStep(o)
  PROVE  LifeTyped'
<1>1. objects \in Seq(Object) /\ Len(objects) \in Nat /\ objects[o] \in Object
  BY DEF LifeTyped
<1>2. ASSUME objects' \in Seq(Object), Len(objects') = Len(objects),
             told' \in {told, "failed"},
             UNCHANGED <<dev, removals, unpopped, queue, row, hasQuirk, astray, calls>>
      PROVE  LifeTyped'
  BY <1>2 DEF LifeTyped, QueueOK
<1>3. ASSUME NEW x \in Object, objects' = [objects EXCEPT ![o] = x]
      PROVE  objects' \in Seq(Object) /\ Len(objects') = Len(objects)
  BY <1>1, <1>3, ObjectReplaced
<1>4. CASE Discover(o)
  <2>1. [objects[o] EXCEPT !.progress = objects[o].progress + 1] \in Object
    BY <1>1, <1>4, ObjectUpdated DEF Discover
  <2>2. objects' = [objects EXCEPT ![o] =
                      [objects[o] EXCEPT !.progress = objects[o].progress + 1]]
    BY <1>4 DEF Discover
  <2> QED BY <1>2, <1>3, <1>4, <2>1, <2>2 DEF Discover
<1>5. CASE Retry(o)
  <2>1. [objects[o] EXCEPT !.tries = objects[o].tries - 1] \in Object
    BY <1>1, <1>5, ObjectUpdated DEF Retry
  <2>2. objects' = [objects EXCEPT ![o] =
                      [objects[o] EXCEPT !.tries = objects[o].tries - 1]]
    BY <1>5 DEF Retry
  <2> QED BY <1>2, <1>3, <1>5, <2>1, <2>2 DEF Retry
<1>6. CASE GiveUp(o) \/ InitializeCancelled(o)
  <2>1. [objects[o] EXCEPT !.task = "idle"] \in Object
    BY <1>1, ObjectUpdated
  <2>2. objects' = [objects EXCEPT ![o] = [objects[o] EXCEPT !.task = "idle"]]
    BY <1>6 DEF GiveUp, InitializeCancelled
  <2> QED BY <1>2, <1>3, <1>6, <2>1, <2>2 DEF GiveUp, InitializeCancelled
<1>7. CASE InitializeFinishes(o)
  <2> DEFINE objs == [objects EXCEPT ![o] = [@ EXCEPT !.asked = TRUE, !.task = "idle"]]
  <2>1. objs \in Seq(Object) /\ Len(objs) = Len(objects)
    BY <1>1, ObjectReplaced, ObjectUpdated
  <2>2. DeviceInitialized(o, objs, queue) /\ QueueOK(queue, Len(objs))
    BY <1>7, <2>1 DEF InitializeFinishes, LifeTyped
  <2> HIDE DEF objs
  <2>3. /\ objects' \in Seq(Object) /\ dev' \in 1 .. Len(objects')
        /\ QueueOK(queue', Len(objects')) /\ told' = "initialized"
    BY <2>1, <2>2, DeviceInitializedTyped
  <2> QED BY <1>7, <2>3 DEF InitializeFinishes, LifeTyped, QueueOK
<1> QED BY <1>4, <1>5, <1>6, <1>7 DEF TaskStep

\* Removals keep the types.
LEMMA RemovalsTyped ==
  ASSUME LifeTyped, Remove \/ RemovalDone \/ RemovalRaises
  PROVE  LifeTyped'
<1>1. /\ objects \in Seq(Object) /\ Len(objects) \in Nat
      /\ dev \in 0 .. Len(objects) /\ QueueOK(queue, Len(objects))
  BY DEF LifeTyped
<1>2. CASE Remove
  <2>1. dev \in 1 .. Len(objects) /\ objects[dev] \in Object
    BY <1>1, <1>2 DEF Remove
  <2>2. [objects[dev] EXCEPT !.task = "cancelling"] \in Object
    BY <2>1, ObjectUpdated
  <2>3. \/ objects' = objects
        \/ objects' = [objects EXCEPT ![dev] = [objects[dev] EXCEPT !.task = "cancelling"]]
    BY <1>2 DEF Remove
  <2>4. objects' \in Seq(Object) /\ Len(objects') = Len(objects)
    BY <1>1, <2>1, <2>2, <2>3, ObjectReplaced
  <2>5. QueueOK(queue', Len(objects'))
    BY <1>1, <1>2, <2>4, QueueGrows DEF Remove
  <2>6. calls' \in 0 .. MaxCalls
    BY <1>2, BoundsAreNaturals DEF Remove, Call, LifeTyped
  <2> QED BY <1>2, <2>4, <2>5, <2>6 DEF Remove, LifeTyped, QueueOK
<1>3. CASE RemovalDone
  <2>1. removals' \in Nat /\ dev' \in 0 .. Len(objects)
    BY <1>1, <1>3 DEF RemovalDone, LifeTyped
  <2>2. unpopped' \in BOOLEAN
    BY <1>3, Zenon DEF RemovalDone
  <2> QED BY <1>1, <1>3, <2>1, <2>2 DEF RemovalDone, LifeTyped, QueueOK
<1>4. CASE RemovalRaises
  <2>1. removals' \in Nat
    BY <1>4 DEF RemovalRaises, LifeTyped
  <2>2. unpopped' \in BOOLEAN
    BY <1>4, Zenon DEF RemovalRaises
  <2> QED BY <1>1, <1>4, <2>1, <2>2 DEF RemovalRaises, LifeTyped, QueueOK
<1> QED BY <1>2, <1>3, <1>4

\* What the worker writes has the right type.
LEMMA WorkerTyped ==
  ASSUME LifeTyped, Worker
  PROVE  LifeTyped'
<1>1. /\ objects \in Seq(Object) /\ Len(objects) \in Nat
      /\ QueueOK(queue, Len(objects)) /\ queue # <<>> /\ queue' = Tail(queue)
  BY DEF LifeTyped, Worker
<1>2. QueueOK(queue', Len(objects))
  BY <1>1, QueueShrinks
<1>3. /\ Head(queue) \in Operation
      /\ Head(queue).op = "save" => Head(queue).of \in 1 .. Len(objects)
      /\ Head(queue).op = "nwk" => Head(queue).nwk \in Nwks
  BY <1>1 DEF QueueOK
<1>4. row \in Row /\ (row.present => row.nwk \in Nwks)
  BY DEF LifeTyped, RowOK
<1>5. RowOK(row')
  <2>1. Head(queue).op \in {"nwk", "save", "delete"}
    BY <1>3 DEF Operation
  <2>2. CASE Head(queue).op = "nwk"
    BY <1>3, <1>4, <2>2 DEF Worker, Row, RowOK
  <2>3. CASE Head(queue).op = "save"
    <3>1. objects[Head(queue).of] \in Object
      BY <1>1, <1>3, <2>3
    <3>2. row' = Saved(objects[Head(queue).of])
      BY <2>3 DEF Worker
    <3> QED BY <1>4, <3>1, <3>2 DEF Saved, Row, RowOK, Object
  <2>4. CASE Head(queue).op = "delete"
    BY <2>4 DEF Worker, NoRow, Row, RowOK, Nowhere
  <2> QED BY <2>1, <2>2, <2>3, <2>4
<1> QED BY <1>2, <1>5 DEF Worker, LifeTyped, QueueOK

\* A restart makes an object of what was committed.
LEMMA RestartTyped ==
  ASSUME LifeTyped, Restart
  PROVE  LifeTyped'
<1>1. row \in Row /\ (row.present => row.nwk \in Nwks)
  BY DEF LifeTyped, RowOK
<1>2. ASSUME row.present PROVE Loaded \in Object
  <2>1. 0 \in 0 .. MaxTries
    BY TriesArePositive
  <2> QED BY <1>1, <1>2, <2>1 DEF Loaded, Row, Object
<1>3. objects' \in Seq(Object) /\ dev' \in 0 .. Len(objects')
  <2>1. CASE row.present
    BY <1>2, <2>1 DEF Restart
  <2>2. CASE ~row.present
    BY <2>2 DEF Restart
  <2> QED BY <2>1, <2>2
<1>4. QueueOK(queue', Len(objects'))
  BY DEF Restart, QueueOK
<1>5. calls' \in 0 .. MaxCalls /\ removals' \in Nat
  BY BoundsAreNaturals DEF Restart, Call, LifeTyped
<1> QED BY <1>3, <1>4, <1>5 DEF Restart, LifeTyped, QueueOK

\* Every step keeps the types.
LEMMA NextTyped == LifeTyped /\ [LifecycleNext]_lifecycleVars => LifeTyped'
<1> SUFFICES ASSUME LifeTyped, [LifecycleNext]_lifecycleVars PROVE LifeTyped'
  OBVIOUS
<1>1. CASE \/ \E nwk \in Nwks : JoinNew(nwk) \/ JoinMoved(nwk)
           \/ JoinAgain \/ PacketReceived
  BY <1>1, JoinsTyped
<1>2. CASE \E o \in 1 .. Len(objects) : TaskStep(o)
  BY <1>2, TasksTyped
<1>3. CASE Remove \/ RemovalDone \/ RemovalRaises
  BY <1>3, RemovalsTyped
<1>4. CASE Worker
  BY <1>4, WorkerTyped
<1>5. CASE Restart
  BY <1>5, RestartTyped
<1>6. CASE UNCHANGED lifecycleVars
  BY <1>6 DEF lifecycleVars, LifeTyped, QueueOK
<1> QED BY <1>1, <1>2, <1>3, <1>4, <1>5, <1>6 DEF LifecycleNext

\* Every variable of the device's lifecycle always has its type: no task
\* writes to the database of an object that was never made, and no object is
\* initialized further than to its endpoints' descriptors.
THEOREM TypeCorrect == LifecycleSpec => []LifecycleTypeOK
<1>1. LifecycleInit => LifeTyped
  BY InitTyped
<1>2. LifeTyped /\ [LifecycleNext]_lifecycleVars => LifeTyped'
  BY NextTyped
<1>3. LifeTyped => LifecycleTypeOK
  BY DEF LifeTyped, LifecycleTypeOK, QueueOK, RowOK
<1> QED BY <1>1, <1>2, <1>3, PTL DEF LifecycleSpec

-----------------------------------------------------------------------------
(* The database follows the events.                                        *)

\* When all callbacks in q are handled, the database will have the device
\* (will = TRUE) or not: the last one that decides it is of this kind, or none
\* decides it and it is so already.
Ends(kind, will, q, present) ==
  \/ present = will /\ \A i \in DOMAIN q : q[i].op = "nwk"
  \/ \E i \in DOMAIN q : /\ q[i].op = kind
                         /\ \A j \in i + 1 .. Len(q) : q[j].op = "nwk"

\* The inductive invariant: the queue already leads to what was told.
EventInv ==
  /\ told = "initialized" => Ends("save", TRUE, queue, row.present)
  /\ told = "removed" => Ends("delete", FALSE, queue, row.present)
  /\ told = "removed" => removals > 0 \/ dev = 0 \/ unpopped

\* Where each operation of a longer queue is.
LEMMA Appended ==
  ASSUME NEW q \in Seq(Operation), NEW e \in Operation
  PROVE  /\ DOMAIN q = 1 .. Len(q) /\ Len(q) \in Nat
         /\ DOMAIN Append(q, e) = 1 .. Len(q) + 1
         /\ Len(Append(q, e)) = Len(q) + 1
         /\ Append(q, e)[Len(q) + 1] = e
         /\ \A i \in 1 .. Len(q) : Append(q, e)[i] = q[i]
OBVIOUS

\* A new address does not change what the queue leads to.
LEMMA EndsAfterNwk ==
  ASSUME NEW kind, NEW will, NEW present, NEW q \in Seq(Operation),
         NEW e \in Operation, e.op = "nwk", Ends(kind, will, q, present)
  PROVE  Ends(kind, will, Append(q, e), present)
<1> DEFINE p == Append(q, e)
<1>1. /\ DOMAIN q = 1 .. Len(q) /\ Len(q) \in Nat
      /\ DOMAIN p = 1 .. Len(q) + 1 /\ Len(p) = Len(q) + 1
      /\ p[Len(q) + 1] = e
      /\ \A i \in 1 .. Len(q) : p[i] = q[i]
  BY Appended
<1> HIDE DEF p
<1>2. CASE present = will /\ \A i \in DOMAIN q : q[i].op = "nwk"
  <2>1. ASSUME NEW i \in DOMAIN p PROVE p[i].op = "nwk"
    <3>1. i = Len(q) + 1 \/ i \in 1 .. Len(q)
      BY <1>1
    <3> QED BY <1>1, <1>2, <3>1
  <2> QED BY <1>2, <2>1 DEF Ends, p
<1>3. ASSUME NEW i \in DOMAIN q, q[i].op = kind,
             \A j \in i + 1 .. Len(q) : q[j].op = "nwk"
      PROVE  Ends(kind, will, p, present)
  <2>1. i \in DOMAIN p /\ p[i].op = kind
    BY <1>1, <1>3
  <2>2. ASSUME NEW j \in i + 1 .. Len(p) PROVE p[j].op = "nwk"
    <3>1. j = Len(q) + 1 \/ (j \in i + 1 .. Len(q) /\ j \in 1 .. Len(q))
      BY <1>1, <1>3
    <3> QED BY <1>1, <1>3, <3>1
  <2> QED BY <2>1, <2>2 DEF Ends
<1> QED BY <1>2, <1>3 DEF Ends, p

\* A queue that ends with such a callback leads to what it does.
LEMMA EndsAtLast ==
  ASSUME NEW kind, NEW will, NEW present, NEW q \in Seq(Operation),
         NEW e \in Operation, e.op = kind
  PROVE  Ends(kind, will, Append(q, e), present)
<1>1. /\ Len(q) \in Nat
      /\ DOMAIN Append(q, e) = 1 .. Len(q) + 1 /\ Len(Append(q, e)) = Len(q) + 1
      /\ Append(q, e)[Len(q) + 1] = e
  BY Appended
<1>2. Len(q) + 1 \in DOMAIN Append(q, e) /\ Append(q, e)[Len(q) + 1].op = kind
  BY <1>1
<1>3. (Len(q) + 1) + 1 .. Len(Append(q, e)) = {}
  BY <1>1
<1> QED BY <1>2, <1>3 DEF Ends

\* Handling the first callback does not change what the queue leads to.
LEMMA EndsAfterWorker ==
  ASSUME NEW kind, NEW will, NEW present, NEW now, NEW q \in Seq(Operation),
         q # <<>>, Ends(kind, will, q, present),
         Head(q).op = "nwk" => now = present,
         Head(q).op = kind => now = will,
         kind # "nwk"
  PROVE  Ends(kind, will, Tail(q), now)
<1> DEFINE t == Tail(q)
<1>1. /\ Len(q) \in Nat \ {0} /\ DOMAIN q = 1 .. Len(q) /\ Head(q) = q[1]
      /\ Len(t) = Len(q) - 1 /\ DOMAIN t = 1 .. Len(q) - 1
      /\ \A i \in 1 .. Len(q) - 1 : t[i] = q[i + 1]
  BY EmptySeq
<1> HIDE DEF t
<1>2. CASE present = will /\ \A i \in DOMAIN q : q[i].op = "nwk"
  <2>1. now = will
    BY <1>1, <1>2
  <2>2. ASSUME NEW i \in DOMAIN t PROVE t[i].op = "nwk"
    BY <1>1, <1>2
  <2> QED BY <2>1, <2>2 DEF Ends, t
<1>3. ASSUME NEW i \in DOMAIN q, q[i].op = kind,
             \A j \in i + 1 .. Len(q) : q[j].op = "nwk"
      PROVE  Ends(kind, will, t, now)
  <2>1. CASE i = 1
    <3>1. now = will
      BY <1>1, <1>3, <2>1
    <3>2. ASSUME NEW j \in DOMAIN t PROVE t[j].op = "nwk"
      BY <1>1, <1>3, <2>1
    <3> QED BY <3>1, <3>2 DEF Ends
  <2>2. CASE i # 1
    <3>1. i - 1 \in DOMAIN t /\ t[i - 1].op = kind
      BY <1>1, <1>3, <2>2
    <3>2. ASSUME NEW j \in (i - 1) + 1 .. Len(t) PROVE t[j].op = "nwk"
      <4>1. j \in 1 .. Len(q) - 1 /\ j + 1 \in i + 1 .. Len(q)
        BY <1>1, <1>3, <2>2
      <4> QED BY <1>1, <1>3, <4>1
    <3> QED BY <3>1, <3>2 DEF Ends
  <2> QED BY <2>1, <2>2
<1> QED BY <1>2, <1>3 DEF Ends, t

\* Whoever announces the device has it saved.
LEMMA InitializedIsSaved ==
  ASSUME NEW objs, NEW o \in Nat, NEW ops \in Seq(Operation), NEW present,
         DeviceInitialized(o, objs, ops)
  PROVE  told' = "initialized" /\ Ends("save", TRUE, queue', present)
<1>1. SaveDevice(o) \in Operation /\ SaveDevice(o).op = "save"
  BY OperationsTyped DEF SaveDevice
<1>2. told' = "initialized" /\ queue' = Append(ops, SaveDevice(o))
  BY DEF DeviceInitialized
<1> QED BY <1>1, <1>2, EndsAtLast

\* schedule_initialize keeps the invariant when the device is said to have
\* joined, and when nothing is said of it.
LEMMA ScheduleEvents ==
  ASSUME EventInv, NEW objs, NEW o \in Nat, NEW ops \in Seq(Operation), NEW event,
         event = "joined" \/ (event = told /\ ops = queue /\ dev # 0),
         ScheduleInitialize(o, objs, ops, event)
  PROVE  EventInv'
<1>1. removals' = removals /\ unpopped' = unpopped /\ row' = row
  BY DEF ScheduleInitialize
<1>2. CASE DeviceInitialized(o, objs, ops)
  <2>1. told' = "initialized" /\ Ends("save", TRUE, queue', row.present)
    BY <1>2, InitializedIsSaved
  <2> QED BY <1>1, <2>1 DEF EventInv
<1>3. CASE queue' = ops /\ told' = event
  <2>1. CASE event = "joined"
    BY <1>3, <2>1 DEF EventInv
  <2>2. CASE event = told /\ ops = queue /\ dev # 0
    BY <1>1, <1>3, <2>2 DEF EventInv
  <2> QED BY <2>1, <2>2
<1> QED BY <1>2, <1>3 DEF ScheduleInitialize

\* Handling a callback keeps the invariant.
LEMMA WorkerEvents ==
  ASSUME LifeTyped, EventInv, Worker
  PROVE  EventInv'
<1>1. queue \in Seq(Operation) /\ queue # <<>> /\ row \in Row
  BY DEF LifeTyped, QueueOK, RowOK, Worker
<1>2. queue' = Tail(queue) /\ told' = told /\ removals' = removals /\ dev' = dev
      /\ unpopped' = unpopped
  BY DEF Worker
<1>3. Head(queue).op = "nwk" => row'.present = row.present
  BY <1>1 DEF Worker, Row
<1>4. Head(queue).op = "save" => row'.present = TRUE
  BY DEF Worker, Saved
<1>5. Head(queue).op = "delete" => row'.present = FALSE
  BY DEF Worker, NoRow
<1>6. Ends("save", TRUE, queue, row.present) => Ends("save", TRUE, queue', row'.present)
  BY <1>1, <1>2, <1>3, <1>4, EndsAfterWorker
<1>7. Ends("delete", FALSE, queue, row.present) => Ends("delete", FALSE, queue', row'.present)
  BY <1>1, <1>2, <1>3, <1>5, EndsAfterWorker
<1> QED BY <1>2, <1>6, <1>7 DEF EventInv

\* Every step keeps the invariant.
LEMMA NextEvents == LifeTyped /\ EventInv /\ [LifecycleNext]_lifecycleVars => EventInv'
<1> SUFFICES ASSUME LifeTyped, EventInv, [LifecycleNext]_lifecycleVars PROVE EventInv'
  OBVIOUS
<1>1. /\ queue \in Seq(Operation) /\ dev \in Nat /\ Len(objects) \in Nat
      /\ told \in {"none", "joined", "initialized", "failed", "removed"}
      /\ \A nwk \in Nwks : Append(queue, SaveNwk(nwk)) \in Seq(Operation)
  <2>1. queue \in Seq(Operation) /\ Len(objects) \in Nat /\ dev \in Nat
    BY DEF LifeTyped, QueueOK
  <2> QED BY <2>1, OperationsTyped DEF LifeTyped
<1>2. ASSUME NEW nwk \in Nwks, JoinNew(nwk) PROVE EventInv'
  <2> DEFINE objs == Append(objects, NewObject(nwk))
  <2>1. /\ ScheduleInitialize(Len(objects) + 1, objs, Append(queue, SaveNwk(nwk)), "joined")
        /\ Len(objects) + 1 \in Nat
    BY <1>1, <1>2 DEF JoinNew
  <2> HIDE DEF objs
  <2> QED BY <1>1, <2>1, ScheduleEvents
<1>3. ASSUME NEW nwk \in Nwks, JoinMoved(nwk) PROVE EventInv'
  BY <1>1, <1>3, ScheduleEvents DEF JoinMoved
<1>4. CASE JoinAgain
  BY <1>1, <1>4, ScheduleEvents DEF JoinAgain
<1>5. CASE PacketReceived
  BY <1>1, <1>5, ScheduleEvents DEF PacketReceived
<1>6. ASSUME NEW o \in 1 .. Len(objects), TaskStep(o) PROVE EventInv'
  <2>1. CASE InitializeFinishes(o)
    <3> DEFINE objs == [objects EXCEPT ![o] = [@ EXCEPT !.asked = TRUE, !.task = "idle"]]
    <3>1. DeviceInitialized(o, objs, queue) /\ row' = row /\ o \in Nat
      BY <1>1, <2>1 DEF InitializeFinishes
    <3> HIDE DEF objs
    <3>2. told' = "initialized" /\ Ends("save", TRUE, queue', row.present)
      BY <1>1, <3>1, InitializedIsSaved
    <3> QED BY <3>1, <3>2 DEF EventInv
  <2>2. CASE GiveUp(o)
    BY <2>2 DEF GiveUp, EventInv
  <2>3. CASE Discover(o) \/ Retry(o) \/ InitializeCancelled(o)
    BY <2>3 DEF Discover, Retry, InitializeCancelled, EventInv
  <2> QED BY <1>6, <2>1, <2>2, <2>3 DEF TaskStep
<1>7. CASE Remove
  <2>1. told' = "removed" /\ removals' > 0 /\ queue' = Append(queue, DeleteDevice)
        /\ row' = row
    BY <1>7 DEF Remove, LifeTyped
  <2>2. DeleteDevice \in Operation /\ DeleteDevice.op = "delete"
    BY OperationsTyped DEF DeleteDevice
  <2>3. Ends("delete", FALSE, queue', row'.present)
    BY <1>1, <2>1, <2>2, EndsAtLast
  <2> QED BY <2>1, <2>3 DEF EventInv
<1>8. CASE RemovalDone \/ RemovalRaises
  BY <1>8 DEF RemovalDone, RemovalRaises, EventInv
<1>9. CASE Worker
  BY <1>9, WorkerEvents
<1>10. CASE Restart
  <2>1. told' = "none"
    BY <1>10 DEF Restart
  <2> QED BY <2>1 DEF EventInv
<1>11. CASE UNCHANGED lifecycleVars
  <2>1. /\ told' = told /\ queue' = queue /\ row' = row
        /\ removals' = removals /\ dev' = dev /\ unpopped' = unpopped
    BY <1>11 DEF lifecycleVars
  <2> QED BY <2>1 DEF EventInv
<1> QED BY <1>2, <1>3, <1>4, <1>5, <1>6, <1>7, <1>8, <1>9, <1>10, <1>11 DEF LifecycleNext

\* In every state the queue leads to what the listeners were told.
LEMMA EventInvHolds == LifecycleSpec => [](LifeTyped /\ EventInv)
<1>1. LifecycleInit => LifeTyped /\ EventInv
  BY InitTyped DEF LifecycleInit, EventInv
<1>2. LifeTyped /\ EventInv /\ [LifecycleNext]_lifecycleVars => (LifeTyped /\ EventInv)'
  BY NextTyped, NextEvents
<1> QED BY <1>1, <1>2, PTL DEF LifecycleSpec

\* Once the worker has caught up, the database has the device exactly as the
\* listeners were told, however many objects, tasks and removals there are.
THEOREM DatabaseFollows == LifecycleSpec => []DatabaseFollowsEvents
<1>1. LifeTyped /\ EventInv => DatabaseFollowsEvents
  <2> SUFFICES ASSUME EventInv, queue = <<>>
               PROVE  /\ told = "initialized" => row.present = TRUE
                      /\ told = "removed" => row.present = FALSE
    BY DEF DatabaseFollowsEvents
  <2> QED BY DEF EventInv, Ends
<1> QED BY <1>1, EventInvHolds, PTL

\* A device whose removal has ended, and of which nothing was heard since, is
\* not in the database, nor in memory unless _remove_device raised before it
\* popped the device: no initialization, quirk or callback
\* that was still at work brings it back.
THEOREM RemovedGone == LifecycleSpec => []RemovedIsGone
<1>1. LifeTyped /\ EventInv => RemovedIsGone
  <2> SUFFICES ASSUME LifeTyped, EventInv, told = "removed", removals = 0, queue = <<>>
               PROVE  (dev = 0 \/ unpopped) /\ row.present = FALSE
    BY DEF RemovedIsGone
  <2> QED BY DEF EventInv, Ends
<1> QED BY <1>1, EventInvHolds, PTL
-----------------------------------------------------------------------------
(* The object that counts: as long as no initialization goes astray, the   *)
(* object in `devices' is the only one at work and the one at the address. *)

\* No object but o is being initialized.
OnlyAtWork(objs, o) == \A p \in 1 .. Len(objs) : objs[p].task = "running" => p = o

\* The address the database has, or will have once the queue is handled.
AddressSaved(q, objs, r, nwk) ==
  IF q = <<>> THEN r.nwk = nwk
  ELSE q[Len(q)].op = "save" /\ objs[q[Len(q)].of].nwk = nwk

\* What the object in `devices' is when the device has been announced: nobody
\* is at work on it, and no quirk is left to take its place.
Finished(object) ==
  IsInitialized(object) /\ object.task # "running" /\ ~Matches(object)

\* The inductive invariant.
SettledInv ==
  ~astray =>
    /\ OnlyAtWork(objects, dev)
    /\ removals > 0 => told = "removed" /\ (dev # 0 => objects[dev].task # "running")
    /\ dev # 0 => objects[dev].nwk = address
    /\ told = "initialized" => /\ dev # 0 /\ Finished(objects[dev])
                               /\ AddressSaved(queue, objects, row, address)

\* The device is announced by an object that nobody is at work on any more.
LEMMA AnnouncedSettles ==
  ASSUME NEW objs \in Seq(Object), NEW o \in 1 .. Len(objs), NEW ops \in Seq(Operation),
         objs[o].progress = 3, \A p \in 1 .. Len(objs) : objs[p].task # "running",
         objs[o].nwk = address', removals' = 0, hasQuirk' = hasQuirk,
         DeviceInitialized(o, objs, ops)
  PROVE  SettledInv'
<1> DEFINE quirk == [objs[o] EXCEPT !.quirk = TRUE, !.task = "idle"]
<1>1. objs[o] \in Object /\ Len(objs) \in Nat
  OBVIOUS
<1>2. /\ quirk.progress = 3 /\ quirk.task = "idle" /\ quirk.quirk = TRUE
      /\ quirk.nwk = objs[o].nwk /\ quirk \in Object
  BY <1>1 DEF Object
<1> HIDE DEF quirk
<1>3. /\ queue' = Append(ops, SaveDevice(o)) /\ told' = "initialized"
      /\ \/ objects' = Append(objs, quirk) /\ dev' = Len(objs) + 1
         \/ objects' = objs /\ dev' = o /\ ~Matches(objs[o])
  BY DEF DeviceInitialized, quirk
<1>4. /\ SaveDevice(o) \in Operation /\ SaveDevice(o).op = "save" /\ SaveDevice(o).of = o
  BY <1>1, OperationsTyped DEF SaveDevice
<1>5. queue' # <<>> /\ queue'[Len(queue')] = SaveDevice(o)
  <2>1. /\ Len(ops) \in Nat /\ Len(Append(ops, SaveDevice(o))) = Len(ops) + 1
        /\ Append(ops, SaveDevice(o))[Len(ops) + 1] = SaveDevice(o)
    BY <1>4, Appended
  <2> QED BY <1>3, <2>1
<1>6. CASE objects' = objs /\ dev' = o /\ ~Matches(objs[o])
  <2>1. OnlyAtWork(objects, dev)'
    BY <1>6 DEF OnlyAtWork
  <2>2. Finished(objects[dev])'
    BY <1>6 DEF Finished, IsInitialized, Matches
  <2>3. AddressSaved(queue, objects, row, address)'
    BY <1>4, <1>5, <1>6 DEF AddressSaved
  <2>4. dev' # 0 /\ objects'[dev'].nwk = address'
    BY <1>1, <1>6
  <2> QED BY <1>3, <2>1, <2>2, <2>3, <2>4 DEF SettledInv
<1>7. CASE objects' = Append(objs, quirk) /\ dev' = Len(objs) + 1
  <2>1. /\ Len(objects') = Len(objs) + 1 /\ objects'[Len(objs) + 1] = quirk
        /\ \A p \in 1 .. Len(objs) : objects'[p] = objs[p]
    BY <1>1, <1>2, <1>7
  <2>2. OnlyAtWork(objects, dev)'
    <3>1. ASSUME NEW p \in 1 .. Len(objects') PROVE objects'[p].task # "running"
      <4>1. Len(objs) \in Nat /\ p \in 1 .. Len(objs) + 1
        BY <1>1, <2>1
      <4>2. p = Len(objs) + 1 \/ p \in 1 .. Len(objs)
        BY <4>1
      <4> QED BY <1>2, <2>1, <4>2
    <3> QED BY <3>1 DEF OnlyAtWork
  <2>3. Finished(objects[dev])'
    BY <1>2, <1>7, <2>1 DEF Finished, IsInitialized, Matches
  <2>4. AddressSaved(queue, objects, row, address)'
    BY <1>4, <1>5, <2>1 DEF AddressSaved
  <2>5. dev' # 0 /\ objects'[dev'].nwk = address'
    BY <1>1, <1>2, <1>7, <2>1
  <2> QED BY <1>3, <2>2, <2>3, <2>4, <2>5 DEF SettledInv
<1> QED BY <1>3, <1>6, <1>7

\* schedule_initialize keeps the invariant: whoever calls it has an object at
\* the address, and nobody is at work but for that object.
LEMMA ScheduleSettles ==
  ASSUME NEW objs \in Seq(Object), NEW o \in 1 .. Len(objs), NEW ops \in Seq(Operation),
         NEW event, removals \in Nat, objs[o].nwk = address', OnlyAtWork(objs, o),
         event # "initialized", ScheduleInitialize(o, objs, ops, event)
  PROVE  SettledInv'
<1> SUFFICES ASSUME ~astray' PROVE SettledInv'
  BY DEF SettledInv
<1>1. /\ removals = 0 /\ removals' = 0 /\ hasQuirk' = hasQuirk
      /\ ~(IsInitialized(objs[o]) /\ objs[o].task = "running")
  <2>1. /\ ~(removals > 0) /\ removals' = removals /\ hasQuirk' = hasQuirk
        /\ ~(IsInitialized(objs[o]) /\ objs[o].task = "running")
    BY DEF ScheduleInitialize
  <2> QED BY <2>1
<1>2. CASE IsInitialized(objs[o])
  <2>1. DeviceInitialized(o, objs, ops)
    BY <1>2 DEF ScheduleInitialize
  <2>2. \A p \in 1 .. Len(objs) : objs[p].task # "running"
    BY <1>1, <1>2 DEF OnlyAtWork
  <2>3. objs[o].progress = 3
    BY <1>2 DEF IsInitialized
  <2> QED BY <1>1, <2>1, <2>2, <2>3, AnnouncedSettles
<1>3. CASE ~IsInitialized(objs[o])
  <2> DEFINE x == [objs[o] EXCEPT !.task = "running", !.tries = MaxTries]
  <2>1. objs[o] \in Object
    OBVIOUS
  <2>2. x.nwk = objs[o].nwk
    BY <2>1 DEF Object
  <2>3. objects' = [objs EXCEPT ![o] = x] /\ dev' = o /\ told' = event
    BY <1>3 DEF ScheduleInitialize
  <2> HIDE DEF x
  <2>4. /\ Len(objects') = Len(objs) /\ objects'[o] = x
        /\ \A p \in 1 .. Len(objs) : p # o => objects'[p] = objs[p]
    BY <2>3
  <2>5. OnlyAtWork(objects, dev)'
    BY <2>3, <2>4 DEF OnlyAtWork
  <2>6. objects'[dev'].nwk = address'
    BY <2>2, <2>3, <2>4
  <2> QED BY <1>1, <2>3, <2>5, <2>6 DEF SettledInv
<1> QED BY <1>2, <1>3

\* Joins and packets keep the invariant.
LEMMA JoinsSettle ==
  ASSUME LifeTyped, SettledInv,
         (\E nwk \in Nwks : JoinNew(nwk) \/ JoinMoved(nwk)) \/ JoinAgain \/ PacketReceived
  PROVE  SettledInv'
<1> SUFFICES ASSUME ~astray' PROVE SettledInv'
  BY DEF SettledInv
<1>1. ~astray
  <2>1. ASSUME NEW o, NEW objs, NEW ops, NEW event, ScheduleInitialize(o, objs, ops, event)
        PROVE  ~astray
    BY <2>1 DEF ScheduleInitialize
  <2>2. \A nwk : JoinNew(nwk) => ~astray
    BY <2>1 DEF JoinNew
  <2>3. \A nwk : JoinMoved(nwk) => ~astray
    BY <2>1 DEF JoinMoved
  <2>4. JoinAgain \/ PacketReceived => ~astray
    BY <2>1 DEF JoinAgain, PacketReceived
  <2> QED BY <2>2, <2>3, <2>4
<1>2. /\ objects \in Seq(Object) /\ queue \in Seq(Operation) /\ removals \in Nat
      /\ Len(objects) \in Nat /\ dev \in 0 .. Len(objects)
      /\ \A nwk \in Nwks : Append(queue, SaveNwk(nwk)) \in Seq(Operation)
  <2>1. queue \in Seq(Operation) /\ objects \in Seq(Object) /\ removals \in Nat
        /\ dev \in 0 .. Len(objects)
    BY DEF LifeTyped, QueueOK
  <2> QED BY <2>1, OperationsTyped
<1>3. OnlyAtWork(objects, dev) /\ (dev # 0 => objects[dev].nwk = address)
      /\ (told = "initialized" => IsInitialized(objects[dev]))
  BY <1>1 DEF SettledInv, Finished
<1>4. ASSUME NEW nwk \in Nwks, JoinNew(nwk) PROVE SettledInv'
  <2> DEFINE objs == Append(objects, NewObject(nwk))
  <2>1. /\ ScheduleInitialize(Len(objects) + 1, objs, Append(queue, SaveNwk(nwk)), "joined")
        /\ address' = nwk /\ dev = 0
    BY <1>4 DEF JoinNew
  <2>2. NewObject(nwk) \in Object /\ NewObject(nwk).nwk = nwk /\ NewObject(nwk).task = "idle"
    BY TriesArePositive DEF NewObject, Object
  <2>3. /\ objs \in Seq(Object) /\ Len(objs) = Len(objects) + 1
        /\ objs[Len(objects) + 1] = NewObject(nwk)
        /\ \A p \in 1 .. Len(objects) : objs[p] = objects[p]
    BY <1>2, <2>2
  <2> HIDE DEF objs
  <2>4. OnlyAtWork(objs, Len(objects) + 1)
    <3>1. ASSUME NEW p \in 1 .. Len(objects) PROVE objects[p].task # "running"
      BY <1>2, <1>3, <2>1 DEF OnlyAtWork
    <3>2. \A p \in 1 .. Len(objs) : p = Len(objects) + 1 \/ p \in 1 .. Len(objects)
      BY <1>2, <2>3
    <3> QED BY <2>3, <3>1, <3>2 DEF OnlyAtWork
  <2>5. Len(objects) + 1 \in 1 .. Len(objs)
    BY <1>2, <2>3
  <2> QED BY <1>2, <2>1, <2>2, <2>3, <2>4, <2>5, ScheduleSettles
<1>5. ASSUME NEW nwk \in Nwks, JoinMoved(nwk) PROVE SettledInv'
  <2> DEFINE objs == [objects EXCEPT ![dev].nwk = nwk]
  <2>1. /\ ScheduleInitialize(dev, objs, Append(queue, SaveNwk(nwk)), "joined")
        /\ address' = nwk /\ dev \in 1 .. Len(objects)
    BY <1>2, <1>5 DEF JoinMoved
  <2>2. objects[dev] \in Object /\ [objects[dev] EXCEPT !.nwk = nwk] \in Object
    <3>1. objects[dev] \in Object
      BY <1>2, <2>1
    <3> QED BY <3>1, ObjectUpdated
  <2>3. /\ objs \in Seq(Object) /\ Len(objs) = Len(objects)
        /\ objs[dev] = [objects[dev] EXCEPT !.nwk = nwk]
        /\ \A p \in 1 .. Len(objects) : p # dev => objs[p] = objects[p]
    BY <1>2, <2>1, <2>2, ObjectReplaced
  <2>4. objs[dev].nwk = nwk
    BY <2>2, <2>3 DEF Object
  <2> HIDE DEF objs
  <2>5. OnlyAtWork(objs, dev)
    BY <1>3, <2>3 DEF OnlyAtWork
  <2> QED BY <1>2, <2>1, <2>3, <2>4, <2>5, ScheduleSettles
<1>6. CASE JoinAgain \/ PacketReceived
  <2>1. /\ ScheduleInitialize(dev, objects, queue, told) /\ address' = address
        /\ dev \in 1 .. Len(objects) /\ ~IsInitialized(objects[dev])
    BY <1>2, <1>6 DEF JoinAgain, PacketReceived
  <2> QED BY <1>2, <1>3, <2>1, ScheduleSettles
<1> QED BY <1>4, <1>5, <1>6

\* The tasks of the objects keep the invariant: the one that announces the
\* device is the task of the object in `devices'.
LEMMA TasksSettle ==
  ASSUME LifeTyped, SettledInv, NEW o \in 1 .. Len(objects), TaskStep(o)
  PROVE  SettledInv'
<1> SUFFICES ASSUME ~astray' PROVE SettledInv'
  BY DEF SettledInv
<1>1. ~astray
  BY DEF TaskStep, Discover, InitializeFinishes, Retry, GiveUp, InitializeCancelled
<1>2. /\ objects \in Seq(Object) /\ queue \in Seq(Operation) /\ removals \in Nat
      /\ Len(objects) \in Nat /\ dev \in 0 .. Len(objects) /\ objects[o] \in Object
  BY DEF LifeTyped, QueueOK
<1>3. /\ OnlyAtWork(objects, dev) /\ (dev # 0 => objects[dev].nwk = address)
      /\ removals > 0 => told = "removed" /\ (dev # 0 => objects[dev].task # "running")
  BY <1>1 DEF SettledInv
<1>4. ASSUME objects[o].task = "running" PROVE o = dev /\ removals = 0 /\ told # "initialized"
  <2>1. o = dev /\ removals = 0
    BY <1>2, <1>3, <1>4 DEF OnlyAtWork
  <2>2. told = "initialized" => objects[dev].task # "running"
    BY <1>1 DEF SettledInv, Finished
  <2> QED BY <1>4, <2>1, <2>2
<1>5. CASE InitializeFinishes(o)
  <2> DEFINE x == [objects[o] EXCEPT !.asked = TRUE, !.task = "idle"]
             objs == [objects EXCEPT ![o] = x]
  <2>1. /\ DeviceInitialized(o, objs, queue) /\ removals' = removals
        /\ hasQuirk' = hasQuirk /\ address' = address
        /\ objects[o].task = "running" /\ objects[o].progress = 3
    BY <1>5 DEF InitializeFinishes
  <2>2. x \in Object /\ x.progress = 3 /\ x.task = "idle" /\ x.nwk = objects[o].nwk
    <3>1. x \in Object
      BY <1>2, ObjectUpdated
    <3> QED BY <1>2, <2>1, <3>1 DEF Object
  <2> HIDE DEF x
  <2>3. /\ objs \in Seq(Object) /\ Len(objs) = Len(objects) /\ objs[o] = x
        /\ \A p \in 1 .. Len(objects) : p # o => objs[p] = objects[p]
    BY <1>2, <2>2, ObjectReplaced
  <2> HIDE DEF objs
  <2>4. o = dev /\ removals = 0 /\ objects[o].nwk = address
    BY <1>2, <1>3, <1>4, <2>1
  <2>5. \A p \in 1 .. Len(objs) : objs[p].task # "running"
    BY <1>3, <2>2, <2>3, <2>4 DEF OnlyAtWork
  <2> QED BY <1>2, <2>1, <2>2, <2>3, <2>4, <2>5, AnnouncedSettles
<1>6. ASSUME NEW x, objects' = [objects EXCEPT ![o] = x], x.nwk = objects[o].nwk,
             x.task = "running" => objects[o].task = "running",
             IsInitialized(objects[o]) /\ objects[o].task # "running" =>
               IsInitialized(x) /\ x.asked = objects[o].asked /\ x.quirk = objects[o].quirk,
             dev' = dev, removals' = removals, address' = address, row' = row,
             hasQuirk' = hasQuirk, queue' = queue, 
             told' = told \/ (told' = "failed" /\ objects[o].task = "running")
      PROVE  SettledInv'
  <2>1. /\ Len(objects') = Len(objects) /\ objects'[o] = x
        /\ \A p \in 1 .. Len(objects) : p # o => objects'[p] = objects[p]
    BY <1>2, <1>6
  <2>2. OnlyAtWork(objects, dev)'
    BY <1>3, <1>6, <2>1 DEF OnlyAtWork
  <2>3. removals' > 0 => told' = "removed" /\ (dev' # 0 => objects'[dev'].task # "running")
    <3> SUFFICES ASSUME removals > 0
                 PROVE  told' = "removed" /\ (dev # 0 => objects'[dev].task # "running")
      BY <1>6
    <3>1. objects[o].task # "running" /\ told = "removed"
          /\ (dev # 0 => objects[dev].task # "running")
      BY <1>3, <1>4
    <3> QED BY <1>2, <1>6, <2>1, <3>1
  <2>4. \A p \in 1 .. Len(objects) : objects'[p].nwk = objects[p].nwk
    BY <1>6, <2>1
  <2>5. dev' # 0 => objects'[dev'].nwk = address'
    BY <1>2, <1>3, <1>6, <2>4
  <2>6. ASSUME told' = "initialized"
        PROVE  dev' # 0 /\ Finished(objects[dev])' /\ AddressSaved(queue, objects, row, address)'
    <3>1. told = "initialized"
      BY <1>6, <2>6
    <3>2. dev # 0 /\ Finished(objects[dev]) /\ AddressSaved(queue, objects, row, address)
      BY <1>1, <3>1 DEF SettledInv
    <3>3. dev' # 0 /\ Finished(objects[dev])'
      <4>1. CASE o = dev
        <5>1. IsInitialized(objects[o]) /\ objects[o].task # "running" /\ ~Matches(objects[o])
          BY <3>2, <4>1 DEF Finished
        <5>2. IsInitialized(x) /\ x.task # "running" /\ x.asked = objects[o].asked
              /\ x.quirk = objects[o].quirk /\ objects'[dev'] = x
          BY <1>6, <2>1, <4>1, <5>1
        <5>3. ~Matches(objects[dev])'
          BY <1>6, <5>1, <5>2 DEF Matches
        <5> QED BY <1>6, <3>2, <5>2, <5>3 DEF Finished, IsInitialized
      <4>2. CASE o # dev
        <5>1. objects'[dev'] = objects[dev]
          BY <1>2, <1>6, <2>1, <3>2, <4>2
        <5> QED BY <1>6, <3>2, <5>1 DEF Finished, IsInitialized, Matches
      <4> QED BY <4>1, <4>2
    <3>4. AddressSaved(queue, objects, row, address)'
      <4>1. ASSUME queue # <<>>, queue[Len(queue)].op = "save"
            PROVE  queue[Len(queue)].of \in 1 .. Len(objects)
        <5>1. Len(queue) \in DOMAIN queue
          BY <1>2, <4>1
        <5> QED BY <4>1, <5>1 DEF LifeTyped, QueueOK
      <4> QED BY <1>6, <2>4, <3>2, <4>1 DEF AddressSaved
    <3> QED BY <3>3, <3>4
  <2> QED BY <2>2, <2>3, <2>5, <2>6 DEF SettledInv
<1>7. CASE Discover(o)
  <2> DEFINE x == [objects[o] EXCEPT !.progress = @ + 1]
  <2>1. x.nwk = objects[o].nwk /\ x.task = objects[o].task
    BY <1>2 DEF Object
  <2>2. objects' = [objects EXCEPT ![o] = x] /\ objects[o].task = "running"
    BY <1>7 DEF Discover
  <2> HIDE DEF x
  <2> QED BY <1>6, <1>7, <2>1, <2>2 DEF Discover
<1>8. CASE Retry(o)
  <2> DEFINE x == [objects[o] EXCEPT !.tries = @ - 1]
  <2>1. x.nwk = objects[o].nwk /\ x.task = objects[o].task
    BY <1>2 DEF Object
  <2>2. objects' = [objects EXCEPT ![o] = x] /\ objects[o].task = "running"
    BY <1>8 DEF Retry
  <2> HIDE DEF x
  <2> QED BY <1>6, <1>8, <2>1, <2>2 DEF Retry
<1>9. CASE GiveUp(o) \/ InitializeCancelled(o)
  <2> DEFINE x == [objects[o] EXCEPT !.task = "idle"]
  <2>1. /\ x.nwk = objects[o].nwk /\ x.task = "idle" /\ x.progress = objects[o].progress
        /\ x.asked = objects[o].asked /\ x.quirk = objects[o].quirk
    BY <1>2 DEF Object
  <2>2. objects' = [objects EXCEPT ![o] = x]
    BY <1>9 DEF GiveUp, InitializeCancelled
  <2>3. told' = told \/ (told' = "failed" /\ objects[o].task = "running")
    BY <1>9 DEF GiveUp, InitializeCancelled
  <2> HIDE DEF x
  <2>4. IsInitialized(objects[o]) => IsInitialized(x)
    BY <2>1 DEF IsInitialized
  <2>5. /\ dev' = dev /\ removals' = removals /\ address' = address /\ row' = row
        /\ hasQuirk' = hasQuirk /\ queue' = queue
    BY <1>9 DEF GiveUp, InitializeCancelled
  <2> QED BY <1>6, <2>1, <2>2, <2>3, <2>4, <2>5
<1> QED BY <1>5, <1>7, <1>8, <1>9 DEF TaskStep

\* A removal cancels the initialization, and when it ends there is none.
LEMMA RemovalsSettle ==
  ASSUME LifeTyped, SettledInv, Remove \/ RemovalDone \/ RemovalRaises
  PROVE  SettledInv'
<1> SUFFICES ASSUME ~astray' PROVE SettledInv'
  BY DEF SettledInv
<1>1. ~astray /\ address' = address /\ hasQuirk' = hasQuirk
  BY DEF Remove, RemovalDone, RemovalRaises
<1>2. /\ objects \in Seq(Object) /\ removals \in Nat
      /\ Len(objects) \in Nat /\ dev \in 0 .. Len(objects)
  BY DEF LifeTyped
<1>3. /\ OnlyAtWork(objects, dev) /\ (dev # 0 => objects[dev].nwk = address)
      /\ removals > 0 => told = "removed" /\ (dev # 0 => objects[dev].task # "running")
  BY <1>1 DEF SettledInv
<1>4. CASE Remove
  <2> DEFINE x == [objects[dev] EXCEPT !.task = "cancelling"]
  <2>1. dev \in 1 .. Len(objects) /\ dev' = dev /\ told' = "removed"
    BY <1>2, <1>4 DEF Remove
  <2>2. objects[dev] \in Object
    BY <1>2, <2>1
  <2>3. x.nwk = objects[dev].nwk /\ x.task = "cancelling"
    BY <2>2 DEF Object
  <2>4. \/ objects' = [objects EXCEPT ![dev] = x]
        \/ objects' = objects /\ objects[dev].task = "idle"
    BY <1>4 DEF Remove, Initializing
  <2> HIDE DEF x
  <2>5. /\ Len(objects') = Len(objects) /\ objects'[dev].task # "running"
        /\ objects'[dev].nwk = objects[dev].nwk
        /\ \A p \in 1 .. Len(objects) : p # dev => objects'[p] = objects[p]
    BY <1>2, <2>1, <2>3, <2>4
  <2>6. OnlyAtWork(objects, dev)'
    BY <1>3, <2>1, <2>5 DEF OnlyAtWork
  <2> QED BY <1>1, <1>3, <2>1, <2>5, <2>6 DEF SettledInv
<1>5. CASE RemovalDone
  <2>1. /\ objects' = objects /\ dev' = 0 /\ told' = told /\ told = "removed"
        /\ dev # 0 => objects[dev].task # "running"
    BY <1>3, <1>5 DEF RemovalDone
  <2>2. OnlyAtWork(objects, dev)'
    BY <1>3, <2>1 DEF OnlyAtWork
  <2> QED BY <2>1, <2>2 DEF SettledInv
<1>6. CASE RemovalRaises
  <2>1. /\ objects' = objects /\ dev' = dev /\ told' = told /\ told = "removed"
        /\ dev # 0 => objects[dev].task # "running"
    BY <1>3, <1>6 DEF RemovalRaises
  <2>2. OnlyAtWork(objects, dev)'
    BY <1>3, <2>1 DEF OnlyAtWork
  <2> QED BY <1>1, <1>3, <2>1, <2>2 DEF SettledInv
<1> QED BY <1>4, <1>5, <1>6

\* When the worker handles the last callback, the database gets the address.
LEMMA WorkerSettles ==
  ASSUME LifeTyped, SettledInv, Worker
  PROVE  SettledInv'
<1>1. /\ objects' = objects /\ dev' = dev /\ removals' = removals /\ told' = told
      /\ hasQuirk' = hasQuirk /\ address' = address /\ astray' = astray
      /\ queue # <<>> /\ queue' = Tail(queue)
  BY DEF Worker
<1>2. queue \in Seq(Operation)
  BY DEF LifeTyped, QueueOK
<1>3. /\ Len(queue) \in Nat \ {0} /\ Len(queue') = Len(queue) - 1
      /\ queue' = <<>> <=> Len(queue) = 1
      /\ Len(queue) # 1 => queue'[Len(queue')] = queue[Len(queue)]
      /\ Head(queue) = queue[1]
  <2>1. /\ Len(queue) \in Nat \ {0} /\ Tail(queue) \in Seq(Operation)
        /\ Len(Tail(queue)) = Len(queue) - 1 /\ Head(queue) = queue[1]
        /\ \A i \in 1 .. Len(queue) - 1 : Tail(queue)[i] = queue[i + 1]
    BY <1>1, <1>2, EmptySeq
  <2>2. Tail(queue) = <<>> <=> Len(Tail(queue)) = 0
    BY <2>1, EmptySeq
  <2> QED BY <1>1, <2>1, <2>2
<1>4. ASSUME AddressSaved(queue, objects, row, address)
      PROVE  AddressSaved(queue, objects, row, address)'
  <2>1. queue[Len(queue)].op = "save" /\ objects[queue[Len(queue)].of].nwk = address
    BY <1>1, <1>4 DEF AddressSaved
  <2>2. CASE Len(queue) = 1
    <3>1. row' = Saved(objects[queue[Len(queue)].of])
      BY <1>3, <2>1, <2>2 DEF Worker
    <3>2. row'.nwk = address
      BY <2>1, <3>1 DEF Saved
    <3> QED BY <1>1, <1>3, <2>2, <3>2 DEF AddressSaved
  <2>3. CASE Len(queue) # 1
    BY <1>1, <1>3, <2>1, <2>3 DEF AddressSaved
  <2> QED BY <2>2, <2>3
<1>5. ASSUME Finished(objects[dev]) PROVE Finished(objects[dev])'
  BY <1>1, <1>5 DEF Finished, IsInitialized, Matches
<1>6. OnlyAtWork(objects, dev) => OnlyAtWork(objects, dev)'
  BY <1>1 DEF OnlyAtWork
<1> QED BY <1>1, <1>4, <1>5, <1>6 DEF SettledInv

\* After a restart nobody is at work, and the address is the one of the row.
LEMMA RestartSettles == Restart => SettledInv'
<1> SUFFICES ASSUME Restart PROVE SettledInv'
  OBVIOUS
<1>1. /\ objects' = (IF row.present THEN <<Loaded>> ELSE <<>>)
      /\ dev' = (IF row.present THEN 1 ELSE 0)
      /\ removals' = 0 /\ told' = "none" /\ address' = row.nwk
  BY DEF Restart
<1>2. Loaded.task = "idle" /\ Loaded.nwk = row.nwk
  BY DEF Loaded
<1>3. OnlyAtWork(objects, dev)' /\ (dev' # 0 => objects'[dev'].nwk = address')
  BY <1>1, <1>2 DEF OnlyAtWork
<1> QED BY <1>1, <1>3 DEF SettledInv

\* Every step keeps the invariant.
LEMMA NextSettles == LifeTyped /\ SettledInv /\ [LifecycleNext]_lifecycleVars => SettledInv'
<1> SUFFICES ASSUME LifeTyped, SettledInv, [LifecycleNext]_lifecycleVars PROVE SettledInv'
  OBVIOUS
<1>1. CASE UNCHANGED lifecycleVars
  <2>1. /\ objects' = objects /\ dev' = dev /\ removals' = removals /\ told' = told
        /\ hasQuirk' = hasQuirk /\ address' = address /\ astray' = astray
        /\ queue' = queue /\ row' = row
    BY <1>1 DEF lifecycleVars
  <2> QED BY <2>1 DEF SettledInv, OnlyAtWork, AddressSaved, Finished, IsInitialized, Matches
<1> QED BY <1>1, JoinsSettle, TasksSettle, RemovalsSettle, WorkerSettles, RestartSettles
        DEF LifecycleNext

\* As long as no initialization goes astray, the invariant holds.
LEMMA SettledInvHolds == LifecycleSpec => [](LifeTyped /\ SettledInv)
<1>1. LifecycleInit => SettledInv
  BY DEF LifecycleInit, SettledInv, OnlyAtWork
<1>2. LifecycleInit => LifeTyped
  BY InitTyped
<1>3. LifeTyped /\ SettledInv /\ [LifecycleNext]_lifecycleVars => (LifeTyped /\ SettledInv)'
  BY NextTyped, NextSettles
<1> QED BY <1>1, <1>2, <1>3, PTL DEF LifecycleSpec

\* Only the object in `devices' is ever being initialized, however often the
\* device joins, moves, gets its quirk, is removed and comes back.
THEOREM OneAtWork == LifecycleSpec => []OneInitialization
<1>1. SettledInv => OneInitialization
  BY DEF SettledInv, OnlyAtWork, OneInitialization
<1> QED BY <1>1, SettledInvHolds, PTL

\* The object in `devices' has the address of the latest join, and so has the
\* database once it has caught up with the announcement.
THEOREM AddressFollowsJoins == LifecycleSpec => []AddressIsCurrent
<1>1. SettledInv => AddressIsCurrent
  BY DEF SettledInv, AddressSaved, AddressIsCurrent
<1> QED BY <1>1, SettledInvHolds, PTL

\* An announced device keeps its object as long as it is announced: no second
\* task and no second quirk takes its place.
THEOREM AnnouncedStays == LifecycleSpec => AnnouncedObjectStays
<1> DEFINE Stays == ~astray' /\ told = "initialized" /\ told' = "initialized" /\ dev # 0
                      => dev' = dev
<1>1. LifeTyped /\ SettledInv /\ [LifecycleNext]_lifecycleVars => [Stays]_lifecycleVars
  <2> SUFFICES ASSUME LifeTyped, SettledInv, LifecycleNext, ~astray',
                      told = "initialized", told' = "initialized", dev # 0
               PROVE  dev' = dev
    BY DEF lifecycleVars
  <2>1. ASSUME NEW o, NEW objs, NEW ops, NEW event, ScheduleInitialize(o, objs, ops, event)
        PROVE  ~astray /\ (event = "joined" => IsInitialized(objs[o]))
               /\ (IsInitialized(objs[o]) => DeviceInitialized(o, objs, ops))
    BY <2>1 DEF ScheduleInitialize
  <2>2. ~astray => /\ OnlyAtWork(objects, dev) /\ removals <= 0 /\ Finished(objects[dev])
    BY DEF SettledInv, LifeTyped
  <2>3. dev \in 1 .. Len(objects) /\ objects \in Seq(Object)
    BY DEF LifeTyped
  <2>4. ASSUME NEW nwk \in Nwks, JoinMoved(nwk) PROVE dev' = dev
    <3> DEFINE objs == [objects EXCEPT ![dev].nwk = nwk]
    <3>1. ScheduleInitialize(dev, objs, Append(queue, SaveNwk(nwk)), "joined")
          /\ hasQuirk' = hasQuirk
      BY <2>4 DEF JoinMoved, ScheduleInitialize
    <3>2. objects[dev] \in Object /\ objs[dev] = [objects[dev] EXCEPT !.nwk = nwk]
      BY <2>3
    <3>3. objs[dev].asked = objects[dev].asked /\ objs[dev].quirk = objects[dev].quirk
      BY <3>2 DEF Object
    <3> HIDE DEF objs
    <3>4. ~Matches(objs[dev]) /\ DeviceInitialized(dev, objs, Append(queue, SaveNwk(nwk)))
      BY <2>1, <2>2, <3>1, <3>3 DEF Finished, Matches
    <3> QED BY <3>4 DEF DeviceInitialized
  <2>5. ASSUME NEW o \in 1 .. Len(objects), TaskStep(o) PROVE dev' = dev
    <3>1. CASE InitializeFinishes(o)
      <4>1. ~astray /\ objects[o].task = "running"
        BY <3>1 DEF InitializeFinishes
      <4> QED BY <2>2, <4>1 DEF OnlyAtWork, Finished
    <3> QED BY <2>5, <3>1 DEF TaskStep, Discover, Retry, GiveUp, InitializeCancelled
  <2>6. ASSUME NEW nwk \in Nwks, JoinNew(nwk) PROVE dev' = dev
    BY <2>6 DEF JoinNew
  <2>7. CASE JoinAgain \/ PacketReceived
    <3>1. ScheduleInitialize(dev, objects, queue, told) /\ ~IsInitialized(objects[dev])
      BY <2>7 DEF JoinAgain, PacketReceived
    <3> QED BY <2>1, <2>2, <3>1 DEF Finished
  <2>8. CASE RemovalDone
    <3>1. ~astray /\ removals > 0
      BY <2>8 DEF RemovalDone
    <3> QED BY <2>2, <3>1 DEF LifeTyped
  <2>9. CASE Remove \/ RemovalRaises \/ Worker \/ Restart
    BY <2>9 DEF Remove, RemovalRaises, Worker, Restart
  <2> QED BY <2>4, <2>5, <2>6, <2>7, <2>8, <2>9 DEF LifecycleNext
<1> QED BY <1>1, SettledInvHolds, PTL DEF LifecycleSpec, AnnouncedObjectStays

=============================================================================
