--------------------------- MODULE DeviceRequests ---------------------------
(***************************************************************************)
(* The requests to one device and the frames that come from it:            *)
(* Device.request, Device.get_sequence and the part of                     *)
(* Device.packet_received that completes requests (zigpy/device.py), with  *)
(* the table of pending requests (Request and Requests of zigpy/util.py)   *)
(* and the device's semaphore, which is PrioritySemaphore.                 *)
(*                                                                         *)
(* Requests are numbered 1, 2, 3, ... in the order in which they take      *)
(* their sequence number; on the air request n carries only                *)
(* n % TsnModulus, and so does the reply to it.  A caller is one task that *)
(* makes one request after another.                                        *)
(***************************************************************************)
EXTENDS Integers, Sequences, FiniteSets

CONSTANTS
  Callers,         \* the tasks that talk to the device
  PriorityOf,      \* the priority of each caller's requests
  Expects,         \* the callers whose requests expect a reply
  CanCancel,       \* whether a request waiting for its turn is cancelled
  MaxConcurrency,  \* MAX_DEVICE_CONCURRENCY, 1 in the code
  TsnModulus,      \* 256 in the code
  Window,          \* assumption: what is older than this many requests is gone
  MaxRequests,     \* bound: the requests made in all
  MaxStale         \* bound: see PrioritySemaphore

ASSUME CallersFinite == IsFiniteSet(Callers)
ASSUME CallersHavePriorities == PriorityOf \in [Callers -> Int] /\ Expects \subseteq Callers
ASSUME SemaphoreParameters ==
  MaxConcurrency \in Nat /\ CanCancel \in BOOLEAN /\ MaxStale \in Nat
ASSUME NumbersAreNaturals ==
  TsnModulus \in Nat \ {0} /\ Window \in Nat \ {0} /\ MaxRequests \in Nat

VARIABLES
  pc, value, maxValue, waiters, wakeupScheduled,
              \* the semaphore; pc[c] is the place of caller c in it
  last,       \* the number of the latest request
  number,     \* per caller: the number of the request it is making
  stage,      \* per caller inside the semaphore: "sending", "awaiting" or
              \* "rejected"; "out" outside
  interrupt,  \* per caller: what task.cancel() was called for
  pending,    \* _pending: the caller a TSN belongs to
  result,     \* per caller: the future of its Request
  air         \* the requests whose replies are on their way

semVars == <<pc, value, maxValue, waiters, wakeupScheduled>>
vars == <<semVars, last, number, stage, interrupt, pending, result, air>>

Semaphore == INSTANCE PrioritySemaphore
               WITH Tasks <- Callers, InitialMax <- MaxConcurrency, NewMaxValues <- {}

-----------------------------------------------------------------------------
\* Mutant of Tsn: it wraps around one request too early.
TsnShort(n) == n % (TsnModulus - 1)

\* Mutant of Tsn: it wraps around to one.
TsnFromOne(n) == 1 + (n % TsnModulus)

Tsn(n) == n % TsnModulus

\* What a future can hold: nothing yet, the reply to request n, a parsing
\* error of that reply, a frame that was not a reply, or its cancellation.
NoResult  == [kind |-> "none", from |-> 0]
Cancelled == [kind |-> "cancelled", from |-> 0]
Reply(n)  == [kind |-> "reply", from |-> n]
Garbled(n) == [kind |-> "garbled", from |-> n]
Notification == [kind |-> "notification", from |-> 0]

\* Assumption: a reply on the air belongs to one of the latest `Window' requests.
Recent(n) == last - n < Window

Busy(c) == pc[c] # "idle"

Init ==
  /\ Semaphore!Init
  /\ last = 0
  /\ number = [c \in Callers |-> 0]
  /\ stage = [c \in Callers |-> "out"]
  /\ interrupt = [c \in Callers |-> "none"]
  /\ pending = [s \in {} |-> 0]
  /\ result = [c \in Callers |-> NoResult]
  /\ air = {}

-----------------------------------------------------------------------------
(* Device.request.                                                         *)

\* What follows the semaphore's acquire() without an await: Requests.new,
\* Request.__enter__ and the first part of send_request().  A TSN that is
\* pending already raises ControllerException instead.
Begin(c, n) ==
  IF c \in Expects /\ Tsn(n) \in DOMAIN pending
  THEN /\ stage' = [stage EXCEPT ![c] = "rejected"]
       /\ UNCHANGED <<pending, result>>
  ELSE /\ stage' = [stage EXCEPT ![c] = "sending"]
       /\ IF c \in Expects
          THEN /\ pending' = [s \in DOMAIN pending \cup {Tsn(n)} |->
                                IF s = Tsn(n) THEN c ELSE pending[s]]
               /\ result' = [result EXCEPT ![c] = NoResult]
          ELSE UNCHANGED <<pending, result>>

\* get_sequence() and request() up to the first await.
TakeSequence(c) ==
  /\ last < MaxRequests
  /\ last' = last + 1
  /\ number' = [number EXCEPT ![c] = last + 1]
  /\ air' = {n \in air : last + 1 - n < Window}
  /\ UNCHANGED interrupt

StartAtOnce(c) ==
  /\ Semaphore!AcquireAtOnce(c)
  /\ TakeSequence(c)
  /\ Begin(c, last + 1)

StartQueued(c) ==
  /\ Semaphore!AcquireWait(c)
  /\ TakeSequence(c)
  /\ UNCHANGED <<stage, pending, result>>

\* The semaphore lets the caller in.
Enter(c) ==
  /\ Semaphore!ResumeEnter(c)
  /\ Begin(c, number[c])
  /\ UNCHANGED <<last, number, interrupt, air>>

Requeue(c) ==
  /\ Semaphore!ResumeWait(c)
  /\ UNCHANGED <<last, number, stage, interrupt, pending, result, air>>

\* Cancelled while it waits for its turn.
CancelQueued(c) ==
  /\ Semaphore!CancelPending(c) \/ Semaphore!CancelWoken(c)
  /\ UNCHANGED <<last, number, stage, interrupt, pending, result, air>>

LeaveQueue(c) ==
  /\ Semaphore!ResumeCancelled(c)
  /\ UNCHANGED <<last, number, stage, interrupt, pending, result, air>>

\* Mutant of Exit: Request.__exit__ pops the TSN only when it has an answer.
ExitWithAnswer(c) ==
  /\ Semaphore!Release(c)
  /\ stage' = [stage EXCEPT ![c] = "out"]
  /\ interrupt' = [interrupt EXCEPT ![c] = "none"]
  /\ pending' = IF c \in Expects /\ result[c].kind = "reply"
                THEN [s \in DOMAIN pending \ {Tsn(number[c])} |-> pending[s]]
                ELSE pending
  /\ result' = [result EXCEPT ![c] = NoResult]
  /\ UNCHANGED <<last, number, air>>

\* Request.__exit__ and the semaphore's __aexit__: the TSN is free again, the
\* next caller is woken, and the future is gone with its Request.
Exit(c) ==
  /\ Semaphore!Release(c)
  /\ stage' = [stage EXCEPT ![c] = "out"]
  /\ interrupt' = [interrupt EXCEPT ![c] = "none"]
  /\ pending' = IF c \in Expects /\ stage[c] # "rejected"
                THEN [s \in DOMAIN pending \ {Tsn(number[c])} |-> pending[s]]
                ELSE pending
  /\ result' = [result EXCEPT ![c] = NoResult]
  /\ UNCHANGED <<last, number, air>>

\* The radio has taken the frame, and the caller goes on to the reply.  The
\* device may have answered already: `await req.result' does not wait then.
SendDone(c) ==
  /\ stage[c] = "sending"
  /\ interrupt[c] = "none"
  /\ IF c \in Expects /\ result[c] = NoResult
     THEN /\ stage' = [stage EXCEPT ![c] = "awaiting"]
          /\ UNCHANGED <<semVars, last, number, interrupt, pending, result, air>>
     ELSE Exit(c)

\* The body of `async with' raises: the radio could not deliver the frame
\* (DeliveryError), the caller was cancelled, or Requests.new has refused the
\* TSN (ControllerException).
SendFailed(c) == stage[c] \in {"sending", "rejected"} /\ Exit(c)

\* The device receives the request and answers it, even when the sender is
\* told that the delivery failed.  A request that was overtaken by a whole `Window'
\* of others before its turn came gets no answer here.
Answer(c) ==
  /\ stage[c] = "sending"
  /\ c \in Expects /\ Recent(number[c])
  /\ air' = air \cup {number[c]}
  /\ UNCHANGED <<semVars, last, number, stage, interrupt, pending, result>>

\* Mutant of Interrupt: the future is shielded from the caller's cancellation.
InterruptShielded(c, why) ==
  /\ stage[c] \in (IF why = "timeout" THEN {"awaiting"} ELSE {"sending", "awaiting"})
  /\ interrupt[c] = "none"
  /\ interrupt' = [interrupt EXCEPT ![c] = why]
  /\ UNCHANGED <<semVars, last, number, stage, pending, result, air>>

\* task.cancel(), by asyncio_timeout around `await req.result' or by someone
\* else at any await.  It cancels the future unless that is done; if it is,
\* the caller gets CancelledError in the place of the result.
Interrupt(c, why) ==
  /\ stage[c] \in (IF why = "timeout" THEN {"awaiting"} ELSE {"sending", "awaiting"})
  /\ interrupt[c] = "none"
  /\ interrupt' = [interrupt EXCEPT ![c] = why]
  /\ result' = [result EXCEPT ![c] =
                  IF stage[c] = "awaiting" /\ @ = NoResult THEN Cancelled ELSE @]
  /\ UNCHANGED <<semVars, last, number, stage, pending, air>>

\* The caller resumes behind `await req.result' and returns what the future
\* holds, or raises what interrupted it.
Finish(c) ==
  /\ stage[c] = "awaiting"
  /\ result[c] # NoResult
  /\ Exit(c)

-----------------------------------------------------------------------------
(* Device.packet_received, for frames that go from server to client by their *)
(* command's definition, or by their header if the command is not known or   *)
(* cannot be parsed: it looks for a pending request of that TSN and nothing   *)
(* else.  Other frames, attribute reports among them, never come here.       *)

Resolve(tsn, with) ==
  /\ tsn \in DOMAIN pending
  /\ result' = [result EXCEPT ![pending[tsn]] = IF @ = NoResult THEN with ELSE @]
  /\ UNCHANGED <<semVars, last, number, stage, interrupt, pending, air>>

\* The reply to request n comes in, in order or not, once or more often, and
\* with a payload that can be parsed or not.
ReplyReceived(n) ==
  /\ n \in air
  /\ Resolve(Tsn(n), Reply(n)) \/ Resolve(Tsn(n), Garbled(n))

\* A frame the device sends by itself with a TSN of its own choice, and whose
\* direction is that of a response: operation_event_notification of a door lock,
\* or a manufacturer's command that the cluster does not know.
NotificationReceived(tsn) == Resolve(tsn, Notification)

\* A reply is lost, or comes in when nobody waits for its TSN any more.
Dropped(n) ==
  /\ n \in air
  /\ air' = air \ {n}
  /\ UNCHANGED <<semVars, last, number, stage, interrupt, pending, result>>

CallerStep(c) ==
  \/ StartAtOnce(c) \/ StartQueued(c)
  \/ Enter(c) \/ Requeue(c) \/ CancelQueued(c) \/ LeaveQueue(c)
  \/ SendDone(c) \/ SendFailed(c)
  \/ Interrupt(c, "timeout") \/ Interrupt(c, "cancelled")
  \/ Finish(c)

DeviceStep ==
  \/ \E c \in Callers : Answer(c)
  \/ \E n \in air : ReplyReceived(n) \/ Dropped(n)
  \/ \E tsn \in DOMAIN pending : NotificationReceived(tsn)

Next == (\E c \in Callers : CallerStep(c)) \/ DeviceStep

Spec == Init /\ [][Next]_vars

\* The event loop resumes what it has scheduled, the radio library comes back
\* from sending one way or the other, and a timeout is set for every reply.
Fairness ==
  \A c \in Callers :
    /\ WF_vars(Enter(c) \/ Requeue(c) \/ LeaveQueue(c))
    /\ WF_vars(SendDone(c) \/ SendFailed(c))
    /\ WF_vars(Interrupt(c, "timeout"))
    /\ WF_vars(Finish(c))

FairSpec == Spec /\ Fairness

-----------------------------------------------------------------------------
(* Properties.                                                             *)

Kinds == {"none", "cancelled", "reply", "garbled", "notification"}

TypeOK ==
  /\ Semaphore!TypeOK
  /\ last \in Nat
  /\ number \in [Callers -> Nat]
  /\ stage \in [Callers -> {"out", "sending", "awaiting", "rejected"}]
  /\ interrupt \in [Callers -> {"none", "timeout", "cancelled"}]
  /\ DOMAIN pending \subseteq 0 .. TsnModulus - 1
  /\ \A s \in DOMAIN pending : pending[s] \in Callers
  /\ result \in [Callers -> [kind : Kinds, from : Nat]]
  /\ air \subseteq Nat

\* A TSN is in the table exactly as long as its request is between new() and
\* __exit__: whatever ends a request, nothing is left behind and nobody else's
\* entry is taken out.
PendingIsExact ==
  /\ \A c \in Callers :
       c \in Expects /\ stage[c] \in {"sending", "awaiting"} =>
         Tsn(number[c]) \in DOMAIN pending /\ pending[Tsn(number[c])] = c
  /\ \A s \in DOMAIN pending :
       /\ stage[pending[s]] \in {"sending", "awaiting"}
       /\ Tsn(number[pending[s]]) = s

\* With one request at a time per device two of them never fight for a TSN:
\* Requests.new does not raise, however the numbers wrap around.
NoDuplicateTsn == \A c \in Callers : stage[c] # "rejected"

\* A reply never completes another request than the one it answers, unless that
\* request had to wait so long that its TSN went around meanwhile.
RepliesReachTheirRequest ==
  \A c \in Callers :
    result[c].kind \in {"reply", "garbled"} /\ Recent(number[c]) => result[c].from = number[c]

\* The comment in packet_received: "Resolve the future if this is a response
\* to a request".
OnlyResponsesResolve == \A c \in Callers : result[c].kind # "notification"

\* The flag of the semaphore is set and nobody is left to clear it: the state
\* a cancellation between set_result and the resumption can lead to.
WakeupLost == wakeupScheduled /\ Semaphore!Scheduled = {}

\* Nobody with a higher priority than c wants to talk to the device, and nobody was
\* cancelled while waiting for that.
Undisturbed(c) ==
  \A d \in Callers : (PriorityOf[d] > PriorityOf[c] => ~Busy(d)) /\ pc[d] # "cancelling"

\* A request that has got its turn ends, with a reply, a timeout or an error.  One that
\* waits for its turn has no timeout: it ends as well if from some time on there are no
\* requests of higher priorities and no cancellations in the queue, however many
\* requests there are of its own priority and of lower ones, unless a wakeup of the
\* semaphore was lost.
RequestsEnd ==
  \A c \in Callers :
    /\ stage[c] # "out" ~> stage[c] = "out"
    /\ <>[]Undisturbed(c) => (Busy(c) ~> (~Busy(c) \/ WakeupLost))
=============================================================================
