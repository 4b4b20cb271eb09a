------------------------- MODULE PrioritySemaphore -------------------------
(***************************************************************************)
(* PriorityDynamicBoundedSemaphore and PriorityLock of                     *)
(* zigpy/datastructures.py, as the tasks of one asyncio event loop use     *)
(* them: `async with sem(priority)', cancelled at any moment.              *)
(*                                                                         *)
(* An asyncio task runs without interruption between two awaits, so one    *)
(* action is the code from one await to the next.  Setting a future's      *)
(* result, or cancelling it, only schedules its task: the task is then     *)
(* "woken" or "cancelling" until the event loop resumes it, and anything   *)
(* may run before that.  The loop's ready queue is FIFO; here any          *)
(* scheduled task may be next, so what holds here holds for every order.   *)
(***************************************************************************)
EXTENDS Integers, Sequences, FiniteSets

CONSTANTS
  Tasks,          \* the tasks that use the semaphore
  PriorityOf,     \* the priority each of them passes to acquire()
  InitialMax,     \* the argument of __init__
  NewMaxValues,   \* the values the max_value setter is called with
  CanCancel,      \* whether waiting tasks are cancelled
  MaxStale        \* bound: cancelled entries left in the heap

ASSUME TasksFinite == IsFiniteSet(Tasks)
ASSUME PrioritiesAreIntegers == PriorityOf \in [Tasks -> Int]
ASSUME MaxValuesAreNaturals == InitialMax \in Nat /\ NewMaxValues \subseteq Nat
ASSUME CancelChoice == CanCancel \in BOOLEAN /\ MaxStale \in Nat

VARIABLES
  pc,              \* where each task is in acquire() ... release()
  value,           \* _value
  maxValue,        \* _max_value
  waiters,         \* _waiters, in the order heappop would return it
  wakeupScheduled  \* _wakeup_scheduled

vars == <<pc, value, maxValue, waiters, wakeupScheduled>>

-----------------------------------------------------------------------------
(* The heap.  Its order is (-priority, comparison counter), and the counter *)
(* grows with every push: an entry goes behind those of its priority.       *)

Entries == [task : Tasks, done : BOOLEAN]

\* Mutant of Pushed: the counter that breaks ties falls instead of growing.
PushedInFront(t) ==
  LET n == Cardinality({i \in DOMAIN waiters :
                          PriorityOf[waiters[i].task] > PriorityOf[t]})
  IN  SubSeq(waiters, 1, n) \o <<[task |-> t, done |-> FALSE]>>
        \o SubSeq(waiters, n + 1, Len(waiters))

\* heappush of a new pending future of task t.
Pushed(t) ==
  LET n == Cardinality({i \in DOMAIN waiters :
                          PriorityOf[waiters[i].task] >= PriorityOf[t]})
  IN  SubSeq(waiters, 1, n) \o <<[task |-> t, done |-> FALSE]>>
        \o SubSeq(waiters, n + 1, Len(waiters))

\* The pending entries in front of the i-th.
LiveBefore(i) == {j \in 1 .. i - 1 : ~waiters[j].done}

\* How many entries k calls of _wake_up_next pop: each call drops the done
\* ones it meets and stops behind the first pending one, or empties the heap.
Popped(k) == Cardinality({i \in DOMAIN waiters : Cardinality(LiveBefore(i)) < k})

\* The tasks whose futures those calls resolve.
Woken(k) == {waiters[i].task : i \in {j \in 1 .. Popped(k) : ~waiters[j].done}}

\* k calls of _wake_up_next, as seen by everyone but the caller.
WakeUpNext(k) ==
  /\ waiters' = SubSeq(waiters, Popped(k) + 1, Len(waiters))
  /\ wakeupScheduled' = (wakeupScheduled \/ Woken(k) # {})

-----------------------------------------------------------------------------
Init ==
  /\ pc = [t \in Tasks |-> "idle"]
  /\ value = InitialMax
  /\ maxValue = InitialMax
  /\ waiters = <<>>
  /\ wakeupScheduled = FALSE

\* Mutants of MustWait: an off-by-one; and acquire() without the flag, where a new
\* task takes the permit of one that was just woken.
MustWaitBelowZero(flag) == flag \/ value < 0
\* The condition of acquire()'s loop, given what the flag is when it is read.
MustWait(flag) == flag \/ value <= 0

\* acquire() up to its first await, or to the end if it need not wait.
AcquireAtOnce(t) ==
  /\ pc[t] = "idle"
  /\ ~MustWait(wakeupScheduled)
  /\ pc' = [pc EXCEPT ![t] = "holding"]
  /\ value' = value - 1
  /\ UNCHANGED <<maxValue, waiters, wakeupScheduled>>

AcquireWait(t) ==
  /\ pc[t] = "idle"
  /\ MustWait(wakeupScheduled)
  /\ pc' = [pc EXCEPT ![t] = "waiting"]
  /\ waiters' = Pushed(t)
  /\ UNCHANGED <<value, maxValue, wakeupScheduled>>

\* A woken task resumes behind `await fut': it clears the flag, whoever else
\* has been woken meanwhile, and evaluates the loop's condition again.
ResumeEnter(t) ==
  /\ pc[t] = "woken"
  /\ ~MustWait(FALSE)
  /\ pc' = [pc EXCEPT ![t] = "holding"]
  /\ value' = value - 1
  /\ wakeupScheduled' = FALSE
  /\ UNCHANGED <<maxValue, waiters>>

ResumeWait(t) ==
  /\ pc[t] = "woken"
  /\ MustWait(FALSE)
  /\ pc' = [pc EXCEPT ![t] = "waiting"]
  /\ waiters' = Pushed(t)
  /\ wakeupScheduled' = FALSE
  /\ UNCHANGED <<value, maxValue>>

\* Task.cancel() on a waiter whose future is pending cancels the future; its
\* entry stays in the heap.
CancelPending(t) ==
  /\ CanCancel
  /\ pc[t] = "waiting"
  /\ Cardinality({i \in DOMAIN waiters : waiters[i].done}) < MaxStale
  /\ pc' = [pc EXCEPT ![t] = "cancelling"]
  /\ waiters' = [i \in DOMAIN waiters |->
                   IF waiters[i].task = t
                   THEN [waiters[i] EXCEPT !.done = TRUE] ELSE waiters[i]]
  /\ UNCHANGED <<value, maxValue, wakeupScheduled>>

\* Task.cancel() on a waiter whose future has its result already: the task
\* will get CancelledError at its await instead of the result.
CancelWoken(t) ==
  /\ CanCancel
  /\ pc[t] = "woken"
  /\ pc' = [pc EXCEPT ![t] = "cancelling"]
  /\ UNCHANGED <<value, maxValue, waiters, wakeupScheduled>>

\* Mutant of ResumeCancelled: it calls release() in place of _wake_up_next().
ResumeCancelledReleases(t) ==
  /\ pc[t] = "cancelling"
  /\ pc' = [u \in Tasks |-> IF u \in Woken(1) THEN "woken"
                            ELSE IF u = t THEN "idle" ELSE pc[u]]
  /\ WakeUpNext(1)
  /\ value' = value + 1
  /\ UNCHANGED maxValue

\* The task under CancelledError: _wake_up_next, then raise.  The flag is not
\* touched unless somebody is woken.
ResumeCancelled(t) ==
  /\ pc[t] = "cancelling"
  /\ pc' = [u \in Tasks |-> IF u \in Woken(1) THEN "woken"
                            ELSE IF u = t THEN "idle" ELSE pc[u]]
  /\ WakeUpNext(1)
  /\ UNCHANGED <<value, maxValue>>

\* Mutant of Release: nobody is woken.
ReleaseSilently(t) ==
  /\ pc[t] = "holding"
  /\ pc' = [pc EXCEPT ![t] = "idle"]
  /\ value' = value + 1
  /\ UNCHANGED <<maxValue, waiters, wakeupScheduled>>

\* release() by a task that holds the semaphore (__aexit__).  When it finds
\* _value >= _max_value it raises ValueError and changes nothing.
Release(t) ==
  LET k == IF value >= maxValue THEN 0 ELSE 1
  IN  /\ pc[t] = "holding"
      /\ pc' = [u \in Tasks |-> IF u \in Woken(k) THEN "woken"
                                ELSE IF u = t THEN "idle" ELSE pc[u]]
      /\ value' = value + k
      /\ WakeUpNext(k)
      /\ UNCHANGED maxValue

\* How many waiters the max_value setter wakes.
WakeCount(delta) ==
  IF delta <= 0 THEN 0 ELSE IF delta < Len(waiters) THEN delta ELSE Len(waiters)

SetMaxValue(n) ==
  LET delta == n - maxValue
  IN  /\ value' = value + delta
      /\ maxValue' = n
      /\ pc' = [u \in Tasks |-> IF u \in Woken(WakeCount(delta))
                                THEN "woken" ELSE pc[u]]
      /\ WakeUpNext(WakeCount(delta))

Resume(t) == ResumeEnter(t) \/ ResumeWait(t) \/ ResumeCancelled(t)

TaskStep(t) ==
  \/ AcquireAtOnce(t) \/ AcquireWait(t)
  \/ Resume(t)
  \/ CancelPending(t) \/ CancelWoken(t)
  \/ Release(t)

Next ==
  \/ \E t \in Tasks : TaskStep(t)
  \/ \E n \in NewMaxValues : SetMaxValue(n)

Spec == Init /\ [][Next]_vars

\* The event loop resumes what it has scheduled, and code inside a
\* `async with' block ends (every request in it has a timeout).  No task has
\* to call acquire() and nobody has to cancel.
Fairness == \A t \in Tasks : WF_vars(Resume(t)) /\ WF_vars(Release(t))

FairSpec == Spec /\ Fairness
-----------------------------------------------------------------------------
(* Properties.                                                             *)

Holders   == {t \in Tasks : pc[t] = "holding"}
Waiting   == {t \in Tasks : pc[t] = "waiting"}
Scheduled == {t \in Tasks : pc[t] \in {"woken", "cancelling"}}

TypeOK ==
  /\ pc \in [Tasks -> {"idle", "waiting", "woken", "cancelling", "holding"}]
  /\ value \in Int
  /\ maxValue \in Nat
  /\ waiters \in Seq(Entries)
  /\ wakeupScheduled \in BOOLEAN

\* The counter and the tasks inside always add up to the maximum: no
\* interleaving of acquire, release, cancellation and max_value changes loses
\* a permit or makes one up, so release() never raises for a holder.
Conservation == value = maxValue - Cardinality(Holders)

\* A pending entry of the heap is the await of a waiting task, a waiting task
\* has exactly one, and nobody is waiting who can no longer be found and woken.
WaitersAreQueued ==
  \A t \in Tasks :
    Cardinality({i \in DOMAIN waiters : waiters[i].task = t /\ ~waiters[i].done})
      = IF pc[t] = "waiting" THEN 1 ELSE 0

\* The comment in acquire(): the flag "is set if *another* task is scheduled
\* to wakeup but its acquire() is not resumed yet".
FlagMeansScheduled == wakeupScheduled => Scheduled # {}

\* The docstring of acquire(): a task blocks while the counter is zero, until
\* a release() makes it larger.  While the counter is larger than zero and
\* somebody waits, somebody has been woken and will look at the counter.
NoLostWakeup == value > 0 /\ Waiting # {} => Scheduled # {}

\* A task that was woken gets the semaphore: it is not sent back to the end
\* of the queue because somebody else took its permit first.
NeverRequeued ==
  [][\A t \in Tasks : pc[t] = "woken" => pc'[t] # "waiting"]_vars

\* A task of the highest priority that waits gets in.
TopPriorityServed ==
  \A t \in Tasks :
    (\A u \in Tasks : PriorityOf[u] <= PriorityOf[t]) =>
      (pc[t] = "waiting" ~> pc[t] = "holding")

\* The semaphore implements the counting semaphore it promises to be.
Abstract == INSTANCE CountingSemaphore
              WITH holders <- Holders, limit <- maxValue,
                   Limits <- NewMaxValues \cup {InitialMax}

ImplementsCountingSemaphore == Abstract!Spec
=============================================================================
