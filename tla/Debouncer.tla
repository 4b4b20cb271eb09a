----------------------------- MODULE Debouncer -----------------------------
(***************************************************************************)
(* The debouncer that drops repeated packets (zigpy.datastructures).  It   *)
(* remembers each object it lets pass until the object's window is over.   *)
(* The objects are in a heap ordered by the negated time at which they     *)
(* expire, and clean() takes expired ones from the end of the heap's list. *)
(***************************************************************************)
EXTENDS Integers, Sequences

CONSTANTS
  Objects,     \* what may be passed to filter()
  Windows,     \* the values of expire_in: one in zigpy, PACKET_DEBOUNCE_WINDOW
  MaxTime,     \* bound: the clock
  MaxCalls     \* bound: calls of filter() at one reading of the clock

ASSUME WindowsArePositive == Windows \subseteq Nat \ {0}
ASSUME BoundsAreNaturals == MaxTime \in Nat /\ MaxCalls \in Nat

VARIABLES
  now,         \* the event loop's clock
  times,       \* _times: when the objects that are remembered expire
  queue,       \* _queue: the list that holds the heap, from 1
  lastTime,    \* _last_time
  dedup,       \* _dedup_counter
  passed,      \* history: when the latest window of each object ends, or 0
  filtered     \* history: the object that filter() has just held back, if any

debouncerVars == <<now, times, queue, lastTime, dedup, passed, filtered>>

DebouncerInit ==
  /\ now = 1
  /\ times = [o \in {} |-> 0]
  /\ queue = <<>>
  /\ lastTime = 0
  /\ dedup = 0
  /\ passed = [o \in Objects |-> 0]
  /\ filtered = {}

-----------------------------------------------------------------------------
(* The heap.                                                               *)

\* The entries are compared as (-at, dedup, obj); obj is never reached.
Less(x, y) == x.at > y.at \/ (x.at = y.at /\ x.dedup < y.dedup)

\* The places between the end of a list of n and the root: what is in every set
\* that has the end and, with a place, its parent.
Path(n) ==
  {i \in 1 .. n : \A S \in SUBSET (1 .. n) :
     n \in S /\ (\A k \in S \ {1} : k \div 2 \in S) => i \in S}

\* heappush: x climbs from the end until its parent is not greater, and the
\* entries it passes come down one place on the path.
Push(q, x) ==
  LET n == Len(q) + 1
      path == Path(n)
      stays == {i \in path : i = 1 \/ ~Less(x, q[i \div 2])}
      place == CHOOSE i \in stays : \A j \in stays : j <= i
  IN  [i \in 1 .. n |-> IF i = place THEN x
                        ELSE IF i \in path /\ i > place THEN q[i \div 2]
                        ELSE q[i]]

\* Mutant of Kept: an entry goes when its window is just over.
KeptLess(q) ==
  CHOOSE n \in 0 .. Len(q) :
    /\ n = 0 \/ q[n].at > now
    /\ \A i \in n + 1 .. Len(q) : q[i].at <= now

\* clean(): the number of entries that are kept, when the last one is taken
\* away as long as it has expired.
Kept(q) ==
  CHOOSE n \in 0 .. Len(q) :
    /\ n = 0 \/ q[n].at >= now
    /\ \A i \in n + 1 .. Len(q) : q[i].at < now

Cleaned == SubSeq(queue, 1, Kept(queue))

\* _times without the objects that were taken from the heap.
TimesLeft ==
  [o \in DOMAIN times \ {queue[i].obj : i \in Kept(queue) + 1 .. Len(queue)} |-> times[o]]

-----------------------------------------------------------------------------
\* Mutant of Dedup: the counter is used before it is incremented.
DedupFromZero == IF now > lastTime THEN 0 ELSE dedup + 1

\* Mutant of Dedup: the counter is always reset.
DedupReset == 1

\* The counter tells the entries apart that are made at one reading.
Dedup == IF now > lastTime THEN 1 ELSE dedup + 1

\* is_filtered, after clean().
Remembered(obj) == obj \in DOMAIN TimesLeft

\* filter() holds the object back.
HoldBack(obj) ==
  /\ Remembered(obj)
  /\ queue' = Cleaned
  /\ times' = TimesLeft
  /\ filtered' = {obj}
  /\ UNCHANGED passed

\* filter() lets the object pass and remembers it.
LetPass(obj, window) ==
  /\ ~Remembered(obj)
  /\ queue' = Push(Cleaned, [at |-> now + window, dedup |-> Dedup, obj |-> obj])
  /\ times' = [o \in DOMAIN TimesLeft \cup {obj} |->
                 IF o = obj THEN now + window ELSE times[o]]
  /\ passed' = [passed EXCEPT ![obj] = now + window]
  /\ filtered' = {}

Filter(obj, window) ==
  /\ Dedup <= MaxCalls
  /\ dedup' = Dedup
  /\ lastTime' = IF now > lastTime THEN now ELSE lastTime
  /\ HoldBack(obj) \/ LetPass(obj, window)
  /\ UNCHANGED now

\* clean() and is_filtered() called from outside.
Clean ==
  /\ queue' = Cleaned
  /\ times' = TimesLeft
  /\ filtered' = {}
  /\ UNCHANGED <<now, lastTime, dedup, passed>>

\* The clock may be of low resolution: any number of calls read the same time.
Tick ==
  /\ now < MaxTime
  /\ now' = now + 1
  /\ filtered' = {}
  /\ UNCHANGED <<times, queue, lastTime, dedup, passed>>

DebouncerNext ==
  \/ \E obj \in Objects, window \in Windows : Filter(obj, window)
  \/ Clean \/ Tick

DebouncerSpec == DebouncerInit /\ [][DebouncerNext]_debouncerVars

-----------------------------------------------------------------------------
(* Properties.                                                             *)

Entry == [at : Nat, dedup : 1 .. MaxCalls, obj : Objects]

DebouncerTypeOK ==
  /\ now \in Nat
  /\ DOMAIN times \subseteq Objects
  /\ \A o \in DOMAIN times : times[o] \in Nat
  /\ queue \in Seq(Entry)
  /\ lastTime \in 0 .. now
  /\ dedup \in 0 .. MaxCalls
  /\ passed \in [Objects -> Nat]
  /\ filtered \subseteq Objects

\* The heap and the dictionary hold the same objects, each once and with the
\* same time: otherwise clean() would pop what is not there (KeyError), or
\* forget an object whose later window is not over.
TrackedOnce ==
  /\ \A i \in DOMAIN queue : /\ queue[i].obj \in DOMAIN times
                             /\ times[queue[i].obj] = queue[i].at
  /\ \A o \in DOMAIN times : \E i \in DOMAIN queue : queue[i].obj = o
  /\ \A i, j \in DOMAIN queue : queue[i].obj = queue[j].obj => i = j

\* No two entries are equal in time and counter, so that the heap never
\* compares the objects, which have no order (TypeError).
NeverCompared ==
  \A i, j \in DOMAIN queue :
    queue[i].at = queue[j].at /\ queue[i].dedup = queue[j].dedup => i = j

\* No object passes again before the window it passed with is over, whatever
\* else passes meanwhile and however the heap is arranged.
DuplicatesHeldBack ==
  [][\A o \in Objects : passed'[o] # passed[o] => now > passed[o]]_debouncerVars

\* filter() never raises: neither KeyError nor TypeError.
FilterNeverRaises == TrackedOnce /\ NeverCompared

\* is_filtered's comment says that an object that is still there after
\* cleaning has not expired.
HeldBackIsFresh ==
  \A o \in filtered : passed[o] >= now
=============================================================================
