---------------------- MODULE PrioritySemaphoreProofs ----------------------
(***************************************************************************)
(* Proofs about PrioritySemaphore, for every set of tasks, every           *)
(* assignment of priorities and every initial and later maximum.           *)
(***************************************************************************)
EXTENDS ArrivalOrder, FiniteSetTheorems, SequenceTheorems, TLAPS

-----------------------------------------------------------------------------
(* The heap.                                                               *)

\* The entries that heappop returns before a new one of t.
PlacesAhead(t) == {i \in DOMAIN waiters : PriorityOf[waiters[i].task] >= PriorityOf[t]}

\* What heappush does to a well-typed heap: one pending entry of t is put
\* behind as many as go before it, and every other entry is kept, in order.
LEMMA PushedIsInsertion ==
  ASSUME waiters \in Seq(Entries), NEW t \in Tasks
  PROVE  LET n == Cardinality(PlacesAhead(t))
         IN  /\ Pushed(t) \in Seq(Entries)
             /\ Len(Pushed(t)) = Len(waiters) + 1
             /\ n \in 0 .. Len(waiters)
             /\ \A i \in 1 .. Len(waiters) + 1 :
                  Pushed(t)[i] = IF i <= n THEN waiters[i]
                                 ELSE IF i = n + 1 THEN [task |-> t, done |-> FALSE]
                                 ELSE waiters[i - 1]
<1> DEFINE D == PlacesAhead(t)
           n == Cardinality(D)
           e == [task |-> t, done |-> FALSE]
<1>0. Len(waiters) \in Nat
  OBVIOUS
<1>1. n \in 0 .. Len(waiters)
  <2>1. IsFiniteSet(1 .. Len(waiters)) /\ Cardinality(1 .. Len(waiters)) = Len(waiters)
    BY <1>0, FS_Interval
  <2>2. D \subseteq 1 .. Len(waiters)
    BY DEF PlacesAhead
  <2>3. IsFiniteSet(D) /\ Cardinality(D) <= Cardinality(1 .. Len(waiters))
    BY <2>1, <2>2, FS_Subset
  <2>4. Cardinality(D) \in Nat
    BY <2>3, FS_CardinalityType
  <2> QED BY <2>1, <2>3, <2>4
<1> HIDE DEF n
<1>2. e \in Entries
  BY DEF Entries
<1>3. Pushed(t) = SubSeq(waiters, 1, n) \o <<e>> \o SubSeq(waiters, n + 1, Len(waiters))
  BY DEF Pushed, PlacesAhead, n
<1> HIDE DEF e
<1>4. /\ SubSeq(waiters, 1, n) \in Seq(Entries)
      /\ Len(SubSeq(waiters, 1, n)) = n
      /\ \A i \in 1 .. n : SubSeq(waiters, 1, n)[i] = waiters[i]
  BY <1>1
<1>5. /\ SubSeq(waiters, n + 1, Len(waiters)) \in Seq(Entries)
      /\ Len(SubSeq(waiters, n + 1, Len(waiters))) = Len(waiters) - n
      /\ \A i \in 1 .. Len(waiters) - n :
           SubSeq(waiters, n + 1, Len(waiters))[i] = waiters[n + i]
  BY <1>1
<1> DEFINE front == SubSeq(waiters, 1, n)
           back  == SubSeq(waiters, n + 1, Len(waiters))
<1> HIDE DEF front, back
<1>6. /\ front \o <<e>> \in Seq(Entries)
      /\ Len(front \o <<e>>) = n + 1
      /\ \A i \in 1 .. n : (front \o <<e>>)[i] = waiters[i]
      /\ (front \o <<e>>)[n + 1] = e
  BY <1>1, <1>2, <1>4 DEF front
<1>7. /\ (front \o <<e>>) \o back \in Seq(Entries)
      /\ Len((front \o <<e>>) \o back) = Len(waiters) + 1
      /\ \A i \in 1 .. n + 1 : ((front \o <<e>>) \o back)[i] = (front \o <<e>>)[i]
      /\ \A i \in n + 2 .. Len(waiters) + 1 :
           ((front \o <<e>>) \o back)[i] = back[i - (n + 1)]
  <2>1. back \in Seq(Entries) /\ Len(back) = Len(waiters) - n
    BY <1>5 DEF back
  <2> QED BY <1>0, <1>1, <1>6, <2>1, ConcatProperties
<1>8. \A i \in n + 2 .. Len(waiters) + 1 : back[i - (n + 1)] = waiters[i - 1]
  BY <1>0, <1>1, <1>5 DEF back
<1>9. Pushed(t) = (front \o <<e>>) \o back
  BY <1>3 DEF front, back
<1>10. \A i \in 1 .. Len(waiters) + 1 :
         Pushed(t)[i] = IF i <= n THEN waiters[i]
                        ELSE IF i = n + 1 THEN e ELSE waiters[i - 1]
  BY <1>0, <1>1, <1>6, <1>7, <1>8, <1>9
<1> QED BY <1>1, <1>7, <1>9, <1>10 DEF e, n

\* Calls of _wake_up_next pop some entries from the front of the heap.
LEMMA PoppedIsPrefix ==
  ASSUME waiters \in Seq(Entries), NEW k \in Nat
  PROVE  Popped(k) \in 0 .. Len(waiters)
<1> DEFINE D == {i \in DOMAIN waiters : Cardinality(LiveBefore(i)) < k}
<1>0. Len(waiters) \in Nat
  OBVIOUS
<1>1. IsFiniteSet(1 .. Len(waiters)) /\ Cardinality(1 .. Len(waiters)) = Len(waiters)
  BY <1>0, FS_Interval
<1>2. IsFiniteSet(D) /\ Cardinality(D) <= Cardinality(1 .. Len(waiters))
  BY <1>1, FS_Subset
<1>3. Cardinality(D) \in Nat
  BY <1>2, FS_CardinalityType
<1> QED BY <1>1, <1>2, <1>3 DEF Popped

\* What is left of the heap behind them.
LEMMA RestOfHeap ==
  ASSUME waiters \in Seq(Entries), NEW n \in 0 .. Len(waiters)
  PROVE  LET rest == SubSeq(waiters, n + 1, Len(waiters))
         IN  /\ rest \in Seq(Entries)
             /\ Len(rest) = Len(waiters) - n
             /\ \A i \in 1 .. Len(waiters) - n : rest[i] = waiters[n + i]
OBVIOUS

\* A heap with a pending entry has one that _wake_up_next finds.
LEMMA WakeFindsPending ==
  ASSUME waiters \in Seq(Entries), NEW m \in DOMAIN waiters, ~waiters[m].done
  PROVE  Woken(1) # {}
<1> DEFINE D == {i \in DOMAIN waiters : Cardinality(LiveBefore(i)) < 1}
           p == Popped(1)
<1>1. p \in 0 .. Len(waiters) /\ Len(waiters) \in Nat
  BY PoppedIsPrefix
<1> SUFFICES ASSUME Woken(1) = {} PROVE FALSE
  OBVIOUS
<1>2. \A j \in 1 .. p : waiters[j].done
  BY DEF Woken
<1>3. p < Len(waiters)
  BY <1>1, <1>2
<1>4. 1 .. p + 1 \subseteq D
  <2> SUFFICES ASSUME NEW i \in 1 .. p + 1 PROVE Cardinality(LiveBefore(i)) = 0
    BY <1>1, <1>3
  <2>1. LiveBefore(i) = {}
    BY <1>1, <1>2 DEF LiveBefore
  <2> QED BY <2>1, FS_EmptySet
<1>5. IsFiniteSet(D)
  <2>1. IsFiniteSet(1 .. Len(waiters))
    BY <1>1, FS_Interval
  <2>2. D \subseteq 1 .. Len(waiters)
    OBVIOUS
  <2> QED BY <2>1, <2>2, FS_Subset
<1>6. Cardinality(1 .. p + 1) = p + 1
  BY <1>1, FS_Interval
<1>7. Cardinality(1 .. p + 1) <= Cardinality(D)
  BY <1>4, <1>5, FS_Subset
<1> QED BY <1>1, <1>6, <1>7 DEF Popped

-----------------------------------------------------------------------------
(* The inductive invariant: the pending entries of the heap are the waiting *)
(* tasks, one entry each.  Without it a release could wake a task that      *)
(* holds the semaphore, and the count of holders would be wrong.            *)

HeapOK ==
  /\ \A i \in DOMAIN waiters : ~waiters[i].done => pc[waiters[i].task] = "waiting"
  /\ \A i, j \in DOMAIN waiters :
       ~waiters[i].done /\ ~waiters[j].done /\ waiters[i].task = waiters[j].task => i = j
  /\ \A t \in Tasks : pc[t] = "waiting" =>
       \E i \in DOMAIN waiters : ~waiters[i].done /\ waiters[i].task = t

IInv == TypeOK /\ HeapOK /\ Conservation

PcValues == {"idle", "waiting", "woken", "cancelling", "holding"}

\* A task that starts to wait adds itself to the heap.
LEMMA PushKeepsHeap ==
  ASSUME TypeOK, HeapOK, NEW t \in Tasks, pc[t] # "waiting",
         waiters' = Pushed(t), pc' = [pc EXCEPT ![t] = "waiting"]
  PROVE  HeapOK' /\ waiters' \in Seq(Entries)
<1>1. waiters \in Seq(Entries) /\ pc \in [Tasks -> PcValues]
  BY DEF TypeOK, PcValues
<1>2. PICK n \in 0 .. Len(waiters) :
        \A i \in 1 .. Len(waiters) + 1 :
          waiters'[i] = IF i <= n THEN waiters[i]
                        ELSE IF i = n + 1 THEN [task |-> t, done |-> FALSE]
                        ELSE waiters[i - 1]
  BY <1>1, PushedIsInsertion
<1>3. waiters' \in Seq(Entries) /\ Len(waiters') = Len(waiters) + 1
  BY <1>1, PushedIsInsertion
<1>4. Len(waiters) \in Nat /\ DOMAIN waiters = 1 .. Len(waiters)
                           /\ DOMAIN waiters' = 1 .. Len(waiters) + 1
  BY <1>1, <1>3
<1> DEFINE Old(i) == IF i <= n THEN i ELSE i - 1
           New(i) == IF i <= n THEN i ELSE i + 1
<1>5. /\ \A i \in DOMAIN waiters' \ {n + 1} :
             Old(i) \in DOMAIN waiters /\ waiters'[i] = waiters[Old(i)]
      /\ waiters'[n + 1] = [task |-> t, done |-> FALSE]
      /\ n + 1 \in DOMAIN waiters'
      /\ \A i \in DOMAIN waiters :
             New(i) \in DOMAIN waiters' /\ waiters'[New(i)] = waiters[i]
      /\ \A i, j \in DOMAIN waiters' \ {n + 1} : Old(i) = Old(j) => i = j
  <2>1. \A i \in DOMAIN waiters' \ {n + 1} :
          Old(i) \in DOMAIN waiters /\ waiters'[i] = waiters[Old(i)]
    <3> SUFFICES ASSUME NEW i \in 1 .. Len(waiters) + 1, i # n + 1
                 PROVE  Old(i) \in 1 .. Len(waiters) /\ waiters'[i] = waiters[Old(i)]
      BY <1>4
    <3>1. waiters'[i] = IF i <= n THEN waiters[i] ELSE waiters[i - 1]
      BY <1>2
    <3> QED BY <1>4, <3>1
  <2>2. waiters'[n + 1] = [task |-> t, done |-> FALSE] /\ n + 1 \in DOMAIN waiters'
    <3>1. n + 1 \in 1 .. Len(waiters) + 1 /\ ~(n + 1 <= n)
      BY <1>4
    <3> QED BY <1>2, <1>4, <3>1
  <2>3. \A i \in DOMAIN waiters :
          New(i) \in DOMAIN waiters' /\ waiters'[New(i)] = waiters[i]
    <3> SUFFICES ASSUME NEW i \in 1 .. Len(waiters)
                 PROVE  New(i) \in 1 .. Len(waiters) + 1 /\ waiters'[New(i)] = waiters[i]
      BY <1>4
    <3>1. CASE i <= n
      BY <1>2, <1>4, <3>1
    <3>2. CASE ~(i <= n)
      <4>1. i + 1 \in 1 .. Len(waiters) + 1 /\ ~(i + 1 <= n) /\ i + 1 # n + 1
            /\ (i + 1) - 1 = i
        BY <1>4, <3>2
      <4>2. waiters'[i + 1] = waiters[(i + 1) - 1]
        BY <1>2, <4>1
      <4> QED BY <3>2, <4>1, <4>2
    <3> QED BY <3>1, <3>2
  <2>4. \A i, j \in DOMAIN waiters' \ {n + 1} : Old(i) = Old(j) => i = j
    BY <1>4
  <2> QED BY <2>1, <2>2, <2>3, <2>4
<1> HIDE DEF Old, New
<1>6. \A i \in DOMAIN waiters : waiters[i].task \in Tasks
  <2> SUFFICES ASSUME NEW i \in DOMAIN waiters PROVE waiters[i] \in Entries
    BY DEF Entries
  <2> QED BY <1>1
<1>7. \A i \in DOMAIN waiters : ~waiters[i].done => waiters[i].task # t
  BY DEF HeapOK
<1>8. \A i \in DOMAIN waiters' : ~waiters'[i].done => pc'[waiters'[i].task] = "waiting"
  BY <1>1, <1>5, <1>6 DEF HeapOK
<1>9. \A i, j \in DOMAIN waiters' :
        ~waiters'[i].done /\ ~waiters'[j].done /\ waiters'[i].task = waiters'[j].task => i = j
  BY <1>5, <1>7 DEF HeapOK
<1>10. \A u \in Tasks : pc'[u] = "waiting" =>
         \E i \in DOMAIN waiters' : ~waiters'[i].done /\ waiters'[i].task = u
  BY <1>1, <1>5 DEF HeapOK
<1> QED BY <1>3, <1>8, <1>9, <1>10 DEF HeapOK

\* Waking up leaves the heap with the tasks that go on waiting.  q is what the
\* caller of _wake_up_next does to its own state.
LEMMA WakeKeepsHeap ==
  ASSUME TypeOK, HeapOK, NEW k \in Nat, NEW q \in [Tasks -> PcValues],
         \A u \in Tasks : q[u] = "waiting" <=> pc[u] = "waiting",
         waiters' = SubSeq(waiters, Popped(k) + 1, Len(waiters)),
         pc' = [u \in Tasks |-> IF u \in Woken(k) THEN "woken" ELSE q[u]]
  PROVE  /\ HeapOK'
         /\ waiters' \in Seq(Entries)
         /\ pc' \in [Tasks -> PcValues]
         /\ \A u \in Woken(k) : u \in Tasks /\ pc[u] = "waiting"
<1>1. waiters \in Seq(Entries) /\ pc \in [Tasks -> PcValues]
  BY DEF TypeOK, PcValues
<1> DEFINE n == Popped(k)
<1>2. n \in 0 .. Len(waiters)
  BY <1>1, PoppedIsPrefix
<1> HIDE DEF n
<1>3. Len(waiters) \in Nat /\ DOMAIN waiters = 1 .. Len(waiters)
  BY <1>1
<1>4. /\ waiters' \in Seq(Entries)
      /\ Len(waiters') = Len(waiters) - n
      /\ \A i \in 1 .. Len(waiters) - n : waiters'[i] = waiters[n + i]
  BY <1>1, <1>2 DEF n
<1>5. DOMAIN waiters' = 1 .. Len(waiters) - n
  BY <1>4
<1>6. Woken(k) = {waiters[i].task : i \in {j \in 1 .. n : ~waiters[j].done}}
  BY DEF Woken, n
<1>7. \A i \in DOMAIN waiters : waiters[i].task \in Tasks
  <2> SUFFICES ASSUME NEW i \in DOMAIN waiters PROVE waiters[i] \in Entries
    BY DEF Entries
  <2> QED BY <1>1
<1>8. \A u \in Woken(k) : u \in Tasks /\ pc[u] = "waiting"
  BY <1>2, <1>3, <1>6, <1>7 DEF HeapOK
<1>9. pc' \in [Tasks -> PcValues]
  BY DEF PcValues
<1>10. \A i \in DOMAIN waiters' : n + i \in DOMAIN waiters /\ waiters'[i] = waiters[n + i]
  <2> SUFFICES ASSUME NEW i \in 1 .. Len(waiters) - n
               PROVE  n + i \in 1 .. Len(waiters) /\ waiters'[i] = waiters[n + i]
    BY <1>3, <1>5
  <2>1. n + i \in 1 .. Len(waiters)
    BY <1>2, <1>3
  <2>2. waiters'[i] = waiters[n + i]
    BY <1>4
  <2> QED BY <2>1, <2>2
<1>11. \A i \in DOMAIN waiters' : ~waiters'[i].done => waiters'[i].task \notin Woken(k)
  <2> SUFFICES ASSUME NEW i \in DOMAIN waiters', ~waiters'[i].done,
                      NEW j \in 1 .. n, ~waiters[j].done,
                      waiters'[i].task = waiters[j].task
               PROVE  FALSE
    BY <1>6
  <2>1. n + i \in DOMAIN waiters /\ j \in DOMAIN waiters /\ n + i # j
    BY <1>2, <1>3, <1>5, <1>10
  <2> QED BY <1>10, <2>1 DEF HeapOK
<1>12. \A i \in DOMAIN waiters' : ~waiters'[i].done => pc'[waiters'[i].task] = "waiting"
  <2> SUFFICES ASSUME NEW i \in DOMAIN waiters', ~waiters'[i].done
               PROVE  pc'[waiters'[i].task] = "waiting"
    OBVIOUS
  <2>1. /\ waiters'[i].task \in Tasks
        /\ pc[waiters'[i].task] = "waiting"
        /\ waiters'[i].task \notin Woken(k)
    <3>1. PICK m \in DOMAIN waiters : waiters'[i] = waiters[m]
      BY <1>10
    <3>2. waiters[m].task \in Tasks /\ pc[waiters[m].task] = "waiting"
      BY <1>7, <3>1 DEF HeapOK
    <3> QED BY <1>11, <3>1, <3>2
  <2> QED BY <2>1
<1>13. \A i, j \in DOMAIN waiters' :
         ~waiters'[i].done /\ ~waiters'[j].done /\ waiters'[i].task = waiters'[j].task => i = j
  <2> SUFFICES ASSUME NEW i \in DOMAIN waiters', NEW j \in DOMAIN waiters',
                      ~waiters'[i].done, ~waiters'[j].done,
                      waiters'[i].task = waiters'[j].task
               PROVE  i = j
    OBVIOUS
  <2>1. n + i = n + j
    <3> DEFINE a == n + i
               b == n + j
    <3>1. a \in DOMAIN waiters /\ waiters'[i] = waiters[a]
      BY <1>10
    <3>2. b \in DOMAIN waiters /\ waiters'[j] = waiters[b]
      BY <1>10
    <3> HIDE DEF a, b
    <3>3. a = b
      BY <3>1, <3>2 DEF HeapOK
    <3> QED BY <3>3 DEF a, b
  <2>2. i \in Nat /\ j \in Nat /\ n \in Nat
    BY <1>2, <1>3, <1>5
  <2> QED BY <2>1, <2>2
<1>14. \A u \in Tasks : pc'[u] = "waiting" =>
         \E i \in DOMAIN waiters' : ~waiters'[i].done /\ waiters'[i].task = u
  <2> SUFFICES ASSUME NEW u \in Tasks, pc'[u] = "waiting"
               PROVE  \E i \in DOMAIN waiters' : ~waiters'[i].done /\ waiters'[i].task = u
    OBVIOUS
  <2>1. u \notin Woken(k) /\ pc[u] = "waiting"
    OBVIOUS
  <2>2. PICK i \in DOMAIN waiters : ~waiters[i].done /\ waiters[i].task = u
    BY <2>1 DEF HeapOK
  <2>3. i \notin 1 .. n
    BY <1>6, <2>1, <2>2
  <2>4. i - n \in DOMAIN waiters' /\ waiters'[i - n] = waiters[i]
    <3>1. i \in 1 .. Len(waiters) /\ i > n
      BY <1>2, <1>3, <2>2, <2>3
    <3>2. i - n \in 1 .. Len(waiters) - n /\ n + (i - n) = i
      BY <1>2, <1>3, <3>1
    <3> QED BY <1>4, <1>5, <3>2
  <2> QED BY <2>2, <2>4
<1> QED BY <1>4, <1>8, <1>9, <1>12, <1>13, <1>14 DEF HeapOK

-----------------------------------------------------------------------------
\* The tasks inside can be counted: release() adds one to a natural number.
LEMMA HoldersFinite == IsFiniteSet(Holders) /\ Cardinality(Holders) \in Nat
<1>1. Holders \subseteq Tasks
  BY DEF Holders
<1> QED BY <1>1, TasksFinite, FS_Subset, FS_CardinalityType

\* A task enters: one permit less, one holder more.
LEMMA EnterConserves ==
  ASSUME IInv, NEW t \in Tasks, pc[t] # "holding",
         pc' = [pc EXCEPT ![t] = "holding"], value' = value - 1, maxValue' = maxValue
  PROVE  Conservation' /\ Holders' = Holders \cup {t}
<1>1. Holders' = Holders \cup {t} /\ t \notin Holders
  BY DEF IInv, TypeOK, Holders
<1>2. Cardinality(Holders \cup {t}) = Cardinality(Holders) + 1
  BY <1>1, HoldersFinite, FS_AddElement
<1> QED BY <1>1, <1>2, HoldersFinite DEF IInv, TypeOK, Conservation

\* Only waiting tasks are woken.
LEMMA WokenWereWaiting ==
  ASSUME IInv
  PROVE  \A k \in Nat : \A u \in Woken(k) : u \in Tasks /\ pc[u] = "waiting"
<1> SUFFICES ASSUME NEW k \in Nat, NEW u \in Woken(k) PROVE u \in Tasks /\ pc[u] = "waiting"
  OBVIOUS
<1>0. waiters \in Seq(Entries)
  BY DEF IInv, TypeOK
<1>1. PICK j \in 1 .. Popped(k) : ~waiters[j].done /\ u = waiters[j].task
  BY DEF Woken
<1>2. j \in DOMAIN waiters /\ waiters[j] \in Entries
  BY <1>0, PoppedIsPrefix
<1> QED BY <1>1, <1>2 DEF IInv, HeapOK, Entries

\* A new semaphore, with no waiters and every permit free, satisfies IInv.
LEMMA InitIInv == Init => IInv
<1> SUFFICES ASSUME Init PROVE IInv
  OBVIOUS
<1>1. TypeOK
  <2>1. waiters \in Seq(Entries)
    BY DEF Init
  <2>2. pc \in [Tasks -> PcValues] /\ value \in Int /\ maxValue \in Nat
    BY MaxValuesAreNaturals DEF Init, PcValues
  <2>3. wakeupScheduled \in BOOLEAN
    BY DEF Init
  <2> QED BY <2>1, <2>2, <2>3 DEF TypeOK, PcValues
<1>2. HeapOK
  BY DEF Init, HeapOK
<1>3. Holders = {}
  BY DEF Init, Holders
<1>4. Conservation
  BY <1>3, FS_EmptySet, MaxValuesAreNaturals DEF Init, Conservation
<1> QED BY <1>1, <1>2, <1>4 DEF IInv

\* acquire(), its resumption, cancellation, release() and the setter of
\* max_value each preserve IInv.
LEMMA NextIInv == IInv /\ [Next]_vars => IInv'
<1> SUFFICES ASSUME IInv, [Next]_vars PROVE IInv'
  OBVIOUS
<1> USE DEF PcValues
<1>0. TypeOK /\ HeapOK /\ Conservation
  BY DEF IInv
<1>1. ASSUME NEW t \in Tasks, AcquireAtOnce(t) PROVE IInv'
  <2>1. TypeOK'
    BY <1>0, <1>1 DEF AcquireAtOnce, TypeOK
  <2>2. HeapOK'
    BY <1>0, <1>1 DEF AcquireAtOnce, TypeOK, HeapOK, Entries
  <2>3. Conservation'
    BY <1>1, EnterConserves DEF AcquireAtOnce
  <2> QED BY <2>1, <2>2, <2>3 DEF IInv
<1>2. ASSUME NEW t \in Tasks, AcquireWait(t) PROVE IInv'
  <2>1. HeapOK' /\ waiters' \in Seq(Entries)
    BY <1>0, <1>2, PushKeepsHeap DEF AcquireWait
  <2>2. TypeOK'
    BY <1>0, <1>2, <2>1 DEF AcquireWait, TypeOK
  <2>3. Holders' = Holders
    BY <1>0, <1>2 DEF AcquireWait, TypeOK, Holders
  <2> QED BY <1>0, <1>2, <2>1, <2>2, <2>3 DEF AcquireWait, IInv, Conservation
<1>3. ASSUME NEW t \in Tasks, ResumeEnter(t) PROVE IInv'
  <2>1. TypeOK'
    <3>1. wakeupScheduled' \in BOOLEAN
      BY <1>3 DEF ResumeEnter
    <3>2. pc' \in [Tasks -> PcValues] /\ value' \in Int /\ maxValue' \in Nat
          /\ waiters' \in Seq(Entries)
      BY <1>0, <1>3 DEF ResumeEnter, TypeOK
    <3> QED BY <3>1, <3>2 DEF TypeOK
  <2>2. HeapOK'
    BY <1>0, <1>3 DEF ResumeEnter, TypeOK, HeapOK, Entries
  <2>3. Conservation'
    BY <1>3, EnterConserves DEF ResumeEnter
  <2> QED BY <2>1, <2>2, <2>3 DEF IInv
<1>4. ASSUME NEW t \in Tasks, ResumeWait(t) PROVE IInv'
  <2>1. HeapOK' /\ waiters' \in Seq(Entries)
    BY <1>0, <1>4, PushKeepsHeap DEF ResumeWait
  <2>2. TypeOK'
    BY <1>0, <1>4, <2>1 DEF ResumeWait, TypeOK
  <2>3. Holders' = Holders
    BY <1>0, <1>4 DEF ResumeWait, TypeOK, Holders
  <2> QED BY <1>0, <1>4, <2>1, <2>2, <2>3 DEF ResumeWait, IInv, Conservation
<1>5. ASSUME NEW t \in Tasks, CancelPending(t) PROVE IInv'
  <2>1. /\ waiters' \in Seq(Entries)
        /\ DOMAIN waiters' = DOMAIN waiters
        /\ \A i \in DOMAIN waiters :
             /\ waiters'[i].task = waiters[i].task
             /\ ~waiters'[i].done <=> ~waiters[i].done /\ waiters[i].task # t
    <3> DEFINE w(i) == IF waiters[i].task = t
                       THEN [waiters[i] EXCEPT !.done = TRUE] ELSE waiters[i]
    <3>1. waiters' = [i \in DOMAIN waiters |-> w(i)]
      BY <1>5 DEF CancelPending
    <3>2. waiters \in Seq(Entries) /\ DOMAIN waiters = 1 .. Len(waiters) /\ Len(waiters) \in Nat
      BY <1>0 DEF TypeOK
    <3>3. \A i \in DOMAIN waiters : waiters[i] \in Entries
      BY <3>2
    <3>4. \A i \in DOMAIN waiters :
            /\ w(i) \in Entries /\ w(i).task = waiters[i].task
            /\ ~w(i).done <=> ~waiters[i].done /\ waiters[i].task # t
      <4> SUFFICES ASSUME NEW i \in DOMAIN waiters
                   PROVE  /\ w(i) \in Entries /\ w(i).task = waiters[i].task
                          /\ ~w(i).done <=> ~waiters[i].done /\ waiters[i].task # t
        OBVIOUS
      <4>1. waiters[i] \in Entries
        BY <3>3
      <4>2. CASE waiters[i].task = t
        <5>1. w(i) = [task |-> waiters[i].task, done |-> TRUE]
          BY <4>1, <4>2 DEF Entries
        <5> QED BY <4>1, <4>2, <5>1 DEF Entries
      <4>3. CASE waiters[i].task # t
        BY <4>1, <4>3
      <4> QED BY <4>2, <4>3
    <3> HIDE DEF w
    <3>5. waiters' \in Seq(Entries)
      BY <3>1, <3>2, <3>4
    <3> QED BY <3>1, <3>4, <3>5
  <2>2. pc' = [pc EXCEPT ![t] = "cancelling"]
    BY <1>5 DEF CancelPending
  <2>3. HeapOK'
    <3>1. \A i \in DOMAIN waiters : waiters[i].task \in Tasks
      <4> SUFFICES ASSUME NEW i \in DOMAIN waiters PROVE waiters[i] \in Entries
        BY DEF Entries
      <4> QED BY <1>0 DEF TypeOK
    <3>2. \A i \in DOMAIN waiters' : ~waiters'[i].done => pc'[waiters'[i].task] = "waiting"
      BY <1>0, <2>1, <2>2, <3>1 DEF TypeOK, HeapOK
    <3>3. \A i, j \in DOMAIN waiters' :
            ~waiters'[i].done /\ ~waiters'[j].done /\ waiters'[i].task = waiters'[j].task => i = j
      BY <1>0, <2>1 DEF HeapOK
    <3>4. \A u \in Tasks : pc'[u] = "waiting" => u # t /\ pc[u] = "waiting"
      BY <1>0, <2>2 DEF TypeOK
    <3>5. \A u \in Tasks : pc'[u] = "waiting" =>
            \E i \in DOMAIN waiters' : ~waiters'[i].done /\ waiters'[i].task = u
      BY <1>0, <2>1, <3>4 DEF HeapOK
    <3> QED BY <3>2, <3>3, <3>5 DEF HeapOK
  <2>4. TypeOK'
    BY <1>0, <1>5, <2>1 DEF CancelPending, TypeOK
  <2>5. Holders' = Holders
    BY <1>0, <1>5 DEF CancelPending, TypeOK, Holders
  <2> QED BY <1>0, <1>5, <2>3, <2>4, <2>5 DEF CancelPending, IInv, Conservation
<1>6. ASSUME NEW t \in Tasks, CancelWoken(t) PROVE IInv'
  <2>1. TypeOK'
    BY <1>0, <1>6 DEF CancelWoken, TypeOK
  <2>2. HeapOK'
    BY <1>0, <1>6 DEF CancelWoken, TypeOK, HeapOK, Entries
  <2>3. Holders' = Holders
    BY <1>0, <1>6 DEF CancelWoken, TypeOK, Holders
  <2> QED BY <1>0, <1>6, <2>1, <2>2, <2>3 DEF CancelWoken, IInv, Conservation
<1>7. ASSUME NEW t \in Tasks, ResumeCancelled(t) PROVE IInv'
  <2> DEFINE q == [pc EXCEPT ![t] = "idle"]
  <2>1. /\ pc' = [u \in Tasks |-> IF u \in Woken(1) THEN "woken" ELSE q[u]]
        /\ q \in [Tasks -> PcValues]
        /\ \A u \in Tasks : q[u] = "waiting" <=> pc[u] = "waiting"
    BY <1>0, <1>7 DEF ResumeCancelled, TypeOK
  <2> HIDE DEF q
  <2>2. /\ HeapOK' /\ waiters' \in Seq(Entries) /\ pc' \in [Tasks -> PcValues]
        /\ \A u \in Woken(1) : u \in Tasks /\ pc[u] = "waiting"
    BY <1>0, <1>7, <2>1, WakeKeepsHeap DEF ResumeCancelled, WakeUpNext
  <2>3. TypeOK'
    BY <1>0, <1>7, <2>2 DEF ResumeCancelled, WakeUpNext, TypeOK
  <2>4. Holders' = Holders
    BY <1>0, <1>7, <2>2 DEF ResumeCancelled, TypeOK, Holders
  <2> QED BY <1>0, <1>7, <2>2, <2>3, <2>4 DEF ResumeCancelled, IInv, Conservation
<1>8. ASSUME NEW t \in Tasks, Release(t) PROVE IInv'
  <2>1. t \in Holders
    BY <1>8 DEF Release, Holders
  <2>2. Cardinality(Holders \ {t}) = Cardinality(Holders) - 1
    BY <2>1, HoldersFinite, FS_RemoveElement
  <2>3. value < maxValue
    <3>1. Cardinality(Holders) # 0
      BY <2>1, HoldersFinite, FS_EmptySet
    <3> QED BY <1>0, <3>1, HoldersFinite DEF TypeOK, Conservation
  <2>4. /\ pc[t] = "holding"
        /\ pc' = [u \in Tasks |-> IF u \in Woken(1) THEN "woken"
                                  ELSE IF u = t THEN "idle" ELSE pc[u]]
        /\ value' = value + 1 /\ maxValue' = maxValue /\ WakeUpNext(1)
    BY <1>0, <1>8, <2>3 DEF Release, TypeOK
  <2> DEFINE q == [pc EXCEPT ![t] = "idle"]
  <2>5. /\ pc' = [u \in Tasks |-> IF u \in Woken(1) THEN "woken" ELSE q[u]]
        /\ q \in [Tasks -> PcValues]
        /\ \A u \in Tasks : q[u] = "waiting" <=> pc[u] = "waiting"
    BY <1>0, <2>4 DEF TypeOK
  <2> HIDE DEF q
  <2>6. /\ HeapOK' /\ waiters' \in Seq(Entries) /\ pc' \in [Tasks -> PcValues]
        /\ \A u \in Woken(1) : u \in Tasks /\ pc[u] = "waiting"
    BY <1>0, <2>4, <2>5, WakeKeepsHeap DEF WakeUpNext
  <2>7. TypeOK'
    BY <1>0, <2>4, <2>6 DEF WakeUpNext, TypeOK
  <2>8. Holders' = Holders \ {t}
    BY <1>0, <2>4, <2>6 DEF TypeOK, Holders
  <2> QED BY <1>0, <2>2, <2>4, <2>6, <2>7, <2>8, HoldersFinite DEF IInv, TypeOK, Conservation
<1>9. ASSUME NEW n \in NewMaxValues, SetMaxValue(n) PROVE IInv'
  <2> DEFINE k == WakeCount(n - maxValue)
  <2>0. n \in Nat /\ maxValue \in Nat
    BY <1>0, MaxValuesAreNaturals DEF TypeOK
  <2>1. k \in Nat
    BY <1>0, <2>0 DEF WakeCount, TypeOK
  <2>2. /\ pc' = [u \in Tasks |-> IF u \in Woken(k) THEN "woken" ELSE pc[u]]
        /\ value' = value + (n - maxValue) /\ maxValue' = n /\ WakeUpNext(k)
    BY <1>9 DEF SetMaxValue
  <2> HIDE DEF k
  <2>3. /\ HeapOK' /\ waiters' \in Seq(Entries) /\ pc' \in [Tasks -> PcValues]
        /\ \A u \in Woken(k) : u \in Tasks /\ pc[u] = "waiting"
    BY <1>0, <2>1, <2>2, WakeKeepsHeap DEF WakeUpNext, TypeOK
  <2>4. TypeOK'
    BY <1>0, <2>0, <2>2, <2>3 DEF WakeUpNext, TypeOK
  <2>5. Holders' = Holders
    BY <1>0, <2>2, <2>3 DEF TypeOK, Holders
  <2> QED BY <1>0, <2>0, <2>2, <2>3, <2>4, <2>5, HoldersFinite
          DEF IInv, TypeOK, Conservation
<1>10. CASE UNCHANGED vars
  BY <1>10 DEF vars, IInv, TypeOK, HeapOK, Conservation, Holders
<1> QED BY <1>1, <1>2, <1>3, <1>4, <1>5, <1>6, <1>7, <1>8, <1>9, <1>10
        DEF Next, TaskStep, Resume

\* The inductive invariant: types, every waiter in the heap once and in order,
\* and permits that add up.
THEOREM IInvHolds == Spec => []IInv
BY InitIInv, NextIInv, PTL DEF Spec

\* Every value of every variable is of the kind the code gives it.
THEOREM TypeCorrect == Spec => []TypeOK
BY IInvHolds, PTL DEF IInv

\* The permits that are free and the tasks inside add up to max_value, for any
\* number of tasks, whatever is cancelled and however max_value is changed.
THEOREM PermitsConserved == Spec => []Conservation
BY IInvHolds, PTL DEF IInv

\* Every waiting task has exactly one pending entry in the heap and every other
\* task has none, so nobody is forgotten and nobody is woken twice.
THEOREM WaitersQueued == Spec => []WaitersAreQueued
<1>1. IInv => WaitersAreQueued
  <2> SUFFICES ASSUME IInv, NEW t \in Tasks
               PROVE  Cardinality({i \in DOMAIN waiters :
                                     waiters[i].task = t /\ ~waiters[i].done})
                        = IF pc[t] = "waiting" THEN 1 ELSE 0
    BY DEF WaitersAreQueued
  <2> DEFINE E == {i \in DOMAIN waiters : waiters[i].task = t /\ ~waiters[i].done}
  <2>1. CASE pc[t] = "waiting"
    <3>1. PICK i \in DOMAIN waiters : ~waiters[i].done /\ waiters[i].task = t
      BY <2>1 DEF IInv, HeapOK
    <3>2. E = {i}
      BY <3>1 DEF IInv, HeapOK
    <3> QED BY <2>1, <3>2, FS_Singleton
  <2>2. CASE pc[t] # "waiting"
    <3>1. E = {}
      BY <2>2 DEF IInv, HeapOK
    <3> QED BY <2>2, <3>1, FS_EmptySet
  <2> QED BY <2>1, <2>2
<1> QED BY <1>1, IInvHolds, PTL

\* While max_value is left alone the counter never goes below zero: there are
\* never more tasks inside than the semaphore was made for.
BoundInv == maxValue = InitialMax /\ value >= 0

\* If max_value is never set, no more tasks are inside than it says.
THEOREM NeverOverAdmitted ==
  ASSUME NewMaxValues = {}
  PROVE  Spec => [](BoundInv /\ Cardinality(Holders) <= InitialMax)
<1>1. Init => BoundInv
  BY MaxValuesAreNaturals DEF Init, BoundInv
<1>2. IInv /\ BoundInv /\ [Next]_vars => BoundInv'
  <2> SUFFICES ASSUME IInv, BoundInv, [Next]_vars PROVE BoundInv'
    OBVIOUS
  <2>0. value \in Int /\ maxValue \in Int /\ pc \in [Tasks -> PcValues]
    BY DEF IInv, TypeOK, PcValues
  <2>1. ASSUME NEW t \in Tasks, AcquireAtOnce(t) \/ ResumeEnter(t) PROVE BoundInv'
    BY <2>0, <2>1 DEF AcquireAtOnce, ResumeEnter, MustWait, BoundInv
  <2>2. ASSUME NEW t \in Tasks, Release(t) PROVE BoundInv'
    BY <2>0, <2>2 DEF Release, BoundInv
  <2>3. ASSUME NEW t \in Tasks,
               AcquireWait(t) \/ ResumeWait(t) \/ CancelPending(t) \/ CancelWoken(t)
                 \/ ResumeCancelled(t)
        PROVE  BoundInv'
    BY <2>3 DEF AcquireWait, ResumeWait, CancelPending, CancelWoken, ResumeCancelled, BoundInv
  <2>4. CASE UNCHANGED vars
    BY <2>4 DEF vars, BoundInv
  <2> QED BY <2>1, <2>2, <2>3, <2>4 DEF Next, TaskStep, Resume
<1>3. IInv /\ BoundInv => Cardinality(Holders) <= InitialMax
  BY HoldersFinite DEF IInv, TypeOK, Conservation, BoundInv
<1> QED BY <1>1, <1>2, <1>3, IInvHolds, PTL DEF Spec

\* With one permit it is a mutual exclusion, cancellations included.
Mutex == \A t, u \in Tasks : pc[t] = "holding" /\ pc[u] = "holding" => t = u

\* Two tasks are never inside a semaphore of one permit, whoever is cancelled.
THEOREM MutualExclusion ==
  ASSUME InitialMax = 1, NewMaxValues = {}
  PROVE  Spec => []Mutex
<1>1. Cardinality(Holders) <= 1 => Mutex
  <2> SUFFICES ASSUME Cardinality(Holders) <= 1, NEW t \in Holders, NEW u \in Holders, t # u
               PROVE  FALSE
    BY DEF Mutex, Holders
  <2>1. Cardinality({t, u}) = 2
    <3>1. Cardinality({t}) = 1 /\ IsFiniteSet({t})
      BY FS_Singleton
    <3>2. {t, u} = {t} \cup {u}
      OBVIOUS
    <3> QED BY <3>1, <3>2, FS_AddElement
  <2>2. Cardinality({t, u}) <= Cardinality(Holders)
    BY HoldersFinite, FS_Subset
  <2> QED BY <2>1, <2>2, HoldersFinite
<1>2. Spec => [](BoundInv /\ Cardinality(Holders) <= InitialMax)
  BY NeverOverAdmitted
<1>3. InitialMax = 1
  OBVIOUS
<1>4. Cardinality(Holders) <= InitialMax => Mutex
  BY <1>1, <1>3
<1> QED BY <1>2, <1>4, PTL

-----------------------------------------------------------------------------
(* The order in which tasks are woken, whatever is cancelled and however    *)
(* max_value is changed.                                                    *)

\* An entry of the heap is before all those of lower priority.
HeapSorted ==
  \A i, j \in DOMAIN waiters :
    i < j => PriorityOf[waiters[i].task] >= PriorityOf[waiters[j].task]

\* Entries are of tasks, and tasks have priorities.
LEMMA PrioritiesInHeap ==
  ASSUME waiters \in Seq(Entries)
  PROVE  \A i \in DOMAIN waiters : /\ waiters[i].task \in Tasks
                                  /\ PriorityOf[waiters[i].task] \in Int
<1> TAKE i \in DOMAIN waiters
<1>1. waiters[i] \in Entries
  OBVIOUS
<1> QED BY <1>1, PrioritiesAreIntegers DEF Entries

\* In a heap in order a new entry goes behind all those of its priority and before
\* those of lower ones.
LEMMA PushedBehindItsPriority ==
  ASSUME waiters \in Seq(Entries), HeapSorted, NEW t \in Tasks, NEW i \in DOMAIN waiters
  PROVE  i <= Cardinality(PlacesAhead(t)) <=> PriorityOf[waiters[i].task] >= PriorityOf[t]
<1> DEFINE D == PlacesAhead(t)
           n == Cardinality(D)
<1>1. Len(waiters) \in Nat /\ DOMAIN waiters = 1 .. Len(waiters)
  OBVIOUS
<1>2. D \subseteq 1 .. Len(waiters) /\ IsFiniteSet(D) /\ n \in Nat
  <2>1. D \subseteq 1 .. Len(waiters)
    BY DEF PlacesAhead
  <2>2. IsFiniteSet(1 .. Len(waiters))
    BY <1>1, FS_Interval
  <2> QED BY <2>1, <2>2, FS_Subset, FS_CardinalityType
<1>3. \A j \in DOMAIN waiters : PriorityOf[waiters[j].task] \in Int
  <2> SUFFICES ASSUME NEW j \in DOMAIN waiters PROVE waiters[j].task \in Tasks
    BY PrioritiesAreIntegers
  <2>1. waiters[j] \in Entries
    OBVIOUS
  <2> QED BY <2>1 DEF Entries
<1>4. PriorityOf[t] \in Int
  BY PrioritiesAreIntegers
<1>5. \A j, k \in DOMAIN waiters : j < k =>
        PriorityOf[waiters[j].task] >= PriorityOf[waiters[k].task]
  BY DEF HeapSorted
<1>6. ASSUME i \in D PROVE i <= n
  <2>1. 1 .. i \subseteq D
    <3> SUFFICES ASSUME NEW j \in 1 .. i, j # i PROVE j \in D
      BY <1>6
    <3>1. j \in DOMAIN waiters /\ j < i
      BY <1>1
    <3> QED BY <1>3, <1>4, <1>5, <1>6, <3>1 DEF PlacesAhead
  <2>2. Cardinality(1 .. i) <= n
    BY <1>2, <2>1, FS_Subset
  <2>3. Cardinality(1 .. i) = i
    BY <1>1, FS_Interval
  <2> QED BY <2>2, <2>3
<1>7. ASSUME i \notin D PROVE ~(i <= n)
  <2>1. D \subseteq 1 .. i - 1
    <3> SUFFICES ASSUME NEW j \in D, ~(j < i) PROVE FALSE
      BY <1>1, <1>2
    <3>1. j \in DOMAIN waiters /\ i < j
      BY <1>1, <1>2, <1>7
    <3> QED BY <1>3, <1>4, <1>5, <1>7, <3>1 DEF PlacesAhead
  <2>2. IsFiniteSet(1 .. i - 1) /\ Cardinality(1 .. i - 1) = i - 1
    <3>1. i \in 1 .. Len(waiters)
      BY <1>1
    <3>2. i - 1 \in Int /\ (1 > i - 1 => i - 1 = 0)
      BY <1>1, <3>1
    <3> QED BY <3>1, <3>2, FS_Interval
  <2>3. n <= i - 1
    BY <2>1, <2>2, FS_Subset
  <2> QED BY <1>1, <1>2, <2>3
<1> QED BY <1>6, <1>7 DEF PlacesAhead

\* A new entry leaves the heap in order.
LEMMA PushKeepsSorted ==
  ASSUME waiters \in Seq(Entries), HeapSorted, NEW t \in Tasks, waiters' = Pushed(t)
  PROVE  HeapSorted'
<1> DEFINE n == Cardinality(PlacesAhead(t))
           e == [task |-> t, done |-> FALSE]
           Prio(x) == PriorityOf[x.task]
           Old(i) == IF i <= n THEN i ELSE i - 1
<1>1. Len(waiters) \in Nat /\ DOMAIN waiters = 1 .. Len(waiters)
  OBVIOUS
<1>2. /\ n \in 0 .. Len(waiters) /\ waiters' \in Seq(Entries)
      /\ DOMAIN waiters' = 1 .. Len(waiters) + 1
      /\ \A i \in 1 .. Len(waiters) + 1 :
           waiters'[i] = IF i <= n THEN waiters[i] ELSE IF i = n + 1 THEN e ELSE waiters[i - 1]
  BY PushedIsInsertion
<1>3. \A i \in DOMAIN waiters : i <= n <=> Prio(waiters[i]) >= PriorityOf[t]
  BY PushedBehindItsPriority
<1>4. \A i \in DOMAIN waiters : Prio(waiters[i]) \in Int
  BY PrioritiesInHeap
<1>5. Prio(e) = PriorityOf[t] /\ PriorityOf[t] \in Int
  BY PrioritiesAreIntegers
<1>6. \A i, j \in DOMAIN waiters : i < j => Prio(waiters[i]) >= Prio(waiters[j])
  BY DEF HeapSorted
<1> HIDE DEF n, e, Prio
<1>7. \A i \in DOMAIN waiters' \ {n + 1} :
        Old(i) \in DOMAIN waiters /\ waiters'[i] = waiters[Old(i)] /\ (Old(i) <= n <=> i <= n)
  <2> TAKE i \in DOMAIN waiters' \ {n + 1}
  <2>1. i \in 1 .. Len(waiters) + 1 /\ i # n + 1
    BY <1>2
  <2>2. waiters'[i] = IF i <= n THEN waiters[i] ELSE waiters[i - 1]
    BY <2>1, <1>2
  <2>3. Old(i) \in 1 .. Len(waiters) /\ (Old(i) <= n <=> i <= n)
    BY <2>1, <1>1, <1>2
  <2> QED BY <2>2, <2>3, <1>1
<1>8. ASSUME NEW i \in DOMAIN waiters', NEW j \in DOMAIN waiters', i < j
      PROVE  Prio(waiters'[i]) >= Prio(waiters'[j])
  <2>1. i \in Nat /\ j \in Nat /\ n \in Nat /\ n + 1 \in 1 .. Len(waiters) + 1
    BY <1>1, <1>2
  <2>2. waiters'[n + 1] = e
    BY <2>1, <1>2
  <2>3. CASE i = n + 1
    <3>1. j # n + 1 /\ ~(j <= n)
      BY <2>1, <2>3, <1>8
    <3>2. Old(j) \in DOMAIN waiters /\ waiters'[j] = waiters[Old(j)] /\ ~(Old(j) <= n)
      BY <3>1, <1>7
    <3> HIDE DEF Old
    <3>3. ~(Prio(waiters[Old(j)]) >= PriorityOf[t]) /\ Prio(waiters[Old(j)]) \in Int
      BY <3>2, <1>3, <1>4
    <3> QED BY <3>2, <3>3, <2>2, <2>3, <1>5
  <2>4. CASE j = n + 1
    <3>1. i # n + 1 /\ i <= n
      BY <2>1, <2>4, <1>8
    <3>2. Old(i) \in DOMAIN waiters /\ waiters'[i] = waiters[Old(i)] /\ Old(i) <= n
      BY <3>1, <1>7
    <3> HIDE DEF Old
    <3>3. Prio(waiters[Old(i)]) >= PriorityOf[t]
      BY <3>2, <1>3
    <3> QED BY <3>2, <3>3, <2>2, <2>4, <1>5
  <2>5. CASE i # n + 1 /\ j # n + 1
    <3>1. Old(i) < Old(j)
      BY <2>1, <2>5, <1>8
    <3>2. Old(i) \in DOMAIN waiters /\ waiters'[i] = waiters[Old(i)]
          /\ Old(j) \in DOMAIN waiters /\ waiters'[j] = waiters[Old(j)]
      BY <2>5, <1>7
    <3> HIDE DEF Old
    <3> QED BY <3>1, <3>2, <1>6
  <2> QED BY <2>3, <2>4, <2>5
<1> QED BY <1>8 DEF HeapSorted, Prio

\* Calls of _wake_up_next leave the heap in order, and whoever they wake was before
\* all who go on waiting.
LEMMA WakeTakesTheFirst ==
  ASSUME TypeOK, HeapOK, HeapSorted, NEW k \in Nat, WakeUpNext(k)
  PROVE  /\ HeapSorted'
         /\ \A t \in Woken(k), u \in Waiting \ Woken(k) : PriorityOf[t] >= PriorityOf[u]
<1> DEFINE n == Popped(k)
<1>1. waiters \in Seq(Entries) /\ Len(waiters) \in Nat /\ DOMAIN waiters = 1 .. Len(waiters)
  BY DEF TypeOK
<1>2. n \in 0 .. Len(waiters)
  BY <1>1, PoppedIsPrefix
<1>3. Woken(k) = {waiters[i].task : i \in {j \in 1 .. n : ~waiters[j].done}}
  BY DEF Woken
<1>4. waiters' = SubSeq(waiters, n + 1, Len(waiters))
  BY DEF WakeUpNext
<1> HIDE DEF n
<1>5. DOMAIN waiters' = 1 .. Len(waiters) - n
      /\ \A i \in 1 .. Len(waiters) - n : waiters'[i] = waiters[n + i]
  <2>1. /\ waiters' \in Seq(Entries) /\ Len(waiters') = Len(waiters) - n
        /\ \A i \in 1 .. Len(waiters) - n : waiters'[i] = waiters[n + i]
    BY <1>1, <1>2, <1>4, RestOfHeap
  <2> QED BY <2>1
<1>6. HeapSorted'
  <2> SUFFICES ASSUME NEW i \in 1 .. Len(waiters) - n, NEW j \in 1 .. Len(waiters) - n, i < j
               PROVE  PriorityOf[waiters'[i].task] >= PriorityOf[waiters'[j].task]
    BY <1>5 DEF HeapSorted
  <2> DEFINE a == n + i
             b == n + j
  <2>1. a \in DOMAIN waiters /\ b \in DOMAIN waiters /\ a < b
    BY <1>1, <1>2
  <2>2. waiters'[i] = waiters[a] /\ waiters'[j] = waiters[b]
    BY <1>5
  <2> HIDE DEF a, b
  <2> QED BY <2>1, <2>2 DEF HeapSorted
<1>7. ASSUME NEW t \in Woken(k), NEW u \in Waiting \ Woken(k)
      PROVE  PriorityOf[t] >= PriorityOf[u]
  <2>1. PICK i \in 1 .. n : ~waiters[i].done /\ t = waiters[i].task
    BY <1>3
  <2>2. u \in Tasks /\ pc[u] = "waiting"
    BY DEF Waiting
  <2>3. PICK j \in DOMAIN waiters : ~waiters[j].done /\ waiters[j].task = u
    BY <2>2 DEF HeapOK
  <2>4. j \notin 1 .. n
    BY <2>3, <1>3
  <2>5. i \in DOMAIN waiters /\ i < j
    BY <2>3, <2>4, <1>1, <1>2
  <2> QED BY <2>1, <2>3, <2>5 DEF HeapSorted
<1> QED BY <1>6, <1>7

\* Of a task that is woken nobody of higher priority is left behind.
HighestFirst ==
  \A t, u \in Tasks :
    pc[t] = "waiting" /\ pc'[t] = "woken" /\ pc[u] = "waiting" /\ pc'[u] = "waiting"
      => PriorityOf[t] >= PriorityOf[u]

\* Every step keeps the heap in order and wakes the highest priorities first.
LEMMA SortedStep ==
  ASSUME IInv, HeapSorted, [Next]_vars
  PROVE  HeapSorted' /\ HighestFirst
<1>1. TypeOK /\ HeapOK /\ waiters \in Seq(Entries) /\ pc \in [Tasks -> PcValues]
      /\ value \in Int /\ maxValue \in Int /\ Len(waiters) \in Nat
  BY DEF IInv, TypeOK, PcValues
<1>2. ASSUME NEW k \in Nat, WakeUpNext(k),
             NEW q \in [Tasks -> PcValues], \A u \in Tasks : q[u] = "woken" => pc[u] = "woken",
             pc' = [u \in Tasks |-> IF u \in Woken(k) THEN "woken" ELSE q[u]]
      PROVE  HeapSorted' /\ HighestFirst
  <2>1. /\ HeapSorted'
        /\ \A t \in Woken(k), u \in Waiting \ Woken(k) : PriorityOf[t] >= PriorityOf[u]
    BY <1>1, <1>2, WakeTakesTheFirst
  <2>2. ASSUME NEW t \in Tasks, NEW u \in Tasks, pc[t] = "waiting", pc'[t] = "woken",
               pc[u] = "waiting", pc'[u] = "waiting"
        PROVE  PriorityOf[t] >= PriorityOf[u]
    <3>1. t \in Woken(k) /\ u \in Waiting \ Woken(k)
      BY <1>2, <2>2 DEF Waiting
    <3> QED BY <2>1, <3>1
  <2> QED BY <2>1, <2>2 DEF HighestFirst
<1>3. ASSUME NEW t \in Tasks, Release(t) \/ ResumeCancelled(t) PROVE HeapSorted' /\ HighestFirst
  <2> DEFINE k == IF Release(t) /\ value >= maxValue THEN 0 ELSE 1
             q == [u \in Tasks |-> IF u = t THEN "idle" ELSE pc[u]]
  <2>1. k \in Nat /\ WakeUpNext(k)
        /\ pc' = [u \in Tasks |-> IF u \in Woken(k) THEN "woken"
                                  ELSE IF u = t THEN "idle" ELSE pc[u]]
    BY <1>3 DEF Release, ResumeCancelled
  <2>2. q \in [Tasks -> PcValues] /\ \A u \in Tasks : q[u] = "woken" => pc[u] = "woken"
    BY <1>1 DEF PcValues
  <2>3. pc' = [u \in Tasks |-> IF u \in Woken(k) THEN "woken" ELSE q[u]]
    BY <2>1
  <2> HIDE DEF k, q
  <2> QED BY <2>1, <2>2, <2>3, <1>2
<1>4. ASSUME NEW n \in NewMaxValues, SetMaxValue(n) PROVE HeapSorted' /\ HighestFirst
  <2> DEFINE k == WakeCount(n - maxValue)
  <2>1. k \in Nat
    BY <1>1, MaxValuesAreNaturals DEF WakeCount
  <2>2. WakeUpNext(k) /\ pc' = [u \in Tasks |-> IF u \in Woken(k) THEN "woken" ELSE pc[u]]
    BY <1>4 DEF SetMaxValue
  <2> HIDE DEF k
  <2> QED BY <2>1, <2>2, <1>1, <1>2
<1>5. ASSUME NEW t \in Tasks, AcquireWait(t) \/ ResumeWait(t) PROVE HeapSorted' /\ HighestFirst
  <2>1. waiters' = Pushed(t) /\ pc' = [pc EXCEPT ![t] = "waiting"]
    BY <1>5 DEF AcquireWait, ResumeWait
  <2>2. HeapSorted'
    BY <2>1, <1>1, PushKeepsSorted
  <2>3. HighestFirst
    BY <2>1, <1>1 DEF HighestFirst
  <2> QED BY <2>2, <2>3
<1>6. ASSUME NEW t \in Tasks, AcquireAtOnce(t) \/ ResumeEnter(t) \/ CancelWoken(t)
      PROVE  HeapSorted' /\ HighestFirst
  <2>1. waiters' = waiters /\ (\E s \in {"holding", "cancelling"} : pc' = [pc EXCEPT ![t] = s])
    BY <1>6 DEF AcquireAtOnce, ResumeEnter, CancelWoken
  <2> QED BY <2>1, <1>1 DEF HeapSorted, HighestFirst
<1>7. ASSUME NEW t \in Tasks, CancelPending(t) PROVE HeapSorted' /\ HighestFirst
  <2>1. pc' = [pc EXCEPT ![t] = "cancelling"]
        /\ waiters' = [i \in DOMAIN waiters |->
                         IF waiters[i].task = t
                         THEN [waiters[i] EXCEPT !.done = TRUE] ELSE waiters[i]]
    BY <1>7 DEF CancelPending
  <2>2. DOMAIN waiters' = DOMAIN waiters
        /\ \A i \in DOMAIN waiters : waiters'[i].task = waiters[i].task
    <3>1. \A i \in DOMAIN waiters : waiters[i] \in Entries
      BY <1>1
    <3> QED BY <2>1, <3>1 DEF Entries
  <2>3. HeapSorted'
    BY <2>2 DEF HeapSorted
  <2>4. HighestFirst
    BY <2>1, <1>1 DEF HighestFirst
  <2> QED BY <2>3, <2>4
<1>8. CASE UNCHANGED vars
  BY <1>8 DEF vars, HeapSorted, HighestFirst
<1> QED BY <1>3, <1>4, <1>5, <1>6, <1>7, <1>8 DEF Next, TaskStep, Resume

\* Whoever was cancelled and wherever its entry is left in the heap, and however far
\* max_value goes up at once: a task is woken before all of lower priority.
THEOREM WakesByPriority == Spec => [][HighestFirst]_vars
<1>1. Init => HeapSorted
  BY DEF Init, HeapSorted
<1>2. IInv /\ HeapSorted /\ [Next]_vars => HeapSorted' /\ [HighestFirst]_vars
  BY SortedStep
<1> QED BY <1>1, <1>2, IInvHolds, PTL DEF Spec

-----------------------------------------------------------------------------
(* The semaphore implements CountingSemaphore: acquire() is Enter when the *)
(* task gets in, release() is Leave, the setter is Resize, and all that    *)
(* happens in the queue is a stuttering step.                              *)

\* Each step of acquire(), release() or the setter is a step of CountingSemaphore
\* or leaves its variables as they are.
LEMMA StepImplements == IInv /\ [Next]_vars => [Abstract!Next]_(Abstract!vars)
<1> SUFFICES ASSUME IInv, [Next]_vars PROVE [Abstract!Next]_(Abstract!vars)
  OBVIOUS
<1> USE DEF Abstract!vars, Abstract!Next
<1> DEFINE Same == Holders' = Holders /\ maxValue' = maxValue
<1>0. pc \in [Tasks -> PcValues] /\ value \in Int /\ maxValue \in Nat
      /\ value = maxValue - Cardinality(Holders) /\ waiters \in Seq(Entries)
  BY DEF IInv, TypeOK, Conservation, PcValues
<1>1. ASSUME NEW t \in Tasks, pc[t] # "holding", value > 0,
             pc' = [pc EXCEPT ![t] = "holding"], value' = value - 1, maxValue' = maxValue
      PROVE  Abstract!Enter(t)
  <2>1. Holders' = Holders \cup {t} /\ t \notin Holders
    BY <1>1, EnterConserves DEF Holders
  <2>2. Cardinality(Holders) < maxValue
    BY <1>0, <1>1, HoldersFinite
  <2>3. Abstract!Cardinality(Holders) = Cardinality(Holders)
    BY DEF Abstract!Cardinality, Cardinality
  <2> QED BY <1>1, <2>1, <2>2, <2>3 DEF Abstract!Enter
<1>2. ASSUME NEW t \in Tasks, AcquireAtOnce(t) PROVE Abstract!Enter(t)
  <2>1. pc[t] # "holding" /\ value > 0
    BY <1>0, <1>2 DEF AcquireAtOnce, MustWait
  <2>2. pc' = [pc EXCEPT ![t] = "holding"] /\ value' = value - 1 /\ maxValue' = maxValue
    BY <1>2 DEF AcquireAtOnce
  <2> QED BY <1>1, <2>1, <2>2
<1>3. ASSUME NEW t \in Tasks, ResumeEnter(t) PROVE Abstract!Enter(t)
  <2>1. pc[t] # "holding" /\ value > 0
    BY <1>0, <1>3 DEF ResumeEnter, MustWait
  <2>2. pc' = [pc EXCEPT ![t] = "holding"] /\ value' = value - 1 /\ maxValue' = maxValue
    BY <1>3 DEF ResumeEnter
  <2> QED BY <1>1, <2>1, <2>2
<1>4. ASSUME NEW t \in Tasks, AcquireWait(t) \/ ResumeWait(t) \/ CancelPending(t) \/ CancelWoken(t)
      PROVE  Same
  BY <1>0, <1>4 DEF AcquireWait, ResumeWait, CancelPending, CancelWoken, Holders
<1>5. \A k \in Nat : \A u \in Woken(k) : u \in Tasks /\ pc[u] = "waiting"
  BY WokenWereWaiting
<1>6. ASSUME NEW t \in Tasks, ResumeCancelled(t) PROVE Same
  BY <1>0, <1>5, <1>6 DEF ResumeCancelled, Holders
<1>7. ASSUME NEW t \in Tasks, Release(t) PROVE Abstract!Leave(t)
  <2>1. PICK k \in Nat : pc' = [u \in Tasks |-> IF u \in Woken(k) THEN "woken"
                                                ELSE IF u = t THEN "idle" ELSE pc[u]]
    BY <1>7 DEF Release
  <2>2. pc[t] = "holding" /\ maxValue' = maxValue
    BY <1>7 DEF Release
  <2>3. t \in Holders /\ Holders' = Holders \ {t}
    BY <1>0, <1>5, <2>1, <2>2 DEF Holders
  <2> QED BY <2>2, <2>3 DEF Abstract!Leave
<1>8. ASSUME NEW n \in NewMaxValues, SetMaxValue(n) PROVE Abstract!Resize(n)
  <2> DEFINE k == WakeCount(n - maxValue)
  <2>1. k \in Nat
    BY <1>0, MaxValuesAreNaturals DEF WakeCount
  <2>2. pc' = [u \in Tasks |-> IF u \in Woken(k) THEN "woken" ELSE pc[u]] /\ maxValue' = n
    BY <1>8 DEF SetMaxValue
  <2> HIDE DEF k
  <2>3. Holders' = Holders
    BY <1>0, <1>5, <2>1, <2>2 DEF Holders
  <2> QED BY <2>2, <2>3 DEF Abstract!Resize
<1>9. CASE UNCHANGED vars
  BY <1>9 DEF vars, Holders
<1>10. CASE \E t \in Tasks : TaskStep(t)
  BY <1>2, <1>3, <1>4, <1>6, <1>7, <1>10 DEF TaskStep, Resume
<1>11. CASE \E n \in NewMaxValues : SetMaxValue(n)
  BY <1>8, <1>11
<1> QED BY <1>9, <1>10, <1>11 DEF Next

\* Every behaviour of the semaphore is one of the counting semaphore.
THEOREM Implements == Spec => ImplementsCountingSemaphore
<1>1. Init => Abstract!Init
  BY DEF Init, Abstract!Init, Holders
<1> QED BY <1>1, StepImplements, IInvHolds, PTL
        DEF Spec, ImplementsCountingSemaphore, Abstract!Spec

-----------------------------------------------------------------------------
(* PriorityLock without cancellation: one permit that never changes.       *)

IsLock == InitialMax = 1 /\ NewMaxValues = {} /\ ~CanCancel

\* At most one task is woken, and while it is, the flag is set and the permit
\* is there for it: nobody else can take it.  The permit is never free while a
\* task waits and none is woken.
LockInv ==
  /\ maxValue = 1 /\ value >= 0
  /\ \A t \in Tasks : pc[t] # "cancelling"
  /\ \A t, u \in Tasks : pc[t] = "woken" /\ pc[u] = "woken" => t = u
  /\ \A t \in Tasks : pc[t] = "woken" => wakeupScheduled /\ value = 1
  /\ wakeupScheduled => \E t \in Tasks : pc[t] = "woken"
  /\ value > 0 /\ Waiting # {} => \E t \in Tasks : pc[t] = "woken"

LInv == IInv /\ LockInv

\* One call of _wake_up_next resolves one future at most.
LEMMA OneCallWakesOne ==
  ASSUME waiters \in Seq(Entries)
  PROVE  \A u, v \in Woken(1) : u = v
<1> DEFINE D == {i \in DOMAIN waiters : Cardinality(LiveBefore(i)) < 1}
           p == Popped(1)
<1>1. p \in 0 .. Len(waiters) /\ Len(waiters) \in Nat /\ DOMAIN waiters = 1 .. Len(waiters)
  BY PoppedIsPrefix
<1>2. ASSUME NEW i \in 1 .. p, NEW j \in 1 .. p, i < j, ~waiters[i].done PROVE FALSE
  <2>1. \A m \in D : m <= i
    <3> SUFFICES ASSUME NEW m \in 1 .. Len(waiters), m > i PROVE m \notin D
      BY <1>1
    <3>1. i \in LiveBefore(m)
      BY <1>1, <1>2 DEF LiveBefore
    <3>2. IsFiniteSet(LiveBefore(m))
      <4>1. IsFiniteSet(1 .. m - 1)
        BY FS_Interval
      <4>2. LiveBefore(m) \subseteq 1 .. m - 1
        BY DEF LiveBefore
      <4> QED BY <4>1, <4>2, FS_Subset
    <3>3. Cardinality(LiveBefore(m)) # 0 /\ Cardinality(LiveBefore(m)) \in Nat
      BY <3>1, <3>2, FS_EmptySet, FS_CardinalityType
    <3> QED BY <3>3
  <2>2. D \subseteq 1 .. i
    BY <1>1, <2>1
  <2>3. IsFiniteSet(1 .. i) /\ Cardinality(1 .. i) = i
    BY <1>1, FS_Interval
  <2>4. p <= i
    BY <2>2, <2>3, FS_Subset DEF Popped
  <2> QED BY <1>1, <1>2, <2>4
<1>3. \A i, j \in 1 .. p : ~waiters[i].done /\ ~waiters[j].done => i = j
  <2> SUFFICES ASSUME NEW i \in 1 .. p, NEW j \in 1 .. p, ~waiters[i].done, ~waiters[j].done
               PROVE  i = j
    OBVIOUS
  <2>1. ~(i < j) /\ ~(j < i)
    BY <1>2
  <2> QED BY <1>1, <2>1
<1> QED BY <1>3 DEF Woken

\* Every step of a lock nobody is cancelled on keeps the flag equal to somebody
\* being woken, and the one woken gets in.
LEMMA LockStep ==
  ASSUME IsLock, LInv, [Next]_vars
  PROVE  LockInv' /\ \A t \in Tasks : pc[t] = "woken" => pc'[t] # "waiting"
<1> DEFINE Goal == LockInv' /\ \A t \in Tasks : pc[t] = "woken" => pc'[t] # "waiting"
<1>0. /\ pc \in [Tasks -> PcValues] /\ value \in Int /\ maxValue = 1
      /\ wakeupScheduled \in BOOLEAN /\ waiters \in Seq(Entries)
      /\ value = 1 - Cardinality(Holders)
  BY DEF LInv, IInv, LockInv, TypeOK, Conservation, PcValues
<1>1. (\E t \in Tasks : pc[t] = "holding") => value <= 0
  <2> SUFFICES ASSUME NEW t \in Tasks, pc[t] = "holding" PROVE value <= 0
    OBVIOUS
  <2>1. Holders # {}
    BY DEF Holders
  <2>2. Cardinality(Holders) # 0
    BY <2>1, HoldersFinite, FS_EmptySet
  <2> QED BY <1>0, <2>2, HoldersFinite
<1>2. ASSUME NEW t \in Tasks, AcquireAtOnce(t) PROVE Goal
  BY <1>0, <1>2 DEF AcquireAtOnce, MustWait, LInv, LockInv, Waiting, PcValues
<1>3. ASSUME NEW t \in Tasks, AcquireWait(t) PROVE Goal
  BY <1>0, <1>3 DEF AcquireWait, MustWait, LInv, LockInv, Waiting, PcValues
<1>4. ASSUME NEW t \in Tasks, ResumeEnter(t) PROVE Goal
  BY <1>0, <1>4 DEF ResumeEnter, MustWait, LInv, LockInv, Waiting, PcValues
<1>5. ASSUME NEW t \in Tasks, ResumeWait(t) PROVE FALSE
  BY <1>0, <1>5 DEF ResumeWait, MustWait, LInv, LockInv
<1>6. ASSUME NEW t \in Tasks, CancelPending(t) \/ CancelWoken(t) \/ ResumeCancelled(t)
      PROVE  FALSE
  BY <1>6 DEF IsLock, CancelPending, CancelWoken, ResumeCancelled, LInv, LockInv
<1>7. ASSUME NEW t \in Tasks, Release(t) PROVE Goal
  <2>1. pc[t] = "holding" /\ value = 0
    BY <1>0, <1>1, <1>7 DEF Release, LInv, LockInv
  <2>2. /\ pc' = [u \in Tasks |-> IF u \in Woken(1) THEN "woken"
                                  ELSE IF u = t THEN "idle" ELSE pc[u]]
        /\ value' = 1 /\ maxValue' = 1
        /\ wakeupScheduled' = (wakeupScheduled \/ Woken(1) # {})
    BY <1>0, <1>7, <2>1 DEF Release, WakeUpNext
  <2>3. \A u \in Tasks : pc[u] \notin {"woken", "cancelling"}
    BY <2>1 DEF LInv, LockInv
  <2>4. ~wakeupScheduled
    BY <2>3 DEF LInv, LockInv
  <2>5. \A u, v \in Woken(1) : u = v
    BY <1>0, OneCallWakesOne
  <2>6. Woken(1) \subseteq Tasks
    <3> SUFFICES ASSUME NEW j \in 1 .. Popped(1) PROVE waiters[j].task \in Tasks
      BY DEF Woken
    <3>1. j \in DOMAIN waiters /\ waiters[j] \in Entries
      BY <1>0, PoppedIsPrefix
    <3> QED BY <3>1 DEF Entries
  <2>7. \A u \in Tasks : pc'[u] = "woken" <=> u \in Woken(1)
    BY <2>2, <2>3
  <2>8. wakeupScheduled' => \E u \in Tasks : pc'[u] = "woken"
    BY <2>2, <2>4, <2>6, <2>7
  <2>9. Waiting' # {} => \E u \in Tasks : pc'[u] = "woken"
    <3> SUFFICES ASSUME NEW w \in Tasks, pc'[w] = "waiting"
                 PROVE  \E u \in Tasks : pc'[u] = "woken"
      BY DEF Waiting
    <3>1. pc[w] = "waiting"
      BY <2>2
    <3>2. Woken(1) # {}
      BY <1>0, <3>1, WakeFindsPending DEF LInv, IInv, HeapOK
    <3> QED BY <2>6, <2>7, <3>2
  <2>10. \A u \in Tasks : pc'[u] # "cancelling"
    BY <2>2, <2>3
  <2>11. \A u \in Tasks : pc'[u] = "woken" => wakeupScheduled'
    BY <2>2, <2>7
  <2> QED BY <2>2, <2>3, <2>5, <2>7, <2>8, <2>9, <2>10, <2>11 DEF LockInv
<1>8. ASSUME NEW n \in NewMaxValues, SetMaxValue(n) PROVE FALSE
  BY <1>8 DEF IsLock
<1>9. CASE UNCHANGED vars
  BY <1>0, <1>9 DEF vars, LInv, LockInv, Waiting
<1> QED BY <1>2, <1>3, <1>4, <1>5, <1>6, <1>7, <1>8, <1>9 DEF Next, TaskStep, Resume

\* The flag of a lock nobody is cancelled on is set exactly while somebody is
\* woken, and a free lock with waiters has woken one.
LEMMA LockInvHolds == ASSUME IsLock PROVE Spec => []LockInv
<1>1. Init => LockInv
  BY DEF Init, IsLock, LockInv, Waiting
<1>2. IInv /\ LockInv /\ [Next]_vars => LockInv'
  BY LockStep DEF LInv
<1> QED BY <1>1, <1>2, IInvHolds, PTL DEF Spec

\* A PriorityLock nobody is cancelled on loses no wakeup: it is never free
\* while tasks wait and none has been woken.
THEOREM LockLosesNoWakeup == ASSUME IsLock PROVE Spec => []NoLostWakeup
<1>1. LockInv => NoLostWakeup
  BY DEF LockInv, NoLostWakeup, Scheduled
<1> QED BY <1>1, LockInvHolds, PTL

\* Its flag says what the comment in acquire() says.
THEOREM LockFlagMeansScheduled == ASSUME IsLock PROVE Spec => []FlagMeansScheduled
<1>1. LockInv => FlagMeansScheduled
  BY DEF LockInv, FlagMeansScheduled, Scheduled
<1> QED BY <1>1, LockInvHolds, PTL

\* Whoever it wakes gets it.
THEOREM LockNeverRequeues == ASSUME IsLock PROVE Spec => NeverRequeued
<1>1. IInv /\ LockInv /\ [Next]_vars
        => [\A t \in Tasks : pc[t] = "woken" => pc'[t] # "waiting"]_vars
  BY LockStep DEF LInv
<1> QED BY <1>1, LockInvHolds, IInvHolds, PTL DEF Spec, NeverRequeued

-----------------------------------------------------------------------------
(* PriorityLock in the order of the calls.                                 *)

\* The heap is in the order of priorities, and of two calls of one priority the
\* earlier one is in front; a task that was woken was in front of all who wait.
OrderInv ==
  /\ \A i \in DOMAIN waiters : ~waiters[i].done
  /\ \A i, j \in DOMAIN waiters :
       i < j => LET t == waiters[i].task
                    u == waiters[j].task
                IN  /\ PriorityOf[t] >= PriorityOf[u]
                    /\ PriorityOf[t] = PriorityOf[u] => <<t, u>> \in cameBefore
  /\ \A t, u \in Tasks :
       pc[t] = "woken" /\ pc[u] = "waiting" /\ PriorityOf[t] = PriorityOf[u]
         => <<t, u>> \in cameBefore

\* What a step leaves of the history.
LEMMA StillBefore ==
  ASSUME OrderNext, NEW t \in Tasks, NEW u \in Tasks,
         InAcquire(pc', t), InAcquire(pc', u),
         <<t, u>> \in cameBefore \/ (InAcquire(pc, t) /\ ~InAcquire(pc, u))
  PROVE  <<t, u>> \in cameBefore'
BY DEF OrderNext

\* A task that calls acquire() goes behind those of its priority.
LEMMA PushKeepsOrder ==
  ASSUME LInv, OrderInv, OrderNext, NEW t \in Tasks, AcquireWait(t)
  PROVE  OrderInv'
<1> DEFINE n == Cardinality(PlacesAhead(t))
           e == [task |-> t, done |-> FALSE]
           Prio(x) == PriorityOf[x.task]
<1>1. /\ waiters \in Seq(Entries) /\ pc \in [Tasks -> PcValues]
      /\ pc[t] = "idle" /\ pc' = [pc EXCEPT ![t] = "waiting"] /\ waiters' = Pushed(t)
  BY DEF LInv, IInv, TypeOK, PcValues, AcquireWait
<1>2. Len(waiters) \in Nat /\ DOMAIN waiters = 1 .. Len(waiters)
  BY <1>1
<1>3. /\ n \in 0 .. Len(waiters) /\ waiters' \in Seq(Entries)
      /\ DOMAIN waiters' = 1 .. Len(waiters) + 1
      /\ \A i \in 1 .. Len(waiters) + 1 :
           waiters'[i] = IF i <= n THEN waiters[i] ELSE IF i = n + 1 THEN e ELSE waiters[i - 1]
  BY <1>1, PushedIsInsertion
<1>4. \A i \in DOMAIN waiters : i <= n <=> Prio(waiters[i]) >= PriorityOf[t]
  <2>1. HeapSorted
    BY DEF OrderInv, HeapSorted
  <2> QED BY <1>1, <2>1, PushedBehindItsPriority
<1>5. \A i \in DOMAIN waiters :
        /\ waiters[i].task \in Tasks /\ pc[waiters[i].task] = "waiting"
        /\ Prio(waiters[i]) \in Int /\ ~waiters[i].done
  <2> SUFFICES ASSUME NEW i \in DOMAIN waiters
               PROVE  /\ waiters[i].task \in Tasks /\ pc[waiters[i].task] = "waiting"
                      /\ Prio(waiters[i]) \in Int /\ ~waiters[i].done
    OBVIOUS
  <2>1. waiters[i] \in Entries
    BY <1>1
  <2>2. ~waiters[i].done
    BY DEF OrderInv
  <2>3. pc[waiters[i].task] = "waiting"
    BY <2>2 DEF LInv, IInv, HeapOK
  <2> QED BY <2>1, <2>2, <2>3, PrioritiesAreIntegers DEF Entries
<1>6. PriorityOf[t] \in Int
  BY PrioritiesAreIntegers
<1>7. \A u \in Tasks : pc[u] = "waiting" =>
        u # t /\ InAcquire(pc, u) /\ InAcquire(pc', u) /\ ~InAcquire(pc, t) /\ InAcquire(pc', t)
  BY <1>1 DEF InAcquire
<1> HIDE DEF n
<1>8. \A i \in DOMAIN waiters' :
        \/ i = n + 1 /\ waiters'[i] = e
        \/ i <= n /\ i \in DOMAIN waiters /\ waiters'[i] = waiters[i]
        \/ i > n + 1 /\ i - 1 \in DOMAIN waiters /\ waiters'[i] = waiters[i - 1]
  <2> SUFFICES ASSUME NEW i \in 1 .. Len(waiters) + 1
               PROVE  \/ i = n + 1 /\ waiters'[i] = e
                      \/ i <= n /\ i \in DOMAIN waiters /\ waiters'[i] = waiters[i]
                      \/ i > n + 1 /\ i - 1 \in DOMAIN waiters /\ waiters'[i] = waiters[i - 1]
    BY <1>3
  <2>1. waiters'[i] = IF i <= n THEN waiters[i] ELSE IF i = n + 1 THEN e ELSE waiters[i - 1]
    BY <1>3
  <2> HIDE DEF e
  <2> QED BY <1>2, <1>3, <2>1
<1>9. \A i \in DOMAIN waiters' : ~waiters'[i].done
  BY <1>5, <1>8
<1>10. \A i, j \in DOMAIN waiters :
         i < j => /\ Prio(waiters[i]) >= Prio(waiters[j])
                  /\ Prio(waiters[i]) = Prio(waiters[j]) =>
                       <<waiters[i].task, waiters[j].task>> \in cameBefore'
  <2> SUFFICES ASSUME NEW i \in DOMAIN waiters, NEW j \in DOMAIN waiters, i < j
               PROVE  /\ Prio(waiters[i]) >= Prio(waiters[j])
                      /\ Prio(waiters[i]) = Prio(waiters[j]) =>
                           <<waiters[i].task, waiters[j].task>> \in cameBefore'
    OBVIOUS
  <2>1. /\ Prio(waiters[i]) >= Prio(waiters[j])
        /\ Prio(waiters[i]) = Prio(waiters[j]) =>
             <<waiters[i].task, waiters[j].task>> \in cameBefore
    BY DEF OrderInv
  <2>2. <<waiters[i].task, waiters[j].task>> \in cameBefore =>
          <<waiters[i].task, waiters[j].task>> \in cameBefore'
    BY <1>5, <1>7, StillBefore
  <2> QED BY <2>1, <2>2
<1>11. \A i \in DOMAIN waiters : <<waiters[i].task, t>> \in cameBefore'
  BY <1>5, <1>7, StillBefore
<1>12. ASSUME NEW i \in DOMAIN waiters', NEW j \in DOMAIN waiters', i < j
       PROVE  /\ Prio(waiters'[i]) >= Prio(waiters'[j])
              /\ Prio(waiters'[i]) = Prio(waiters'[j]) =>
                   <<waiters'[i].task, waiters'[j].task>> \in cameBefore'
  <2> DEFINE Goal == /\ Prio(waiters'[i]) >= Prio(waiters'[j])
                     /\ Prio(waiters'[i]) = Prio(waiters'[j]) =>
                          <<waiters'[i].task, waiters'[j].task>> \in cameBefore'
  <2>1. i \in Int /\ j \in Int /\ n \in Int
    BY <1>2, <1>3
  <2>2. e.task = t
    OBVIOUS
  <2> HIDE DEF e
  <2>3. CASE i = n + 1
    <3>1. waiters'[i] = e /\ j - 1 \in DOMAIN waiters /\ waiters'[j] = waiters[j - 1]
      BY <1>8, <1>12, <2>1, <2>3
    <3>2. PriorityOf[t] > Prio(waiters[j - 1])
      <4>1. ~(j - 1 <= n)
        BY <1>12, <2>1, <2>3
      <4> QED BY <1>4, <1>5, <1>6, <3>1, <4>1
    <3>3. Prio(waiters[j - 1]) \in Int
      BY <1>5, <3>1
    <3> QED BY <1>6, <2>2, <3>1, <3>2, <3>3
  <2>4. CASE j = n + 1
    <3>1. waiters'[j] = e /\ i <= n /\ i \in DOMAIN waiters /\ waiters'[i] = waiters[i]
      BY <1>8, <1>12, <2>1, <2>4
    <3>2. Prio(waiters[i]) >= PriorityOf[t]
      BY <1>4, <3>1
    <3> QED BY <1>11, <2>2, <3>1, <3>2
  <2>5. CASE i # n + 1 /\ j # n + 1
    <3>1. PICK a \in DOMAIN waiters : waiters'[i] = waiters[a] /\ a = IF i <= n THEN i ELSE i - 1
      BY <1>8, <2>1, <2>5
    <3>2. PICK b \in DOMAIN waiters : waiters'[j] = waiters[b] /\ b = IF j <= n THEN j ELSE j - 1
      BY <1>8, <2>1, <2>5
    <3>3. a < b
      BY <1>12, <2>1, <2>5, <3>1, <3>2
    <3> QED BY <1>10, <3>1, <3>2, <3>3
  <2> QED BY <2>3, <2>4, <2>5
<1>13. ASSUME NEW s \in Tasks, NEW u \in Tasks, pc'[s] = "woken", pc'[u] = "waiting",
              PriorityOf[s] = PriorityOf[u]
       PROVE  <<s, u>> \in cameBefore'
  <2>1. pc[s] = "woken" /\ InAcquire(pc, s) /\ InAcquire(pc', s) /\ InAcquire(pc', u)
    BY <1>1, <1>13 DEF InAcquire
  <2>2. CASE u = t
    BY <1>1, <2>1, <2>2, StillBefore DEF InAcquire
  <2>3. CASE u # t
    <3>1. pc[u] = "waiting"
      BY <1>1, <1>13, <2>3
    <3>2. <<s, u>> \in cameBefore
      BY <1>13, <2>1, <3>1 DEF OrderInv
    <3> QED BY <2>1, <3>2, StillBefore
  <2> QED BY <2>2, <2>3
<1> QED BY <1>9, <1>12, <1>13 DEF OrderInv

\* release() wakes a task that is in front of those who go on waiting.
LEMMA WakeKeepsOrder ==
  ASSUME LInv, OrderInv, OrderNext, NEW t \in Tasks, Release(t)
  PROVE  OrderInv' /\ \A u \in Tasks : pc'[u] = "holding" => pc[u] = "holding"
<1>1. PICK k \in Nat :
        /\ pc' = [u \in Tasks |-> IF u \in Woken(k) THEN "woken"
                                  ELSE IF u = t THEN "idle" ELSE pc[u]]
        /\ waiters' = SubSeq(waiters, Popped(k) + 1, Len(waiters))
  BY DEF Release, WakeUpNext
<1> DEFINE n == Popped(k)
<1>2. /\ waiters \in Seq(Entries) /\ Len(waiters) \in Nat /\ n \in 0 .. Len(waiters)
      /\ DOMAIN waiters = 1 .. Len(waiters)
  BY PoppedIsPrefix DEF LInv, IInv, TypeOK
<1>3. /\ pc[t] = "holding"
      /\ \A u \in Tasks : pc[u] # "woken"
  <2>1. pc[t] = "holding"
    BY DEF Release
  <2>2. Holders # {} /\ value = 1 - Cardinality(Holders)
    BY <2>1 DEF Holders, LInv, IInv, LockInv, Conservation
  <2>3. value # 1
    BY <2>2, HoldersFinite, FS_EmptySet
  <2> QED BY <2>1, <2>3 DEF LInv, LockInv
<1>4. /\ \A u \in Woken(k) : u \in Tasks /\ pc[u] = "waiting"
      /\ \A u \in Woken(k) : \E j \in 1 .. n : u = waiters[j].task
      /\ \A j \in 1 .. n : waiters[j].task \in Woken(k)
  <2>1. \A j \in 1 .. n : ~waiters[j].done
    BY <1>2 DEF OrderInv
  <2> QED BY <2>1, WokenWereWaiting DEF Woken, LInv
<1> HIDE DEF n
<1>5. \A i \in DOMAIN waiters' : n + i \in DOMAIN waiters /\ waiters'[i] = waiters[n + i]
  <2>1. /\ Len(waiters') = Len(waiters) - n /\ waiters' \in Seq(Entries)
        /\ \A i \in 1 .. Len(waiters) - n : waiters'[i] = waiters[n + i]
    BY <1>1, <1>2, RestOfHeap DEF n
  <2> SUFFICES ASSUME NEW i \in 1 .. Len(waiters) - n
               PROVE  n + i \in 1 .. Len(waiters) /\ waiters'[i] = waiters[n + i]
    BY <1>2, <2>1
  <2> QED BY <1>2, <2>1
<1>6. DOMAIN waiters' \subseteq Nat
  BY <1>1, <1>2
<1>7. \A i \in DOMAIN waiters : waiters[i].task \in Tasks /\ pc[waiters[i].task] = "waiting"
  <2> SUFFICES ASSUME NEW i \in DOMAIN waiters
               PROVE  waiters[i].task \in Tasks /\ pc[waiters[i].task] = "waiting"
    OBVIOUS
  <2>1. waiters[i] \in Entries
    BY <1>2
  <2> QED BY <2>1 DEF LInv, IInv, HeapOK, OrderInv, Entries
<1>8. \A u \in Tasks : pc[u] = "waiting" => InAcquire(pc', u)
  BY <1>1, <1>3 DEF InAcquire
<1>9. \A i \in DOMAIN waiters' : ~waiters'[i].done
  BY <1>5 DEF OrderInv
<1>10. ASSUME NEW i \in DOMAIN waiters, NEW j \in DOMAIN waiters, i < j
       PROVE  LET s == waiters[i].task
                  u == waiters[j].task
              IN  /\ PriorityOf[s] >= PriorityOf[u]
                  /\ PriorityOf[s] = PriorityOf[u] => <<s, u>> \in cameBefore'
  <2> DEFINE s == waiters[i].task
             u == waiters[j].task
  <2>1. /\ PriorityOf[s] >= PriorityOf[u]
        /\ PriorityOf[s] = PriorityOf[u] => <<s, u>> \in cameBefore
    BY <1>10 DEF OrderInv
  <2>2. s \in Tasks /\ u \in Tasks /\ InAcquire(pc', s) /\ InAcquire(pc', u)
    BY <1>7, <1>8
  <2> HIDE DEF s, u
  <2>3. <<s, u>> \in cameBefore => <<s, u>> \in cameBefore'
    BY <2>2, StillBefore
  <2> QED BY <2>1, <2>3 DEF s, u
<1>11. ASSUME NEW i \in DOMAIN waiters', NEW j \in DOMAIN waiters', i < j
       PROVE  LET s == waiters'[i].task
                  u == waiters'[j].task
              IN  /\ PriorityOf[s] >= PriorityOf[u]
                  /\ PriorityOf[s] = PriorityOf[u] => <<s, u>> \in cameBefore'
  <2>1. PICK a \in DOMAIN waiters : a = n + i /\ waiters'[i] = waiters[a]
    BY <1>5
  <2>2. PICK b \in DOMAIN waiters : b = n + j /\ waiters'[j] = waiters[b]
    BY <1>5
  <2>3. a < b
    BY <1>2, <1>6, <1>11, <2>1, <2>2
  <2> QED BY <1>10, <2>1, <2>2, <2>3
<1>12. ASSUME NEW s \in Tasks, NEW u \in Tasks, pc'[s] = "woken", pc'[u] = "waiting",
              PriorityOf[s] = PriorityOf[u]
       PROVE  <<s, u>> \in cameBefore'
  <2>1. s \in Woken(k) /\ u \notin Woken(k) /\ pc[u] = "waiting"
    BY <1>1, <1>3, <1>12
  <2>2. PICK a \in 1 .. n : s = waiters[a].task
    BY <1>4, <2>1
  <2>3. PICK b \in DOMAIN waiters : u = waiters[b].task
    BY <2>1 DEF LInv, IInv, HeapOK
  <2>4. b \notin 1 .. n
    BY <1>4, <2>1, <2>3
  <2>5. a \in DOMAIN waiters /\ a < b
    BY <1>2, <2>2, <2>3, <2>4
  <2> QED BY <1>10, <1>12, <2>2, <2>3, <2>5
<1>13. \A u \in Tasks : pc'[u] = "holding" => pc[u] = "holding"
  BY <1>1
<1>14. OrderInv'
  BY <1>9, <1>11, <1>12 DEF OrderInv
<1> QED BY <1>13, <1>14

\* Every step of a lock keeps the order, and who enters had come before the others of
\* its priority.
LEMMA OrderStep ==
  ASSUME IsLock, LInv, OrderInv, [OrderNext]_orderVars
  PROVE  /\ OrderInv'
         /\ \A t \in Tasks :
              pc[t] # "holding" /\ pc'[t] = "holding" =>
                \A u \in Tasks \ {t} :
                  PriorityOf[u] = PriorityOf[t] /\ InAcquire(pc, u) => <<t, u>> \in cameBefore
<1> DEFINE Fair == \A t \in Tasks :
                     pc[t] # "holding" /\ pc'[t] = "holding" =>
                       \A u \in Tasks \ {t} :
                         PriorityOf[u] = PriorityOf[t] /\ InAcquire(pc, u)
                           => <<t, u>> \in cameBefore
<1> SUFFICES OrderInv' /\ Fair
  OBVIOUS
<1>1. /\ pc \in [Tasks -> PcValues] /\ value \in Int /\ wakeupScheduled \in BOOLEAN
      /\ waiters \in Seq(Entries)
  BY DEF LInv, IInv, TypeOK, PcValues
<1>2. CASE UNCHANGED orderVars
  BY <1>2 DEF orderVars, vars, OrderInv
<1> SUFFICES ASSUME OrderNext PROVE OrderInv' /\ Fair
  BY <1>2
<1>3. \A i \in DOMAIN waiters : waiters[i].task \in Tasks /\ pc[waiters[i].task] = "waiting"
  <2> SUFFICES ASSUME NEW i \in DOMAIN waiters
               PROVE  waiters[i].task \in Tasks /\ pc[waiters[i].task] = "waiting"
    OBVIOUS
  <2>1. waiters[i] \in Entries
    BY <1>1
  <2> QED BY <2>1 DEF LInv, IInv, HeapOK, OrderInv, Entries
<1>4. ASSUME NEW t \in Tasks, pc' = [pc EXCEPT ![t] = "holding"], waiters' = waiters,
             pc[t] # "waiting", \A u \in Tasks : pc[u] = "woken" => u = t
      PROVE  OrderInv'
  <2>1. \A u \in Tasks : pc[u] = "waiting" => InAcquire(pc', u)
    BY <1>1, <1>4 DEF InAcquire
  <2>2. \A i, j \in DOMAIN waiters :
          <<waiters[i].task, waiters[j].task>> \in cameBefore =>
            <<waiters[i].task, waiters[j].task>> \in cameBefore'
    BY <1>3, <2>1, StillBefore
  <2>3. \A u \in Tasks : pc'[u] # "woken"
    BY <1>1, <1>4
  <2> QED BY <1>4, <2>2, <2>3 DEF OrderInv
<1>5. ASSUME NEW t \in Tasks, AcquireAtOnce(t) PROVE OrderInv' /\ Fair
  <2>1. pc[t] = "idle" /\ pc' = [pc EXCEPT ![t] = "holding"] /\ waiters' = waiters
    BY <1>5 DEF AcquireAtOnce
  <2>2. ~wakeupScheduled /\ value > 0
    BY <1>1, <1>5 DEF AcquireAtOnce, MustWait
  <2>3. \A u \in Tasks : pc[u] # "woken" /\ pc[u] # "cancelling"
    BY <2>2 DEF LInv, LockInv
  <2>4. \A u \in Tasks : pc[u] # "waiting"
    BY <2>2, <2>3 DEF LInv, LockInv, Waiting
  <2>5. \A u \in Tasks : ~InAcquire(pc, u)
    BY <2>3, <2>4 DEF InAcquire
  <2> QED BY <1>4, <2>1, <2>3, <2>5
<1>6. ASSUME NEW t \in Tasks, AcquireWait(t) PROVE OrderInv' /\ Fair
  <2>1. Fair
    BY <1>1, <1>6 DEF AcquireWait
  <2> QED BY <1>6, <2>1, PushKeepsOrder
<1>7. ASSUME NEW t \in Tasks, ResumeEnter(t) PROVE OrderInv' /\ Fair
  <2>1. pc[t] = "woken" /\ pc' = [pc EXCEPT ![t] = "holding"] /\ waiters' = waiters
    BY <1>7 DEF ResumeEnter
  <2>2. \A u \in Tasks : pc[u] = "woken" => u = t
    BY <2>1 DEF LInv, LockInv
  <2>3. \A u \in Tasks \ {t} : InAcquire(pc, u) => pc[u] = "waiting"
    BY <2>2 DEF InAcquire, LInv, LockInv
  <2>4. Fair
    BY <1>1, <2>1, <2>3 DEF OrderInv
  <2> QED BY <1>4, <2>1, <2>2, <2>4
<1>8. ASSUME NEW t \in Tasks, ResumeWait(t) PROVE FALSE
  BY <1>1, <1>8 DEF ResumeWait, MustWait, LInv, LockInv
<1>9. ASSUME NEW t \in Tasks, CancelPending(t) \/ CancelWoken(t) \/ ResumeCancelled(t)
      PROVE  FALSE
  BY <1>9 DEF IsLock, CancelPending, CancelWoken, ResumeCancelled, LInv, LockInv
<1>10. ASSUME NEW t \in Tasks, Release(t) PROVE OrderInv' /\ Fair
  BY <1>10, WakeKeepsOrder
<1>11. ASSUME NEW n \in NewMaxValues, SetMaxValue(n) PROVE FALSE
  BY <1>11 DEF IsLock
<1>12. Next
  BY DEF OrderNext
<1> QED BY <1>5, <1>6, <1>7, <1>8, <1>9, <1>10, <1>11, <1>12 DEF Next, TaskStep, Resume

\* The lock with its history is the lock.
LEMMA HistoryIsHarmless == OrderSpec => Spec
<1>1. OrderInit => Init
  BY DEF OrderInit
<1>2. [OrderNext]_orderVars => [Next]_vars
  BY DEF OrderNext, orderVars, vars
<1> QED BY <1>1, <1>2, PTL DEF OrderSpec, Spec

\* Tasks of one priority get a PriorityLock nobody is cancelled on in the order in which
\* they called acquire(), however many they are and whatever their priorities.
THEOREM LockServesInOrder == ASSUME IsLock PROVE OrderSpec => FirstComeFirstServed
<1> DEFINE Fair == \A t \in Tasks :
                     pc[t] # "holding" /\ pc'[t] = "holding" =>
                       \A u \in Tasks \ {t} :
                         PriorityOf[u] = PriorityOf[t] /\ InAcquire(pc, u)
                           => <<t, u>> \in cameBefore
<1>1. OrderInit => OrderInv
  BY DEF OrderInit, Init, OrderInv
<1>2. IInv /\ LockInv /\ OrderInv /\ [OrderNext]_orderVars => OrderInv'
  BY OrderStep DEF LInv
<1>3. IInv /\ LockInv /\ OrderInv /\ [OrderNext]_orderVars => [Fair]_orderVars
  BY OrderStep DEF LInv
<1> QED BY <1>1, <1>2, <1>3, HistoryIsHarmless, LockInvHolds, IInvHolds, PTL
        DEF OrderSpec, FirstComeFirstServed
=============================================================================
