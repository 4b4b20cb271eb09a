---------------------------- MODULE BackupProofs ----------------------------
(***************************************************************************)
(* Proofs about NetworkBackups, for any networks, any increment and any    *)
(* bound of the counters and of the backups.  What is saved or waits to be *)
(* saved is in an order that the worker keeps: a backup that another one   *)
(* replaced is removed before that one gets its row, so that whenever the  *)
(* program dies the rows have at most one backup of a network, and no      *)
(* backup is more than the increment behind what its network has used.     *)
(* BackupFormats, for any addresses, keys and tables: what a file says of  *)
(* one device is what the three tables say of it, and no two devices have  *)
(* the same entry.                                                         *)
(***************************************************************************)
EXTENDS NetworkBackups, BackupFormats, FiniteSetTheorems, SequenceTheorems,
        WellFoundedInduction, TLAPS

-----------------------------------------------------------------------------
(* Numbers.                                                                *)

\* Of some natural numbers one is the least.
LEMMA LeastElement ==
  ASSUME NEW T, T \subseteq Nat, T # {}
  PROVE  \E x \in T : \A y \in T : x <= y
<1> DEFINE R == OpToRel(<, Nat)
<1>1. \A x, y \in Nat : x < y => <<x, y>> \in R
  BY DEF OpToRel
<1>2. IsWellFoundedOn(R, Nat)
  BY NatLessThanWellFounded
<1> HIDE DEF R
<1>3. \E x \in T : \A y \in T : ~(<<y, x>> \in R)
  BY <1>2, WFMin, Zenon
<1>4. PICK x \in T : \A y \in T : ~(<<y, x>> \in R)
  BY <1>3
<1>5. ASSUME NEW y \in T
      PROVE  x <= y
  <2>1. x \in Nat /\ y \in Nat /\ ~(y < x)
    BY <1>1, <1>4
  <2> QED BY <2>1
<1> QED BY <1>5

\* Of finitely many numbers up to a bound, one is the greatest.
LEMMA GreatestElement ==
  ASSUME NEW n \in Nat, NEW T \in SUBSET (0 .. n), T # {}
  PROVE  \E x \in T : \A y \in T : y <= x
<1> DEFINE Down == {n - i : i \in T}
<1>1. Down \subseteq Nat /\ Down # {}
  <2>1. \A i \in T : n - i \in Nat
    OBVIOUS
  <2> QED BY <2>1
<1>2. PICK d \in Down : \A e \in Down : d <= e
  BY <1>1, LeastElement, Zenon
<1>3. PICK x \in T : d = n - x
  OBVIOUS
<1>4. ASSUME NEW y \in T
      PROVE  y <= x
  <2>1. d <= n - y
    BY <1>2
  <2> QED BY <2>1, <1>3
<1> QED BY <1>4

-----------------------------------------------------------------------------
(* Backups: lists in the order of time.                                    *)

Listing(list) == {list[i] : i \in DOMAIN list}

LEMMA BackupTypes ==
  ASSUME NEW b \in Backup
  PROVE  /\ b.time \in Nat /\ b.time \in 0 .. MaxBackups
         /\ b.settings \in Settings
         /\ b.settings.counter \in Nat /\ b.settings.network \in Networks \cup {Quick}
BY BackupBounds DEF Backup, Settings

\* Two lists in order that have the same members are the same.
LEMMA SameOrder ==
  ASSUME NEW f \in Seq(Backup), NEW g \in Seq(Backup), InOrder(f), InOrder(g),
         Listing(f) = Listing(g)
  PROVE  f = g
<1> DEFINE Differ == {i \in Nat \ {0} : \/ i \in DOMAIN f /\ i \notin DOMAIN g
                                        \/ i \in DOMAIN g /\ i \notin DOMAIN f
                                        \/ i \in DOMAIN f /\ i \in DOMAIN g /\ f[i] # g[i]}
<1>1. /\ DOMAIN f = 1 .. Len(f) /\ DOMAIN g = 1 .. Len(g) /\ Len(f) \in Nat /\ Len(g) \in Nat
      /\ \A i \in DOMAIN f : f[i] \in Backup /\ f[i].time \in Nat
      /\ \A i \in DOMAIN g : g[i] \in Backup /\ g[i].time \in Nat
  BY BackupTypes
<1>2. /\ \A i \in DOMAIN f : \E j \in DOMAIN g : g[j] = f[i]
      /\ \A i \in DOMAIN g : \E j \in DOMAIN f : f[j] = g[i]
  BY DEF Listing
<1>3. Differ = {}
  <2> SUFFICES ASSUME Differ # {} PROVE FALSE
    OBVIOUS
  <2>1. Differ \subseteq Nat
    OBVIOUS
  <2> HIDE DEF Differ
  <2>2. PICK i \in Differ : \A k \in Differ : i <= k
    BY <2>1, LeastElement, Zenon
  <2> USE DEF Differ
  <2>3. \A k \in Nat \ {0} :
          k < i => (k \in DOMAIN f <=> k \in DOMAIN g) /\ (k \in DOMAIN f => f[k] = g[k])
    BY <2>2
  <2>4. CASE i \in DOMAIN f /\ i \notin DOMAIN g
    <3>1. PICK j \in DOMAIN g : g[j] = f[i]
      BY <1>2, <2>4
    <3>2. j < i /\ j \in Nat \ {0}
      BY <1>1, <2>4
    <3>3. j \in DOMAIN f /\ f[j] = f[i]
      BY <2>3, <3>1, <3>2
    <3> QED BY <1>1, <2>4, <3>2, <3>3 DEF InOrder
  <2>5. CASE i \in DOMAIN g /\ i \notin DOMAIN f
    <3>1. PICK j \in DOMAIN f : f[j] = g[i]
      BY <1>2, <2>5
    <3>2. j < i /\ j \in Nat \ {0}
      BY <1>1, <2>5
    <3>3. j \in DOMAIN g /\ g[j] = g[i]
      BY <2>3, <3>1, <3>2
    <3> QED BY <1>1, <2>5, <3>2, <3>3 DEF InOrder
  <2>6. CASE i \in DOMAIN f /\ i \in DOMAIN g /\ f[i] # g[i]
    <3>1. PICK j \in DOMAIN g : g[j] = f[i]
      BY <1>2, <2>6
    <3>2. PICK k \in DOMAIN f : f[k] = g[i]
      BY <1>2, <2>6
    <3>3. g[i].time < f[i].time
      <4>1. j # i
        BY <2>6, <3>1
      <4>2. ~(j < i)
        <5>1. ASSUME j < i PROVE FALSE
          <6>1. j \in DOMAIN f /\ f[j] = f[i]
            BY <1>1, <2>3, <3>1, <5>1
          <6> QED BY <1>1, <2>6, <5>1, <6>1 DEF InOrder
        <5> QED BY <5>1
      <4>3. i < j
        BY <1>1, <2>6, <4>1, <4>2
      <4> QED BY <2>6, <3>1, <4>3 DEF InOrder
    <3>4. f[i].time < g[i].time
      <4>1. k # i
        BY <2>6, <3>2
      <4>2. ~(k < i)
        <5>1. ASSUME k < i PROVE FALSE
          <6>1. k \in DOMAIN g /\ g[k] = g[i]
            BY <1>1, <2>3, <3>2, <5>1
          <6> QED BY <1>1, <2>6, <5>1, <6>1 DEF InOrder
        <5> QED BY <5>1
      <4>3. i < k
        BY <1>1, <2>6, <4>1, <4>2
      <4> QED BY <2>6, <3>2, <4>3 DEF InOrder
    <3> QED BY <1>1, <2>6, <3>3, <3>4
  <2> QED BY <2>2, <2>4, <2>5, <2>6
<1>4. Len(f) = Len(g)
  <2>1. CASE Len(f) < Len(g)
    <3>1. Len(g) \in Differ
      BY <1>1, <2>1
    <3> QED BY <1>3, <3>1
  <2>2. CASE Len(g) < Len(f)
    <3>1. Len(f) \in Differ
      BY <1>1, <2>2
    <3> QED BY <1>3, <3>1
  <2>3. \A m, n \in Nat : m < n \/ n < m \/ m = n
    OBVIOUS
  <2> QED BY <1>1, <2>1, <2>2, <2>3, Zenon
<1>5. \A i \in 1 .. Len(f) : f[i] = g[i]
  BY <1>1, <1>3, <1>4
<1> QED BY <1>4, <1>5, SeqEqual

\* Finitely many backups of different times have a list in their order.
LEMMA ListExists ==
  ASSUME NEW rows \in SUBSET Backup, IsFiniteSet(rows), \A b, c \in rows : b.time = c.time => b = c
  PROVE  \E list \in [1 .. Cardinality(rows) -> rows] : InOrder(list)
<1> DEFINE Distinct(S) == IsFiniteSet(S) /\ \A b, c \in S : b.time = c.time => b = c
           Listed(S, n) == \E list \in [1 .. n -> S] : InOrder(list)
           Bad == {n \in Nat : \E S \in SUBSET Backup : Distinct(S) /\ Cardinality(S) = n /\ ~Listed(S, n)}
<1>1. Bad = {}
  <2> SUFFICES ASSUME Bad # {} PROVE FALSE
    OBVIOUS
  <2> HIDE DEF Listed, Distinct
  <2>1. Bad \subseteq Nat
    OBVIOUS
  <2> HIDE DEF Bad
  <2>2. PICK n \in Bad : \A k \in Bad : n <= k
    BY <2>1, LeastElement, Zenon
  <2> USE DEF Bad
  <2>3. PICK S \in SUBSET Backup : Distinct(S) /\ Cardinality(S) = n /\ ~Listed(S, n)
    BY <2>2
  <2> USE DEF Distinct
  <2>4. n \in Nat
    BY <2>1, <2>2
  <2>5. CASE n = 0
    <3> DEFINE none == [i \in 1 .. 0 |-> 0]
    <3>1. none \in [1 .. 0 -> S] /\ InOrder(none)
      BY DEF InOrder
    <3> QED BY <2>3, <2>5, <3>1 DEF Listed
  <2>6. CASE n # 0
    <3>1. S # {}
      BY <2>3, <2>6, FS_EmptySet
    <3> DEFINE Times == {b.time : b \in S}
    <3>2. Times \in SUBSET (0 .. MaxBackups) /\ Times # {} /\ MaxBackups \in Nat
      BY <3>1, BackupTypes, BackupBounds
    <3> HIDE DEF Times
    <3>3. PICK latest \in Times : \A t \in Times : t <= latest
      BY <3>2, GreatestElement
    <3> USE DEF Times
    <3>4. PICK last \in S : last.time = latest
      BY <3>3
    <3>5. \A b \in S \ {last} : b.time < last.time
      <4>1. \A b \in S : b.time <= last.time /\ b.time \in Nat
        BY <3>3, <3>4, BackupTypes
      <4> QED BY <2>3, <4>1
    <3>6. Distinct(S \ {last}) /\ Cardinality(S \ {last}) = n - 1 /\ n - 1 \in Nat
      BY <2>3, <2>4, <2>6, FS_RemoveElement
    <3>7. Listed(S \ {last}, n - 1)
      <4>1. n - 1 \notin Bad
        BY <2>2, <2>4
      <4> QED BY <3>6, <4>1
    <3>8. PICK list \in [1 .. n - 1 -> S \ {last}] : InOrder(list)
      BY <3>7 DEF Listed
    <3> DEFINE more == [i \in 1 .. n |-> IF i = n THEN last ELSE list[i]]
    <3>9. \A i \in 1 .. n : i = n \/ i \in 1 .. n - 1
      BY <2>4
    <3>10. more \in [1 .. n -> S]
      BY <3>9
    <3>11. InOrder(more)
      <4> SUFFICES ASSUME NEW i \in 1 .. n, NEW j \in 1 .. n, i < j
                   PROVE  more[i].time < more[j].time
        BY DEF InOrder
      <4>1. i \in 1 .. n - 1 /\ i # n
        BY <2>4
      <4>2. CASE j = n
        BY <3>5, <4>1, <4>2
      <4>3. CASE j # n
        <5>1. j \in 1 .. n - 1
          BY <3>9, <4>3
        <5> QED BY <3>8, <4>1, <4>3, <5>1 DEF InOrder
      <4> QED BY <4>2, <4>3
    <3> HIDE DEF more
    <3> QED BY <2>3, <3>10, <3>11 DEF Listed
  <2> QED BY <2>5, <2>6
<1>2. Cardinality(rows) \in Nat
  BY FS_CardinalityType
<1>3. Listed(rows, Cardinality(rows))
  <2>1. Cardinality(rows) \notin Bad
    BY <1>1
  <2> HIDE DEF Listed
  <2> QED BY <1>2, <2>1
<1> QED BY <1>3

LEMMA SortedOf ==
  ASSUME NEW rows \in SUBSET Backup, IsFiniteSet(rows), \A b, c \in rows : b.time = c.time => b = c
  PROVE  Sorted(rows) \in Seq(rows) /\ InOrder(Sorted(rows)) /\ Listing(Sorted(rows)) = rows
<1> DEFINE n == Cardinality(rows)
<1>1. n \in Nat
  BY FS_CardinalityType
<1>2. Sorted(rows) \in [1 .. n -> rows] /\ InOrder(Sorted(rows))
  BY ListExists DEF Sorted
<1>3. IsFiniteSet(1 .. n) /\ Cardinality(1 .. n) = n
  <2>1. Cardinality(1 .. n) = IF 1 > n THEN 0 ELSE n - 1 + 1
    BY <1>1, FS_Interval
  <2> QED BY <1>1, <2>1, FS_Interval
<1> HIDE DEF n
<1>4. PICK list : list = Sorted(rows)
  OBVIOUS
<1>5. \A i, j \in 1 .. n : i # j => list[i] # list[j]
  <2> SUFFICES ASSUME NEW i \in 1 .. n, NEW j \in 1 .. n, i # j PROVE list[i] # list[j]
    OBVIOUS
  <2>1. i < j \/ j < i
    BY <1>1
  <2>2. list[i].time < list[j].time \/ list[j].time < list[i].time
    BY <1>2, <1>4, <2>1 DEF InOrder
  <2>3. list[i].time \in Nat
    BY <1>2, <1>4, BackupTypes
  <2> QED BY <2>2, <2>3
<1>6. list \in Injection(1 .. n, rows)
  BY <1>2, <1>4, <1>5 DEF Injection, IsInjective
<1>7. list \in Surjection(1 .. n, rows)
  BY <1>3, <1>6, FS_Injection DEF n
<1>8. Listing(list) = rows
  BY <1>2, <1>4, <1>7 DEF Surjection, Listing
<1>9. list \in Seq(rows)
  BY <1>1, <1>2, <1>4
<1> QED BY <1>2, <1>4, <1>8, <1>9

\* The recursive function of Those is what its definition says.
LEMMA ThoseUnfolds ==
  ASSUME NEW list \in Seq(Backup), NEW set
  PROVE  \E upTo :
           /\ upTo = [i \in 0 .. Len(list) |->
                        IF i = 0 THEN <<>>
                        ELSE IF list[i] \in set THEN Append(upTo[i - 1], list[i])
                        ELSE upTo[i - 1]]
           /\ Those(list, set) = upTo[Len(list)]
<1> DEFINE n == Len(list)
           Step(f, i) == IF i = 0 THEN <<>>
                         ELSE IF list[i] \in set THEN Append(f[i - 1], list[i])
                         ELSE f[i - 1]
           Unfolds(f, m) == f = [i \in 0 .. m |-> Step(f, i)]
           Bad == {m \in 0 .. n : ~\E f : Unfolds(f, m)}
<1>1. n \in Nat
  OBVIOUS
<1>2. Bad = {}
  <2> SUFFICES ASSUME Bad # {} PROVE FALSE
    OBVIOUS
  <2> HIDE DEF Unfolds
  <2>1. Bad \subseteq Nat
    BY <1>1
  <2> HIDE DEF Bad
  <2>2. PICK m \in Bad : \A k \in Bad : m <= k
    BY <2>1, LeastElement, Zenon
  <2> USE DEF Bad, Unfolds
  <2>3. CASE m = 0
    <3> DEFINE f == [i \in 0 .. 0 |-> <<>>]
    <3>1. f = [i \in 0 .. 0 |-> Step(f, i)]
      <4>1. \A i \in 0 .. 0 : i = 0
        OBVIOUS
      <4> QED BY <4>1
    <3>2. Unfolds(f, 0)
      BY <3>1
    <3> HIDE DEF f, Unfolds
    <3> QED BY <2>3, <3>2
  <2>4. CASE m # 0
    <3>1. m - 1 \in 0 .. n /\ ~(m <= m - 1) /\ m \in 1 .. n
      BY <1>1, <2>4
    <3>2. PICK f : Unfolds(f, m - 1)
      BY <2>2, <3>1
    <3> DEFINE g == [i \in 0 .. m |-> IF i = m THEN Step(f, m) ELSE f[i]]
    <3>3. ASSUME NEW i \in 0 .. m PROVE g[i] = Step(g, i)
      <4>1. CASE i = m
        <5>1. i # 0 /\ i - 1 \in 0 .. m /\ i - 1 # m
          BY <3>1, <4>1
        <5>2. g[i] = Step(f, m) /\ g[i - 1] = f[i - 1]
          BY <4>1, <5>1
        <5> QED BY <4>1, <5>2
      <4>2. CASE i = 0 /\ i # m
        <5>1. i \in 0 .. m - 1
          BY <3>1, <4>2
        <5>2. g[i] = f[i] /\ f[i] = <<>>
          BY <3>2, <4>2, <5>1
        <5> QED BY <4>2, <5>2
      <4>3. CASE i # 0 /\ i # m
        <5>1. i \in 0 .. m - 1 /\ i - 1 \in 0 .. m /\ i - 1 # m
          BY <3>1, <4>3
        <5>2. g[i] = f[i] /\ g[i - 1] = f[i - 1] /\ f[i] = Step(f, i)
          BY <3>2, <4>3, <5>1
        <5> QED BY <4>3, <5>2
      <4> QED BY <4>1, <4>2, <4>3
    <3>4. g = [i \in 0 .. m |-> g[i]]
      OBVIOUS
    <3> HIDE DEF g, Step
    <3>5. Unfolds(g, m)
      BY <3>3, <3>4
    <3> HIDE DEF Unfolds
    <3> QED BY <2>2, <3>5
  <2> QED BY <2>3, <2>4
<1>3. \E f : Unfolds(f, n)
  <2>1. n \in 0 .. n
    BY <1>1
  <2> HIDE DEF Unfolds, n
  <2> QED BY <1>2, <2>1
<1>4. Those(list, set) = (CHOOSE f : Unfolds(f, n))[n]
  BY DEF Those
<1> DEFINE it == CHOOSE f : Unfolds(f, n)
<1>5. Unfolds(it, n)
  <2> HIDE DEF Unfolds, n
  <2> QED BY <1>3
<1>6. Those(list, set) = it[n]
  BY <1>4
<1> HIDE DEF it
<1> QED BY <1>5, <1>6

\* The members of a list that are in a set, still in order.
LEMMA ThoseOf ==
  ASSUME NEW list \in Seq(Backup), InOrder(list), NEW set
  PROVE  /\ Those(list, set) \in Seq(Backup) /\ InOrder(Those(list, set))
         /\ Listing(Those(list, set)) = Listing(list) \cap set
<1> DEFINE n == Len(list)
           Until(k) == {list[j] : j \in 1 .. k}
<1>1. n \in Nat /\ DOMAIN list = 1 .. n /\ \A i \in 1 .. n : list[i] \in Backup /\ list[i].time \in Nat
  BY BackupTypes
<1>2. PICK upTo :
        /\ upTo = [i \in 0 .. n |-> IF i = 0 THEN <<>>
                                    ELSE IF list[i] \in set THEN Append(upTo[i - 1], list[i])
                                    ELSE upTo[i - 1]]
        /\ Those(list, set) = upTo[n]
  BY ThoseUnfolds
<1> DEFINE Good(k) == /\ upTo[k] \in Seq(Backup) /\ InOrder(upTo[k])
                      /\ Listing(upTo[k]) = Until(k) \cap set
           Bad == {k \in 0 .. n : ~Good(k)}
<1>3. Good(0)
  <2>1. upTo[0] = <<>>
    BY <1>1, <1>2
  <2>2. Until(0) = {}
    OBVIOUS
  <2>3. DOMAIN <<>> = {} /\ <<>> \in Seq(Backup)
    OBVIOUS
  <2> QED BY <2>1, <2>2, <2>3 DEF InOrder, Listing
<1>4. ASSUME NEW k \in 1 .. n, Good(k - 1) PROVE Good(k)
  <2>1. k \in 0 .. n /\ k # 0 /\ list[k] \in Backup /\ k - 1 \in Nat
    BY <1>1
  <2>2. upTo[k] = IF list[k] \in set THEN Append(upTo[k - 1], list[k]) ELSE upTo[k - 1]
    BY <1>2, <2>1
  <2>3. Until(k) = Until(k - 1) \cup {list[k]}
    <3>1. \A j : j \in 1 .. k <=> j \in 1 .. k - 1 \/ j = k
      BY <2>1
    <3> QED BY <3>1
  <2>4. \A b \in Until(k - 1) : b.time < list[k].time
    <3>1. \A j \in 1 .. k - 1 : list[j].time < list[k].time
      BY <1>1 DEF InOrder
    <3> QED BY <3>1
  <2> HIDE DEF Until
  <2>5. CASE list[k] \notin set
    BY <1>4, <2>2, <2>3, <2>5
  <2>6. CASE list[k] \in set
    <3>1. PICK short \in Seq(Backup) : short = upTo[k - 1]
      BY <1>4
    <3>2. PICK long : long = Append(short, list[k])
      OBVIOUS
    <3>3. /\ long \in Seq(Backup) /\ Len(long) = Len(short) + 1 /\ Len(short) \in Nat
          /\ \A i \in 1 .. Len(short) : long[i] = short[i]
          /\ long[Len(short) + 1] = list[k]
      BY <2>1, <3>2, AppendProperties
    <3>4. DOMAIN long = 1 .. Len(short) + 1 /\ DOMAIN short = 1 .. Len(short)
      BY <3>3
    <3>5. \A i \in DOMAIN long : i = Len(short) + 1 \/ i \in DOMAIN short
      BY <3>3, <3>4
    <3>6. \A i \in DOMAIN short : short[i].time < list[k].time
      BY <1>4, <2>4, <3>1 DEF Listing
    <3>7. InOrder(long)
      <4> SUFFICES ASSUME NEW i \in DOMAIN long, NEW j \in DOMAIN long, i < j
                   PROVE  long[i].time < long[j].time
        BY DEF InOrder
      <4>1. i \in DOMAIN short
        BY <3>3, <3>4
      <4>2. CASE j = Len(short) + 1
        BY <3>3, <3>4, <3>6, <4>1, <4>2
      <4>3. CASE j \in DOMAIN short
        BY <1>4, <3>1, <3>3, <3>4, <4>1, <4>3 DEF InOrder
      <4> QED BY <3>5, <4>2, <4>3
    <3>8. Listing(long) = Listing(short) \cup {list[k]}
      <4>1. \A i \in DOMAIN long : long[i] = list[k] \/ \E j \in DOMAIN short : long[i] = short[j]
        BY <3>3, <3>4, <3>5
      <4>2. \A j \in DOMAIN short : j \in DOMAIN long /\ long[j] = short[j]
        BY <3>3, <3>4
      <4>3. Len(short) + 1 \in DOMAIN long
        BY <3>3, <3>4
      <4> QED BY <3>3, <4>1, <4>2, <4>3 DEF Listing
    <3>9. upTo[k] = long
      BY <2>2, <2>6, <3>1, <3>2
    <3>10. Listing(upTo[k]) = Until(k) \cap set
      BY <1>4, <2>3, <2>6, <3>1, <3>8, <3>9
    <3> QED BY <3>3, <3>7, <3>9, <3>10
  <2> QED BY <2>5, <2>6
<1> HIDE DEF Good
<1>5. Bad = {}
  <2> SUFFICES ASSUME Bad # {} PROVE FALSE
    OBVIOUS
  <2>1. Bad \subseteq Nat
    BY <1>1
  <2> HIDE DEF Bad
  <2>2. PICK k \in Bad : \A j \in Bad : k <= j
    BY <2>1, LeastElement, Zenon
  <2> USE DEF Bad
  <2>3. k # 0
    BY <1>3, <2>2
  <2>4. k \in 1 .. n /\ k - 1 \in 0 .. n /\ ~(k <= k - 1)
    BY <1>1, <2>3
  <2>5. Good(k - 1)
    BY <2>2, <2>4
  <2> QED BY <1>4, <2>2, <2>4, <2>5
<1>6. Good(n)
  <2>1. n \in 0 .. n
    BY <1>1
  <2> QED BY <1>5, <2>1
<1>7. Until(n) = Listing(list)
  BY <1>1 DEF Listing
<1> QED BY <1>2, <1>6, <1>7 DEF Good

-----------------------------------------------------------------------------
(* Backups: the queue of the listener.                                     *)

Task == [what : {"created", "removed"}, backup : Backup]
Network(b) == b.settings.network
Counter(b) == b.settings.counter

Created(list) == {i \in DOMAIN list : list[i].what = "created"}
Removals(list) == {i \in DOMAIN list : list[i].what = "removed"}

\* What is saved or will be, be it for a while.
AllOf(rows, list) == rows \cup {list[i].backup : i \in Created(list)}

\* One backup of a network at a time has a row, whenever the worker stops.
QueueOK(rows, list, kept) ==
  /\ \A b, c \in AllOf(rows, list) : b.time = c.time => b = c
  /\ \A b, c \in AllOf(rows, list) :
       Network(b) = Network(c) /\ b.time < c.time => Counter(b) <= Counter(c)
  /\ \A b \in rows, j \in Created(list) : b.time < list[j].backup.time
  /\ \A i, j \in Created(list) : i < j => list[i].backup.time < list[j].backup.time
  /\ \A i \in Removals(list) : \/ list[i].backup \in rows
                              \/ \E k \in Created(list) : k < i /\ list[k].backup = list[i].backup
  /\ \A i, j \in Removals(list) : list[i].backup = list[j].backup => i = j
  /\ \A j \in Created(list), b \in AllOf(rows, list) :
       Network(b) = Network(list[j].backup) /\ b.time < list[j].backup.time =>
         \E i \in Removals(list) : i < j /\ list[i].backup = b
  /\ \A b, c \in rows : Network(b) = Network(c) => b = c
  /\ kept = {b \in AllOf(rows, list) : \A i \in Removals(list) : list[i].backup # b}

LEMMA QueueWorks ==
  ASSUME NEW rows \in SUBSET Backup, NEW list \in Seq(Task), list # <<>>, NEW kept,
         QueueOK(rows, list, kept), NEW after,
         after = IF Head(list).what = "created" THEN rows \cup {Head(list).backup}
                 ELSE {b \in rows : b.time # Head(list).backup.time}
  PROVE  QueueOK(after, Tail(list), kept) /\ AllOf(after, Tail(list)) \subseteq AllOf(rows, list)
<1>1. PICK rest : rest = Tail(list)
  OBVIOUS
<1>2. PICK t \in Task : t = Head(list) /\ t = list[1]
  BY HeadTailProperties
<1>3. /\ Len(list) \in Nat /\ Len(list) >= 1 /\ Len(rest) = Len(list) - 1 /\ rest \in Seq(Task)
      /\ \A i \in 1 .. Len(list) - 1 : rest[i] = list[i + 1]
  BY <1>1, HeadTailProperties, EmptySeq
<1>4. /\ 1 \in DOMAIN list
      /\ \A i \in DOMAIN list : i \in Nat /\ i >= 1 /\ list[i] \in Task
      /\ \A i \in DOMAIN list : i # 1 => i - 1 \in DOMAIN rest /\ rest[i - 1] = list[i]
      /\ \A i \in DOMAIN rest : i \in Nat /\ i >= 1 /\ i + 1 \in DOMAIN list /\ list[i + 1] = rest[i]
  <2>1. DOMAIN list = 1 .. Len(list) /\ DOMAIN rest = 1 .. Len(list) - 1
    BY <1>3
  <2> QED BY <1>3, <2>1
<1>20. after = IF t.what = "created" THEN rows \cup {t.backup} ELSE {b \in rows : b.time # t.backup.time}
  BY <1>2, Zenon
<1>21. list[1] = t /\ t \in Task
  BY <1>2
<1> SUFFICES QueueOK(after, rest, kept) /\ AllOf(after, rest) \subseteq AllOf(rows, list)
  BY <1>1, Zenon
\* Where a task of the list is in the rest of it.
<1>22. \A i \in Created(list) : i \in Nat /\ i >= 1 /\ list[i].backup \in Backup /\
          (i # 1 => i - 1 \in Created(rest) /\ rest[i - 1] = list[i])
  BY <1>4 DEF Created, Task
<1>23. \A i \in Removals(list) : i \in Nat /\ i >= 1 /\ list[i].backup \in Backup /\
          (i # 1 => i - 1 \in Removals(rest) /\ rest[i - 1] = list[i])
  BY <1>4 DEF Removals, Task
<1>24. \A i \in Created(rest) : i \in Nat /\ i >= 1 /\ i + 1 \in Created(list) /\ list[i + 1] = rest[i]
  BY <1>4 DEF Created
<1>25. \A i \in Removals(rest) : i \in Nat /\ i >= 1 /\ i + 1 \in Removals(list) /\ list[i + 1] = rest[i]
  BY <1>4 DEF Removals
<1>5. t.backup \in Backup /\ \A b \in Backup : b.time \in Nat
  BY <1>2, BackupTypes DEF Task
<1>6. CASE t.what = "created"
  <2>1. after = rows \cup {t.backup}
    BY <1>6, <1>20
  <2>2. 1 \in Created(list) /\ 1 \notin Removals(list)
    BY <1>4, <1>6, <1>21 DEF Created, Removals
  <2>3. AllOf(after, rest) = AllOf(rows, list)
    <3>1. ASSUME NEW b \in AllOf(after, rest) PROVE b \in AllOf(rows, list)
      BY <1>22, <1>23, <1>24, <1>25, <2>1, <2>2, <3>1 DEF AllOf
    <3>2. ASSUME NEW b \in AllOf(rows, list) PROVE b \in AllOf(after, rest)
      BY <1>21, <1>22, <1>23, <1>24, <1>25, <2>1, <3>2 DEF AllOf
    <3> QED BY <3>1, <3>2
  <2>4. ASSUME NEW b \in after, NEW j \in Created(rest) PROVE b.time < rest[j].backup.time
    <3>1. j + 1 \in Created(list) /\ rest[j] = list[j + 1] /\ 1 < j + 1
      BY <1>22, <1>23, <1>24, <1>25
    <3> QED BY <2>1, <2>2, <3>1 DEF QueueOK
  <2>5. ASSUME NEW i \in Created(rest), NEW j \in Created(rest), i < j
        PROVE  rest[i].backup.time < rest[j].backup.time
    <3>1. i + 1 \in Created(list) /\ j + 1 \in Created(list) /\ i + 1 < j + 1
      BY <1>22, <1>23, <1>24, <1>25, <2>5
    <3> QED BY <1>22, <1>23, <1>24, <1>25, <3>1 DEF QueueOK
  <2>6. ASSUME NEW i \in Removals(rest)
        PROVE  \/ rest[i].backup \in after
               \/ \E k \in Created(rest) : k < i /\ rest[k].backup = rest[i].backup
    <3>1. i + 1 \in Removals(list) /\ rest[i] = list[i + 1] /\ i \in Nat
      BY <1>22, <1>23, <1>24, <1>25
    <3>2. CASE list[i + 1].backup \in rows
      BY <2>1, <3>1, <3>2
    <3>3. CASE \E k \in Created(list) : k < i + 1 /\ list[k].backup = list[i + 1].backup
      <4>1. PICK k \in Created(list) : k < i + 1 /\ list[k].backup = list[i + 1].backup
        BY <3>3
      <4>2. CASE k = 1
        BY <1>21, <2>1, <3>1, <4>1, <4>2
      <4>3. CASE k # 1
        <5>1. k - 1 \in Created(rest) /\ rest[k - 1] = list[k] /\ k - 1 < i
          BY <1>22, <1>23, <1>24, <1>25, <3>1, <4>1, <4>3
        <5> QED BY <3>1, <4>1, <5>1
      <4> QED BY <4>2, <4>3
    <3> QED BY <3>1, <3>2, <3>3 DEF QueueOK
  <2>7. ASSUME NEW i \in Removals(rest), NEW j \in Removals(rest), rest[i].backup = rest[j].backup
        PROVE  i = j
    <3>1. i + 1 \in Removals(list) /\ j + 1 \in Removals(list) /\ i \in Nat /\ j \in Nat
      BY <1>22, <1>23, <1>24, <1>25
    <3>2. i + 1 = j + 1
      BY <1>22, <1>23, <1>24, <1>25, <2>7, <3>1 DEF QueueOK
    <3> QED BY <3>1, <3>2
  <2>8. ASSUME NEW j \in Created(rest), NEW b \in AllOf(after, rest),
               Network(b) = Network(rest[j].backup), b.time < rest[j].backup.time
        PROVE  \E i \in Removals(rest) : i < j /\ rest[i].backup = b
    <3>1. j + 1 \in Created(list) /\ rest[j] = list[j + 1] /\ j \in Nat
      BY <1>22, <1>23, <1>24, <1>25
    <3>2. PICK i \in Removals(list) : i < j + 1 /\ list[i].backup = b
      BY <2>3, <2>8, <3>1 DEF QueueOK
    <3>3. i # 1
      BY <2>2
    <3>4. i - 1 \in Removals(rest) /\ rest[i - 1] = list[i] /\ i - 1 < j
      BY <1>21, <1>22, <1>23, <1>24, <1>25, <3>1, <3>2, <3>3
    <3> QED BY <3>2, <3>4
  <2>9. ASSUME NEW b \in after, NEW c \in after, Network(b) = Network(c) PROVE b = c
    <3>1. \A d \in rows : Network(d) # Network(t.backup)
      <4> SUFFICES ASSUME NEW d \in rows, Network(d) = Network(t.backup) PROVE FALSE
        OBVIOUS
      <4>1. d.time < t.backup.time /\ d \in AllOf(rows, list)
        BY <1>21, <1>22, <2>2 DEF QueueOK, AllOf
      <4>2. PICK i \in Removals(list) : i < 1
        BY <1>21, <2>2, <4>1 DEF QueueOK
      <4> QED BY <1>22, <1>23, <1>24, <1>25, <4>2
    <3> QED BY <2>1, <2>9, <3>1 DEF QueueOK
  <2>10. kept = {b \in AllOf(after, rest) : \A i \in Removals(rest) : rest[i].backup # b}
    <3>1. \A b : (\A i \in Removals(rest) : rest[i].backup # b) <=> (\A i \in Removals(list) : list[i].backup # b)
      <4>1. ASSUME NEW b, \A i \in Removals(rest) : rest[i].backup # b, NEW i \in Removals(list)
            PROVE  list[i].backup # b
        BY <1>22, <1>23, <1>24, <1>25, <2>2, <4>1
      <4>2. ASSUME NEW b, \A i \in Removals(list) : list[i].backup # b, NEW i \in Removals(rest)
            PROVE  rest[i].backup # b
        BY <1>22, <1>23, <1>24, <1>25, <4>2
      <4> QED BY <4>1, <4>2
    <3> QED BY <2>3, <3>1 DEF QueueOK
  <2>11. /\ \A b, c \in AllOf(after, rest) : b.time = c.time => b = c
         /\ \A b, c \in AllOf(after, rest) :
              Network(b) = Network(c) /\ b.time < c.time => Counter(b) <= Counter(c)
    BY <2>3 DEF QueueOK
  <2>12. \A b, c \in after : Network(b) = Network(c) => b = c
    BY <2>9
  <2>13. QueueOK(after, rest, kept)
    <3>1. \A b \in after, j \in Created(rest) : b.time < rest[j].backup.time
      BY <2>4
    <3>2. \A i, j \in Created(rest) : i < j => rest[i].backup.time < rest[j].backup.time
      BY <2>5
    <3>3. \A i \in Removals(rest) : \/ rest[i].backup \in after
                                  \/ \E k \in Created(rest) : k < i /\ rest[k].backup = rest[i].backup
      BY <2>6
    <3>4. \A i, j \in Removals(rest) : rest[i].backup = rest[j].backup => i = j
      BY <2>7
    <3>5. \A j \in Created(rest), b \in AllOf(after, rest) :
            Network(b) = Network(rest[j].backup) /\ b.time < rest[j].backup.time =>
              \E i \in Removals(rest) : i < j /\ rest[i].backup = b
      BY <2>8
    <3> QED BY <2>10, <2>11, <2>12, <3>1, <3>2, <3>3, <3>4, <3>5 DEF QueueOK
  <2> QED BY <2>3, <2>13
<1>7. CASE t.what = "removed"
  <2>1. 1 \notin Created(list) /\ 1 \in Removals(list)
    BY <1>4, <1>7, <1>21 DEF Created, Removals
  <2>2. t.backup \in rows
    <3>1. \A k \in Created(list) : ~(k < 1)
      BY <1>22, <1>23, <1>24, <1>25, <2>1
    <3> QED BY <1>21, <2>1, <3>1 DEF QueueOK
  <2>3. after = rows \ {t.backup}
    <3>1. \A b \in rows : b.time = t.backup.time <=> b = t.backup
      BY <2>2 DEF QueueOK, AllOf
    <3>2. after = {b \in rows : b.time # t.backup.time}
      BY <1>7, <1>20
    <3> QED BY <3>1, <3>2
  <2>4. AllOf(after, rest) = AllOf(rows, list) \ {t.backup}
    <3>1. \A i \in Created(rest) : rest[i].backup # t.backup
      <4> SUFFICES ASSUME NEW i \in Created(rest), rest[i].backup = t.backup PROVE FALSE
        OBVIOUS
      <4>1. i + 1 \in Created(list) /\ list[i + 1].backup = t.backup
        BY <1>22, <1>23, <1>24, <1>25
      <4>2. t.backup.time < t.backup.time
        BY <2>2, <4>1 DEF QueueOK
      <4> QED BY <1>22, <1>23, <1>24, <1>25, <1>5, <4>2
    <3>2. ASSUME NEW b \in AllOf(after, rest) PROVE b \in AllOf(rows, list) \ {t.backup}
      BY <1>22, <1>23, <1>24, <1>25, <2>3, <3>1, <3>2 DEF AllOf
    <3>3. ASSUME NEW b \in AllOf(rows, list) \ {t.backup} PROVE b \in AllOf(after, rest)
      BY <1>22, <1>23, <1>24, <1>25, <2>1, <2>3, <3>3 DEF AllOf
    <3> QED BY <3>2, <3>3
  <2>5. ASSUME NEW b \in after, NEW j \in Created(rest) PROVE b.time < rest[j].backup.time
    <3>1. j + 1 \in Created(list) /\ rest[j] = list[j + 1]
      BY <1>22, <1>23, <1>24, <1>25
    <3> QED BY <2>3, <3>1 DEF QueueOK
  <2>6. ASSUME NEW i \in Created(rest), NEW j \in Created(rest), i < j
        PROVE  rest[i].backup.time < rest[j].backup.time
    <3>1. i + 1 \in Created(list) /\ j + 1 \in Created(list) /\ i + 1 < j + 1
      BY <1>22, <1>23, <1>24, <1>25, <2>6
    <3> QED BY <1>22, <1>23, <1>24, <1>25, <3>1 DEF QueueOK
  <2>7. ASSUME NEW i \in Removals(rest), NEW j \in Removals(rest), rest[i].backup = rest[j].backup
        PROVE  i = j
    <3>1. i + 1 \in Removals(list) /\ j + 1 \in Removals(list) /\ i \in Nat /\ j \in Nat
      BY <1>22, <1>23, <1>24, <1>25
    <3>2. i + 1 = j + 1
      BY <1>22, <1>23, <1>24, <1>25, <2>7, <3>1 DEF QueueOK
    <3> QED BY <3>1, <3>2
  <2>8. ASSUME NEW i \in Removals(rest)
        PROVE  \/ rest[i].backup \in after
               \/ \E k \in Created(rest) : k < i /\ rest[k].backup = rest[i].backup
    <3>1. i + 1 \in Removals(list) /\ rest[i] = list[i + 1] /\ i \in Nat /\ i + 1 > 1
      BY <1>22, <1>23, <1>24, <1>25
    <3>2. CASE list[i + 1].backup \in rows
      <4>1. list[i + 1].backup # t.backup
        BY <1>21, <2>1, <3>1 DEF QueueOK
      <4> QED BY <2>3, <3>1, <3>2, <4>1
    <3>3. CASE \E k \in Created(list) : k < i + 1 /\ list[k].backup = list[i + 1].backup
      <4>1. PICK k \in Created(list) : k < i + 1 /\ list[k].backup = list[i + 1].backup
        BY <3>3
      <4>2. k - 1 \in Created(rest) /\ rest[k - 1] = list[k] /\ k - 1 < i
        BY <1>22, <1>23, <1>24, <1>25, <2>1, <3>1, <4>1
      <4> QED BY <3>1, <4>1, <4>2
    <3> QED BY <3>1, <3>2, <3>3 DEF QueueOK
  <2>9. ASSUME NEW j \in Created(rest), NEW b \in AllOf(after, rest),
               Network(b) = Network(rest[j].backup), b.time < rest[j].backup.time
        PROVE  \E i \in Removals(rest) : i < j /\ rest[i].backup = b
    <3>1. j + 1 \in Created(list) /\ rest[j] = list[j + 1] /\ j \in Nat
      BY <1>22, <1>23, <1>24, <1>25
    <3>2. b \in AllOf(rows, list) /\ b # t.backup
      BY <2>4
    <3>3. PICK i \in Removals(list) : i < j + 1 /\ list[i].backup = b
      BY <2>9, <3>1, <3>2 DEF QueueOK
    <3>4. i - 1 \in Removals(rest) /\ rest[i - 1] = list[i] /\ i - 1 < j
      BY <1>21, <1>22, <1>23, <1>24, <1>25, <3>1, <3>2, <3>3
    <3> QED BY <3>3, <3>4
  <2>10. \A b, c \in after : Network(b) = Network(c) => b = c
    BY <2>3 DEF QueueOK
  <2>11. kept = {b \in AllOf(after, rest) : \A i \in Removals(rest) : rest[i].backup # b}
    <3>1. \A b : (\A i \in Removals(list) : list[i].backup # b)
                   <=> b # t.backup /\ \A i \in Removals(rest) : rest[i].backup # b
      <4>1. ASSUME NEW b, b # t.backup, \A i \in Removals(rest) : rest[i].backup # b, NEW i \in Removals(list)
            PROVE  list[i].backup # b
        BY <1>21, <1>22, <1>23, <1>24, <1>25, <4>1
      <4>2. ASSUME NEW b, \A i \in Removals(list) : list[i].backup # b, NEW i \in Removals(rest)
            PROVE  rest[i].backup # b
        BY <1>22, <1>23, <1>24, <1>25, <4>2
      <4>3. ASSUME NEW b, \A i \in Removals(list) : list[i].backup # b
            PROVE  b # t.backup
        BY <1>21, <2>1, <4>3
      <4> QED BY <4>1, <4>2, <4>3
    <3> QED BY <2>4, <3>1 DEF QueueOK
  <2>12. /\ \A b, c \in AllOf(after, rest) : b.time = c.time => b = c
         /\ \A b, c \in AllOf(after, rest) :
              Network(b) = Network(c) /\ b.time < c.time => Counter(b) <= Counter(c)
    BY <2>4 DEF QueueOK
  <2>13. QueueOK(after, rest, kept)
    BY <2>5, <2>6, <2>7, <2>8, <2>9, <2>10, <2>11, <2>12 DEF QueueOK
  <2> QED BY <2>4, <2>13
<1> QED BY <1>2, <1>6, <1>7 DEF Task

\* The events of add_backup: m removals, then the new backup.
EventsAre(more, m, new, gone) ==
  /\ Len(more) = m + 1
  /\ more[m + 1] = [what |-> "created", backup |-> new]
  /\ \A i \in 1 .. m : more[i].what = "removed"
  /\ {more[i].backup : i \in 1 .. m} = gone
  /\ \A i, j \in 1 .. m : more[i].backup = more[j].backup => i = j

\* A backup is made after the others and has the highest counter of its network.
Newest(new, all) ==
  \A b \in all : /\ b.time < new.time
                 /\ Network(b) = Network(new) => Counter(b) <= Counter(new)

\* What add_backup finds.
Adding(rows, list, kept, new, m, more) ==
  /\ rows \in SUBSET Backup /\ list \in Seq(Task) /\ QueueOK(rows, list, kept)
  /\ new \in Backup /\ Newest(new, AllOf(rows, list))
  /\ m \in Nat /\ more \in Seq(Task) /\ EventsAre(more, m, new, kept \cap Replaced(new))

\* add_backup puts its events behind those that the worker has not come to.
LEMMA QueueAdds ==
  ASSUME NEW rows, NEW list, NEW kept, NEW new, NEW m, NEW more, Adding(rows, list, kept, new, m, more)
  PROVE  /\ QueueOK(rows, list \o more, (kept \ Replaced(new)) \cup {new})
         /\ AllOf(rows, list \o more) = AllOf(rows, list) \cup {new}
<1> DEFINE n == Len(list)
           gone == kept \cap Replaced(new)
           last == n + m + 1
<1> /\ rows \in SUBSET Backup /\ list \in Seq(Task) /\ QueueOK(rows, list, kept)
    /\ new \in Backup /\ Newest(new, AllOf(rows, list))
    /\ m \in Nat /\ more \in Seq(Task) /\ EventsAre(more, m, new, kept \cap Replaced(new))
  BY DEF Adding
<1>0. /\ list \o more \in Seq(Task) /\ Len(list \o more) = Len(list) + Len(more)
      /\ \A i \in 1 .. Len(list) + Len(more) :
           (list \o more)[i] = IF i <= Len(list) THEN list[i] ELSE more[i - Len(list)]
  BY ConcatProperties
<1> USE DEF Newest
<1> /\ Len(more) = m + 1 /\ more[m + 1] = [what |-> "created", backup |-> new]
    /\ \A i \in 1 .. m : more[i].what = "removed"
    /\ {more[i].backup : i \in 1 .. m} = kept \cap Replaced(new)
    /\ \A i, j \in 1 .. m : more[i].backup = more[j].backup => i = j
  BY DEF EventsAre
<1>1. PICK long : long = list \o more
  OBVIOUS
<1>2. /\ long \in Seq(Task) /\ n \in Nat /\ Len(long) = last
      /\ \A i \in 1 .. n : long[i] = list[i]
      /\ \A i \in 1 .. m + 1 : long[n + i] = more[i]
  <2>1. /\ long \in Seq(Task) /\ Len(long) = n + Len(more)
        /\ \A i \in 1 .. n + Len(more) : long[i] = IF i <= n THEN list[i] ELSE more[i - n]
    BY <1>0, <1>1, Zenon
  <2>2. n \in Nat
    OBVIOUS
  <2>3. ASSUME NEW i \in 1 .. m + 1 PROVE long[n + i] = more[i]
    <3>1. n + i \in 1 .. n + Len(more) /\ ~(n + i <= n) /\ (n + i) - n = i
      BY <2>2
    <3> QED BY <2>1, <3>1
  <2> HIDE DEF n
  <2> QED BY <2>1, <2>2, <2>3
<1>3. /\ DOMAIN long = 1 .. last /\ DOMAIN list = 1 .. n /\ last \in Nat /\ last > n
      /\ \A i \in 1 .. last : i \in 1 .. n \/ i = last \/ (i \in n + 1 .. n + m /\ i - n \in 1 .. m /\ n + (i - n) = i)
  BY <1>2
<1>4. /\ \A i \in 1 .. n : i \in 1 .. last /\ i < last /\ i # last /\ long[i] = list[i]
      /\ \A i \in n + 1 .. n + m : i \in 1 .. last /\ i < last /\ i # last /\ long[i] = more[i - n] /\ long[i].what = "removed"
      /\ long[last] = [what |-> "created", backup |-> new] /\ last \in 1 .. last
  <2>1. ASSUME NEW i \in n + 1 .. n + m
        PROVE  i \in 1 .. last /\ i < last /\ i # last /\ long[i] = more[i - n] /\ more[i - n].what = "removed"
    <3>1. i - n \in 1 .. m /\ i - n \in 1 .. m + 1 /\ n + (i - n) = i
      BY <1>2
    <3>2. long[i] = more[i - n]
      BY <1>2, <3>1
    <3> QED BY <1>2, <3>1, <3>2
  <2>2. long[last] = more[m + 1] /\ last \in 1 .. last
    <3>1. m + 1 \in 1 .. m + 1 /\ n + (m + 1) = last
      BY <1>2
    <3>2. long[n + (m + 1)] = more[m + 1]
      BY <1>2, <3>1
    <3> QED BY <1>2, <3>1, <3>2
  <2>3. \A i \in 1 .. n : i \in 1 .. last /\ i < last /\ i # last
    BY <1>2
  <2> QED BY <1>2, <2>1, <2>2, <2>3
<1> HIDE DEF n, last, gone
\* The tasks of the longer list.
<1>11. \A i \in Created(list) : i \in Created(long) /\ long[i] = list[i] /\ i < last /\ i \in Nat
  BY <1>3, <1>4 DEF Created
<1>12. \A i \in Created(long) : i = last \/ (i \in Created(list) /\ long[i] = list[i] /\ i < last)
  <2> SUFFICES ASSUME NEW i \in Created(long), i # last
               PROVE  i \in Created(list) /\ long[i] = list[i] /\ i < last
    OBVIOUS
  <2>1. i \in 1 .. last /\ long[i].what = "created"
    BY <1>3 DEF Created
  <2>2. i \notin n + 1 .. n + m
    <3>1. "created" # "removed"
      OBVIOUS
    <3> QED BY <1>4, <2>1, <3>1
  <2>3. i \in 1 .. n
    BY <1>3, <2>1, <2>2
  <2> QED BY <1>3, <1>4, <2>1, <2>3 DEF Created
<1>13. last \in Created(long) /\ long[last].backup = new /\ last \in Nat
  BY <1>3, <1>4 DEF Created
<1>14. \A i \in Removals(list) : i \in Removals(long) /\ long[i] = list[i] /\ i < last /\ i \in Nat /\ i <= n
  BY <1>2, <1>3, <1>4 DEF Removals
<1>15. \A i \in Removals(long) : \/ i \in Removals(list) /\ long[i] = list[i]
                                \/ /\ i \in n + 1 .. n + m /\ i - n \in 1 .. m /\ i \in Nat
                                   /\ long[i] = more[i - n] /\ long[i].backup \in gone
  <2> SUFFICES ASSUME NEW i \in Removals(long)
               PROVE  \/ i \in Removals(list) /\ long[i] = list[i]
                      \/ /\ i \in n + 1 .. n + m /\ i - n \in 1 .. m /\ i \in Nat
                         /\ long[i] = more[i - n] /\ long[i].backup \in gone
    OBVIOUS
  <2>1. i \in 1 .. last /\ long[i].what = "removed" /\ i \in Nat
    BY <1>3 DEF Removals
  <2>2. i # last
    <3>1. "created" # "removed"
      OBVIOUS
    <3> QED BY <1>4, <2>1, <3>1
  <2>3. CASE i \in 1 .. n
    BY <1>3, <1>4, <2>1, <2>3 DEF Removals
  <2>4. CASE i \in n + 1 .. n + m
    <3>1. i - n \in 1 .. m /\ long[i] = more[i - n]
      BY <1>2, <1>4, <2>4
    <3>2. more[i - n].backup \in gone
      BY <3>1 DEF gone
    <3> QED BY <2>1, <2>4, <3>1, <3>2
  <2> QED BY <1>3, <2>1, <2>2, <2>3, <2>4
<1>16. \A b \in gone : \E i \in Removals(long) : i < last /\ long[i].backup = b
  <2> SUFFICES ASSUME NEW b \in gone PROVE \E i \in Removals(long) : i < last /\ long[i].backup = b
    OBVIOUS
  <2>1. PICK k \in 1 .. m : more[k].backup = b
    BY DEF gone
  <2>2. n + k \in n + 1 .. n + m /\ (n + k) - n = k
    BY <1>2
  <2>3. long[n + k] = more[k] /\ n + k \in 1 .. last /\ n + k < last /\ long[n + k].what = "removed"
    BY <1>4, <2>2
  <2>4. n + k \in Removals(long)
    BY <1>3, <2>3 DEF Removals
  <2> QED BY <2>1, <2>3, <2>4
\* What the queue stood for.
<1>21. kept = {b \in AllOf(rows, list) : \A i \in Removals(list) : list[i].backup # b}
  BY DEF QueueOK
<1>22. gone \subseteq AllOf(rows, list) /\ gone \subseteq kept /\ gone \subseteq Replaced(new)
  BY <1>21 DEF gone
<1>23. AllOf(rows, list) \subseteq Backup /\ rows \subseteq AllOf(rows, list)
  <2>1. \A i \in Created(list) : list[i].backup \in Backup
    <3>1. \A i \in DOMAIN list : list[i] \in Task
      OBVIOUS
    <3> QED BY <3>1 DEF Created, Task
  <2> QED BY <2>1 DEF AllOf
<1>24. \A b \in AllOf(rows, list) : b.time \in Nat /\ new.time \in Nat /\ b # new
  <2>1. \A b \in AllOf(rows, list) : b.time \in Nat /\ new.time \in Nat /\ b.time < new.time
    BY <1>23, BackupTypes
  <2> QED BY <2>1
<1>25. new.time \in Nat /\ Counter(new) \in Nat
  BY BackupTypes DEF Counter
<1>26. \A i \in Created(list) : list[i].backup \in AllOf(rows, list)
  BY DEF AllOf
<1>27. \A b \in AllOf(rows, list) : b.time < new.time /\ ~(new.time < b.time) /\ b.time # new.time
  BY <1>24
<1>28. \A b \in AllOf(rows, list) : Network(b) = Network(new) => b \in Replaced(new)
  <2> SUFFICES ASSUME NEW b \in AllOf(rows, list), Network(b) = Network(new) PROVE b \in Replaced(new)
    OBVIOUS
  <2>1. Counter(b) <= Counter(new) /\ Counter(b) \in Nat /\ b \in Backup
    BY <1>23, BackupTypes DEF Counter
  <2> QED BY <1>25, <2>1 DEF Replaced, Replaces, Network, Counter
<1>29. \A i \in Removals(list) : list[i].backup \in AllOf(rows, list)
  <2>1. \A i \in Removals(list) : \/ list[i].backup \in rows
                                 \/ \E k \in Created(list) : k < i /\ list[k].backup = list[i].backup
    BY DEF QueueOK
  <2> QED BY <1>23, <1>26, <2>1
\* What the longer one stands for.
<1>31. AllOf(rows, long) = AllOf(rows, list) \cup {new}
  <2>1. ASSUME NEW b \in AllOf(rows, long) PROVE b \in AllOf(rows, list) \cup {new}
    BY <1>12, <1>13 DEF AllOf
  <2>2. ASSUME NEW b \in AllOf(rows, list) \cup {new} PROVE b \in AllOf(rows, long)
    <3>1. CASE b = new
      BY <1>13, <3>1 DEF AllOf
    <3>2. CASE b \in rows
      BY <3>2 DEF AllOf
    <3>3. CASE \E i \in Created(list) : b = list[i].backup
      BY <1>11, <3>3 DEF AllOf
    <3> QED BY <2>2, <3>1, <3>2, <3>3 DEF AllOf
  <2> QED BY <2>1, <2>2
<1>32. \A b, c \in AllOf(rows, long) : b.time = c.time => b = c
  <2>1. \A b, c \in AllOf(rows, list) : b.time = c.time => b = c
    BY DEF QueueOK
  <2> QED BY <1>27, <1>31, <2>1
<1>33. \A b, c \in AllOf(rows, long) : Network(b) = Network(c) /\ b.time < c.time => Counter(b) <= Counter(c)
  <2>1. \A b, c \in AllOf(rows, list) : Network(b) = Network(c) /\ b.time < c.time => Counter(b) <= Counter(c)
    BY DEF QueueOK
  <2>2. ASSUME NEW b \in AllOf(rows, long), NEW c \in AllOf(rows, long), Network(b) = Network(c), b.time < c.time
        PROVE  Counter(b) <= Counter(c)
    <3>1. b \in AllOf(rows, list)
      BY <1>25, <1>27, <1>31, <2>2
    <3> QED BY <1>31, <2>1, <2>2, <3>1
  <2> QED BY <2>2
<1>34. \A b \in rows, j \in Created(long) : b.time < long[j].backup.time
  <2>1. \A b \in rows, j \in Created(list) : b.time < list[j].backup.time
    BY DEF QueueOK
  <2> QED BY <1>12, <1>13, <1>23, <1>27, <2>1
<1>35. \A i, j \in Created(long) : i < j => long[i].backup.time < long[j].backup.time
  <2>1. \A i, j \in Created(list) : i < j => list[i].backup.time < list[j].backup.time
    BY DEF QueueOK
  <2>2. ASSUME NEW i \in Created(long), NEW j \in Created(long), i < j
        PROVE  long[i].backup.time < long[j].backup.time
    <3>1. i # last
      BY <1>12, <1>13, <2>2
    <3>2. i \in Created(list) /\ long[i] = list[i]
      BY <1>12, <3>1
    <3>3. CASE j = last
      BY <1>13, <1>26, <1>27, <3>2, <3>3
    <3>4. CASE j # last
      BY <1>12, <2>1, <2>2, <3>2, <3>4
    <3> QED BY <3>3, <3>4
  <2> QED BY <2>2
<1>36. \A i \in Removals(long) : \/ long[i].backup \in rows
                                \/ \E k \in Created(long) : k < i /\ long[k].backup = long[i].backup
  <2>1. \A i \in Removals(list) : \/ list[i].backup \in rows
                                 \/ \E k \in Created(list) : k < i /\ list[k].backup = list[i].backup
    BY DEF QueueOK
  <2> SUFFICES ASSUME NEW i \in Removals(long), long[i].backup \notin rows
               PROVE  \E k \in Created(long) : k < i /\ long[k].backup = long[i].backup
    OBVIOUS
  <2>2. CASE i \in Removals(list) /\ long[i] = list[i]
    <3>1. PICK k \in Created(list) : k < i /\ list[k].backup = list[i].backup
      BY <2>1, <2>2
    <3> QED BY <1>11, <2>2, <3>1
  <2>3. CASE i \in n + 1 .. n + m /\ long[i].backup \in gone
    <3>1. long[i].backup \in AllOf(rows, list)
      BY <1>22, <2>3
    <3>2. PICK k \in Created(list) : list[k].backup = long[i].backup
      BY <3>1 DEF AllOf
    <3>3. k \in 1 .. n
      BY <1>3 DEF Created
    <3>4. k < i
      BY <1>2, <2>3, <3>3
    <3> QED BY <1>11, <3>2, <3>4
  <2> QED BY <1>15, <2>2, <2>3
<1>37. \A i, j \in Removals(long) : long[i].backup = long[j].backup => i = j
  <2>1. \A i, j \in Removals(list) : list[i].backup = list[j].backup => i = j
    BY DEF QueueOK
  <2>2. \A i \in Removals(list) : list[i].backup \notin gone
    BY <1>21, <1>22
  <2> SUFFICES ASSUME NEW i \in Removals(long), NEW j \in Removals(long), long[i].backup = long[j].backup
               PROVE  i = j
    OBVIOUS
  <2>3. CASE i \in Removals(list) /\ long[i] = list[i]
    BY <1>15, <2>1, <2>2, <2>3
  <2>4. CASE ~(i \in Removals(list) /\ long[i] = list[i])
    <3>1. ~(j \in Removals(list) /\ long[j] = list[j])
      BY <1>15, <2>2, <2>4
    <3>2. i - n \in 1 .. m /\ j - n \in 1 .. m /\ long[i] = more[i - n] /\ long[j] = more[j - n] /\ i \in Nat /\ j \in Nat
      BY <1>15, <2>4, <3>1
    <3>3. i - n = j - n
      BY <3>2
    <3> QED BY <1>2, <3>2, <3>3
  <2> QED BY <2>3, <2>4
<1>38. \A j \in Created(long), b \in AllOf(rows, long) :
         Network(b) = Network(long[j].backup) /\ b.time < long[j].backup.time =>
           \E i \in Removals(long) : i < j /\ long[i].backup = b
  <2>1. \A j \in Created(list), b \in AllOf(rows, list) :
          Network(b) = Network(list[j].backup) /\ b.time < list[j].backup.time =>
            \E i \in Removals(list) : i < j /\ list[i].backup = b
    BY DEF QueueOK
  <2> SUFFICES ASSUME NEW j \in Created(long), NEW b \in AllOf(rows, long),
                      Network(b) = Network(long[j].backup), b.time < long[j].backup.time
               PROVE  \E i \in Removals(long) : i < j /\ long[i].backup = b
    OBVIOUS
  <2>2. CASE j = last
    <3>1. b \in AllOf(rows, list) /\ Network(b) = Network(new)
      BY <1>13, <1>25, <1>31, <2>2
    <3>2. b \in Replaced(new)
      BY <1>28, <3>1
    <3>3. CASE b \in kept
      <4>1. b \in gone
        BY <3>2, <3>3 DEF gone
      <4> QED BY <1>16, <2>2, <4>1
    <3>4. CASE b \notin kept
      <4>1. PICK i \in Removals(list) : list[i].backup = b
        BY <1>21, <3>1, <3>4
      <4> QED BY <1>14, <2>2, <4>1
    <3> QED BY <3>3, <3>4
  <2>3. CASE j # last
    <3>1. j \in Created(list) /\ long[j] = list[j]
      BY <1>12, <2>3
    <3>2. b \in AllOf(rows, list)
      <4>1. b # new
        BY <1>26, <1>27, <3>1
      <4> QED BY <1>31, <4>1
    <3>3. PICK i \in Removals(list) : i < j /\ list[i].backup = b
      BY <2>1, <3>1, <3>2
    <3> QED BY <1>14, <3>3
  <2> QED BY <2>2, <2>3
<1>39. (kept \ Replaced(new)) \cup {new} = {b \in AllOf(rows, long) : \A i \in Removals(long) : long[i].backup # b}
  <2>1. ASSUME NEW b \in (kept \ Replaced(new)) \cup {new}
        PROVE  b \in AllOf(rows, long) /\ \A i \in Removals(long) : long[i].backup # b
    <3>1. CASE b = new
      <4>1. ASSUME NEW i \in Removals(long) PROVE long[i].backup # new
        BY <1>15, <1>22, <1>24, <1>29
      <4> QED BY <1>31, <3>1, <4>1
    <3>2. CASE b \in kept /\ b \notin Replaced(new)
      <4>1. b \in AllOf(rows, list) /\ \A i \in Removals(list) : list[i].backup # b
        BY <1>21, <3>2
      <4>2. b \notin gone
        BY <3>2 DEF gone
      <4> QED BY <1>15, <1>31, <4>1, <4>2
    <3> QED BY <2>1, <3>1, <3>2
  <2>2. ASSUME NEW b \in AllOf(rows, long), \A i \in Removals(long) : long[i].backup # b
        PROVE  b \in (kept \ Replaced(new)) \cup {new}
    <3> SUFFICES ASSUME b # new PROVE b \in kept \ Replaced(new)
      OBVIOUS
    <3>1. b \in AllOf(rows, list)
      BY <1>31
    <3>2. b \in kept
      BY <1>14, <1>21, <2>2, <3>1
    <3>3. b \notin gone
      BY <1>16, <2>2
    <3> QED BY <3>2, <3>3 DEF gone
  <2> QED BY <2>1, <2>2
<1>40. \A b, c \in rows : Network(b) = Network(c) => b = c
  BY DEF QueueOK
<1>41. QueueOK(rows, long, (kept \ Replaced(new)) \cup {new})
  BY <1>32, <1>33, <1>34, <1>35, <1>36, <1>37, <1>38, <1>39, <1>40 DEF QueueOK
<1> QED BY <1>1, <1>31, <1>41

-----------------------------------------------------------------------------
(* Backups: the counters.                                                  *)

\* What a backup, the settings of the radio and those that were loaded last can
\* be behind the highest counter of their network.
CountersOK(all, now, loaded, highest) ==
  /\ \A b \in all : /\ Counter(b) <= highest[Network(b)]
                    /\ highest[Network(b)] <= Counter(b) + Increment
                    /\ loaded.network = Network(b) => Counter(b) <= loaded.counter
  /\ now # NotFormed => highest[now.network] = now.counter
  /\ loaded # NotFormed => /\ loaded.counter <= highest[loaded.network]
                           /\ highest[loaded.network] <= loaded.counter + Increment

\* used, as Write changes it.
Raised(highest, settings) ==
  [highest EXCEPT ![settings.network] = IF @ < settings.counter THEN settings.counter ELSE @]

\* Settings that fall behind neither their network nor their backups.
Writing(all, now, loaded, highest, settings) ==
  /\ all \in SUBSET Backup /\ now \in Settings \cup {NotFormed} /\ loaded \in Settings \cup {NotFormed}
  /\ highest \in [Networks \cup {Quick} -> -1 .. MaxCounter]
  /\ CountersOK(all, now, loaded, highest)
  /\ settings \in Settings /\ highest[settings.network] <= settings.counter
  /\ \A b \in all : Network(b) = settings.network => settings.counter <= Counter(b) + Increment

\* What restore_backup and the network formation do to the counters.
LEMMA RadioWrites ==
  ASSUME NEW all, NEW now, NEW loaded, NEW highest, NEW settings, Writing(all, now, loaded, highest, settings)
  PROVE  /\ Raised(highest, settings) \in [Networks \cup {Quick} -> -1 .. MaxCounter]
         /\ (loaded.network = settings.network => settings.counter <= loaded.counter + Increment)
              => CountersOK(all, settings, loaded, Raised(highest, settings))
         /\ CountersOK(all, settings, settings, Raised(highest, settings))
<1> /\ all \in SUBSET Backup /\ now \in Settings \cup {NotFormed} /\ loaded \in Settings \cup {NotFormed}
    /\ highest \in [Networks \cup {Quick} -> -1 .. MaxCounter]
    /\ CountersOK(all, now, loaded, highest)
    /\ settings \in Settings /\ highest[settings.network] <= settings.counter
    /\ \A b \in all : Network(b) = settings.network => settings.counter <= Counter(b) + Increment
  BY DEF Writing
<1> PICK higher : higher = [highest EXCEPT ![settings.network] = IF @ < settings.counter THEN settings.counter ELSE @]
  OBVIOUS
<1>1. /\ settings.network \in Networks \cup {Quick} /\ settings.counter \in 0 .. MaxCounter
      /\ MaxCounter \in Nat /\ Increment \in Nat
  BY BackupBounds, IncrementIsNatural DEF Settings
<1>2. higher[settings.network] = settings.counter
  <2>1. highest[settings.network] \in -1 .. MaxCounter
    BY <1>1
  <2> QED BY <1>1, <2>1
<1>3. \A n \in Networks \cup {Quick} : n # settings.network => higher[n] = highest[n]
  OBVIOUS
<1>4. higher \in [Networks \cup {Quick} -> -1 .. MaxCounter]
  <2>1. settings.counter \in -1 .. MaxCounter
    BY <1>1
  <2> QED BY <1>1, <2>1
<1>5. \A b \in all : Counter(b) \in Nat /\ Network(b) \in Networks \cup {Quick}
  BY BackupTypes DEF Counter, Network
<1>6. \A b \in all : /\ Counter(b) <= highest[Network(b)] /\ highest[Network(b)] <= Counter(b) + Increment
                     /\ loaded.network = Network(b) => Counter(b) <= loaded.counter
  BY DEF CountersOK
<1>7. \A b \in all : Counter(b) <= higher[Network(b)] /\ higher[Network(b)] <= Counter(b) + Increment
  <2> SUFFICES ASSUME NEW b \in all
               PROVE  Counter(b) <= higher[Network(b)] /\ higher[Network(b)] <= Counter(b) + Increment
    OBVIOUS
  <2>1. CASE Network(b) = settings.network
    <3>1. Counter(b) <= highest[settings.network]
      BY <1>6, <2>1
    <3>2. highest[settings.network] \in Int
      BY <1>1
    <3> QED BY <1>1, <1>2, <1>5, <2>1, <3>1, <3>2
  <2>2. CASE Network(b) # settings.network
    BY <1>3, <1>5, <1>6, <2>2
  <2> QED BY <2>1, <2>2
<1>8. \A b \in all : settings.network = Network(b) => Counter(b) <= settings.counter
  BY <1>2, <1>7
<1>9. settings # NotFormed
  BY <1>1, NoneIsNoNetwork DEF NotFormed
<1>10. CountersOK(all, settings, settings, higher)
  BY <1>1, <1>2, <1>7, <1>8 DEF CountersOK
<1>11. ASSUME loaded.network = settings.network => settings.counter <= loaded.counter + Increment
       PROVE  CountersOK(all, settings, loaded, higher)
  <2>1. ASSUME loaded # NotFormed
        PROVE  loaded.counter <= higher[loaded.network] /\ higher[loaded.network] <= loaded.counter + Increment
    <3>1. loaded.network \in Networks \cup {Quick} /\ loaded.counter \in Nat
      BY <1>1, <2>1 DEF Settings
    <3>2. loaded.counter <= highest[loaded.network] /\ highest[loaded.network] <= loaded.counter + Increment
      BY <2>1 DEF CountersOK
    <3>3. CASE loaded.network = settings.network
      <4>1. highest[settings.network] \in Int
        BY <1>1
      <4> QED BY <1>1, <1>2, <1>11, <3>1, <3>2, <3>3, <4>1
    <3>4. CASE loaded.network # settings.network
      BY <1>3, <3>1, <3>2, <3>4
    <3> QED BY <3>3, <3>4
  <2> QED BY <1>2, <1>6, <1>7, <2>1 DEF CountersOK
<1>12. Raised(highest, settings) = higher
  BY DEF Raised
<1> QED BY <1>4, <1>10, <1>11, <1>12, Zenon

-----------------------------------------------------------------------------
(* Backups: the invariant.                                                 *)

BackupInv ==
  /\ BackupsTypeOK
  /\ tasks \in Seq(Task) /\ backups \in Seq(Backup) /\ IsFiniteSet(backupRows)
  /\ QueueOK(backupRows, tasks, Listing(backups))
  /\ InOrder(backups)
  /\ \A b \in AllOf(backupRows, tasks) : b.time <= taken
  /\ CountersOK(AllOf(backupRows, tasks), radio, state, used)
  /\ running => radio # NotFormed /\ state # NotFormed
  /\ ~running => tasks = <<>> /\ saving = 0

\* The lists of BackupsTypeOK.
LEMMA ListTypes ==
  ASSUME NEW list \in Seq(Backup), NEW queue \in Seq(Task)
  PROVE  /\ \A i \in DOMAIN list : list[i] \in Backup
         /\ \A i \in DOMAIN queue : queue[i].backup \in Backup
<1>1. \A i \in DOMAIN queue : queue[i] \in Task
  OBVIOUS
<1>2. \A i \in DOMAIN list : list[i] \in Backup
  OBVIOUS
<1> QED BY <1>1, <1>2 DEF Task

LEMMA AllAreBackups ==
  ASSUME NEW rows \in SUBSET Backup, NEW queue \in Seq(Task)
  PROVE  AllOf(rows, queue) \in SUBSET Backup
<1>1. \A i \in DOMAIN queue : queue[i] \in Task
  OBVIOUS
<1> QED BY <1>1 DEF AllOf, Created, Task

LEMMA NothingQueued ==
  ASSUME NEW rows \in SUBSET Backup, NEW kept, QueueOK(rows, <<>>, kept)
  PROVE  AllOf(rows, <<>>) = rows /\ kept = rows /\ (\A b, c \in rows : b.time = c.time => b = c)
         /\ \A b, c \in rows : Network(b) = Network(c) => b = c
<1>1. Created(<<>>) = {} /\ Removals(<<>>) = {}
  <2>1. DOMAIN <<>> = {}
    OBVIOUS
  <2> QED BY <2>1 DEF Created, Removals
<1>2. AllOf(rows, <<>>) = rows
  BY <1>1 DEF AllOf
<1> QED BY <1>1, <1>2 DEF QueueOK

\* A queue without tasks stands for the rows.
LEMMA RowsAlone ==
  ASSUME NEW rows \in SUBSET Backup, \A b, c \in rows : b.time = c.time => b = c,
         \A b, c \in rows : Network(b) = Network(c) => b = c
  PROVE  QueueOK(rows, <<>>, rows) /\ AllOf(rows, <<>>) = rows
<1>1. Created(<<>>) = {} /\ Removals(<<>>) = {}
  <2>1. DOMAIN <<>> = {}
    OBVIOUS
  <2> QED BY <2>1 DEF Created, Removals
<1>2. AllOf(rows, <<>>) = rows
  BY <1>1 DEF AllOf
<1>3. \A b, c \in rows : Network(b) = Network(c) /\ b.time < c.time => Counter(b) <= Counter(c)
  <2> SUFFICES ASSUME NEW b \in rows, NEW c \in rows, Network(b) = Network(c), b.time < c.time PROVE FALSE
    OBVIOUS
  <2>1. b = c /\ b.time \in Nat
    BY BackupTypes
  <2> QED BY <2>1
<1> QED BY <1>1, <1>2, <1>3 DEF QueueOK

\* No backup that is loaded replaces another one.
LEMMA LoadedAreRows ==
  ASSUME NEW rows \in SUBSET Backup, IsFiniteSet(rows), \A b, c \in rows : b.time = c.time => b = c,
         \A b, c \in rows : Network(b) = Network(c) => b = c
  PROVE  /\ LoadedBackups(rows) \in Seq(Backup) /\ InOrder(LoadedBackups(rows))
         /\ Listing(LoadedBackups(rows)) = rows
<1>1. {old \in rows : \A new \in rows : new.time > old.time => ~Replaces(new, old)} = rows
  <2> SUFFICES ASSUME NEW old \in rows, NEW new \in rows, new.time > old.time, Replaces(new, old)
               PROVE  FALSE
    OBVIOUS
  <2>1. new = old
    BY DEF Replaces, Network
  <2> QED BY <2>1, BackupTypes
<1>2. LoadedBackups(rows) = Sorted(rows)
  BY <1>1 DEF LoadedBackups
<1>3. PICK list : list = Sorted(rows)
  OBVIOUS
<1>4. list \in Seq(rows) /\ InOrder(list) /\ Listing(list) = rows
  BY <1>3, SortedOf
<1>5. list \in Seq(Backup)
  BY <1>4
<1> QED BY <1>2, <1>3, <1>4, <1>5

\* What BackupEvents makes of the backups that go and the new one.
RemovedThenCreated(gone, new) ==
  [i \in DOMAIN gone |-> [what |-> "removed", backup |-> gone[i]]] \o <<[what |-> "created", backup |-> new]>>

LEMMA EventsOf ==
  ASSUME NEW gone \in Seq(Backup), InOrder(gone), NEW new \in Backup
  PROVE  /\ RemovedThenCreated(gone, new) \in Seq(Task)
         /\ EventsAre(RemovedThenCreated(gone, new), Len(gone), new, Listing(gone))
<1>1. PICK n : n = Len(gone)
  OBVIOUS
<1>2. n \in Nat /\ DOMAIN gone = 1 .. n /\ \A i \in 1 .. n : gone[i] \in Backup /\ gone[i].time \in Nat
  BY <1>1, BackupTypes
<1>3. PICK removals : removals = [i \in DOMAIN gone |-> [what |-> "removed", backup |-> gone[i]]]
  OBVIOUS
<1>4. PICK created : created = <<[what |-> "created", backup |-> new]>>
  OBVIOUS
<1>5. /\ removals \in Seq(Task) /\ Len(removals) = n
      /\ \A i \in 1 .. n : removals[i].what = "removed" /\ removals[i].backup = gone[i]
  BY <1>2, <1>3 DEF Task
<1>6. created \in Seq(Task) /\ Len(created) = 1 /\ created[1] = [what |-> "created", backup |-> new]
  BY <1>4 DEF Task
<1>7. PICK more : more = removals \o created
  OBVIOUS
<1>8. /\ removals \o created \in Seq(Task) /\ Len(removals \o created) = Len(removals) + Len(created)
      /\ \A i \in 1 .. Len(removals) + Len(created) :
           (removals \o created)[i] = IF i <= Len(removals) THEN removals[i] ELSE created[i - Len(removals)]
  <2> HIDE <1>3, <1>4
  <2> QED BY <1>5, <1>6, ConcatProperties
<1>9. /\ more \in Seq(Task) /\ Len(more) = n + 1
      /\ \A i \in 1 .. n + 1 : more[i] = IF i <= n THEN removals[i] ELSE created[i - n]
  <2>1. /\ more \in Seq(Task) /\ Len(more) = Len(removals) + Len(created)
        /\ \A i \in 1 .. Len(removals) + Len(created) :
             more[i] = IF i <= Len(removals) THEN removals[i] ELSE created[i - Len(removals)]
    BY <1>7, <1>8, Zenon
  <2> QED BY <1>5, <1>6, <2>1
<1>10. more[n + 1] = [what |-> "created", backup |-> new]
  <2>1. n + 1 \in 1 .. n + 1 /\ ~(n + 1 <= n) /\ (n + 1) - n = 1
    BY <1>2
  <2>2. more[n + 1] = created[1]
    BY <1>9, <2>1
  <2> QED BY <1>6, <2>2
<1>11. \A i \in 1 .. n : more[i].what = "removed" /\ more[i].backup = gone[i]
  <2>1. \A i \in 1 .. n : i \in 1 .. n + 1 /\ i <= n
    BY <1>2
  <2>2. \A i \in 1 .. n : more[i] = removals[i]
    BY <1>9, <2>1
  <2> QED BY <1>5, <2>2
<1>12. {more[i].backup : i \in 1 .. n} = Listing(gone)
  BY <1>2, <1>11 DEF Listing
<1>13. \A i, j \in 1 .. n : more[i].backup = more[j].backup => i = j
  <2> SUFFICES ASSUME NEW i \in 1 .. n, NEW j \in 1 .. n, more[i].backup = more[j].backup PROVE i = j
    OBVIOUS
  <2>1. gone[i] = gone[j] /\ gone[i].time \in Nat
    BY <1>2, <1>11
  <2>2. ASSUME i < j PROVE FALSE
    <3>1. gone[i].time < gone[j].time
      BY <1>2, <2>2 DEF InOrder
    <3> QED BY <2>1, <3>1
  <2>3. ASSUME j < i PROVE FALSE
    <3>1. gone[j].time < gone[i].time
      BY <1>2, <2>3 DEF InOrder
    <3> QED BY <2>1, <3>1
  <2> QED BY <1>2, <2>2, <2>3
<1>14. EventsAre(more, n, new, Listing(gone))
  BY <1>9, <1>10, <1>11, <1>12, <1>13 DEF EventsAre
<1>15. more = RemovedThenCreated(gone, new)
  BY <1>3, <1>4, <1>7, Zenon DEF RemovedThenCreated
<1> QED BY <1>1, <1>9, <1>14, <1>15, Zenon

LEMMA StartsInv == BackupsInit => BackupInv
<1> SUFFICES ASSUME BackupsInit PROVE BackupInv
  OBVIOUS
<1>1. DOMAIN <<>> = {} /\ <<>> \in Seq(Task) /\ <<>> \in Seq(Backup)
  OBVIOUS
<1>2. QueueOK({}, <<>>, {}) /\ AllOf({}, <<>>) = {}
  BY RowsAlone
<1>3. Listing(<<>>) = {} /\ InOrder(<<>>)
  BY <1>1 DEF Listing, InOrder
<1>4. IsFiniteSet({})
  BY FS_EmptySet
<1>5. used \in [Networks \cup {Quick} -> -1 .. MaxCounter]
  <2>1. -1 \in -1 .. MaxCounter
    BY BackupBounds
  <2> QED BY <2>1 DEF BackupsInit
<1>6. 0 \in 0 .. MaxBackups /\ 0 \in 0 .. 2
  BY BackupBounds
<1>7. BackupsTypeOK
  BY <1>1, <1>5, <1>6 DEF BackupsInit, BackupsTypeOK
<1>8. CountersOK({}, NotFormed, NotFormed, used)
  BY DEF CountersOK
<1> QED BY <1>1, <1>2, <1>3, <1>4, <1>7, <1>8 DEF BackupsInit, BackupInv

\* add_backup.
LEMMA AddBackupInv == BackupInv /\ AddBackup => BackupInv'
<1> SUFFICES ASSUME BackupInv, AddBackup PROVE BackupInv'
  OBVIOUS
<1>1. /\ backupRows \in SUBSET Backup /\ tasks \in Seq(Task) /\ backups \in Seq(Backup) /\ InOrder(backups)
      /\ QueueOK(backupRows, tasks, Listing(backups)) /\ taken \in 0 .. MaxBackups /\ MaxBackups \in Nat
  BY BackupBounds DEF BackupInv, BackupsTypeOK
<1>2. state \in Settings /\ state # NotFormed /\ running /\ saving \in 1 .. 2
  <2>1. saving # 0 /\ saving \in 0 .. 2
    BY DEF AddBackup, BackupInv, BackupsTypeOK
  <2>2. running
    BY <2>1 DEF BackupInv, BackupsTypeOK
  <2> QED BY <2>1, <2>2 DEF BackupInv, BackupsTypeOK
<1> DEFINE it == [settings |-> state, time |-> taken + 1]
<1>3. PICK new : new = it
  OBVIOUS
<1>4. new \in Backup /\ new.time = taken + 1 /\ new.settings = state /\ taken + 1 \in 0 .. MaxBackups
  BY <1>1, <1>2, <1>3 DEF AddBackup, Backup
<1>5. /\ backups' = Append(Those(backups, Backup \ Replaced(new)), new)
      /\ tasks' = tasks \o BackupEvents(new)
      /\ taken' = taken + 1 /\ saving' = saving - 1
      /\ radio' = radio /\ state' = state /\ running' = running /\ forming' = forming
      /\ backupRows' = backupRows /\ used' = used
  BY <1>3 DEF AddBackup
<1> HIDE DEF it
<1>6. PICK gone : gone = Those(backups, Replaced(new))
  OBVIOUS
<1>7. gone \in Seq(Backup) /\ InOrder(gone) /\ Listing(gone) = Listing(backups) \cap Replaced(new)
  BY <1>1, <1>6, ThoseOf
<1>8. PICK stay : stay = Those(backups, Backup \ Replaced(new))
  OBVIOUS
<1>9. stay \in Seq(Backup) /\ InOrder(stay) /\ Listing(stay) = Listing(backups) \cap (Backup \ Replaced(new))
  BY <1>1, <1>8, ThoseOf
<1>10. Listing(backups) \subseteq AllOf(backupRows, tasks) /\ AllOf(backupRows, tasks) \in SUBSET Backup
  BY <1>1, AllAreBackups DEF QueueOK
<1>11. Listing(stay) = Listing(backups) \ Replaced(new)
  BY <1>9, <1>10
<1>12. PICK more : more = BackupEvents(new)
  OBVIOUS
<1>13. more = RemovedThenCreated(gone, new)
  BY <1>6, <1>12, Zenon DEF BackupEvents, RemovedThenCreated
<1>14. /\ more \in Seq(Task) /\ Len(gone) \in Nat
       /\ EventsAre(more, Len(gone), new, Listing(backups) \cap Replaced(new))
  <2>1. /\ RemovedThenCreated(gone, new) \in Seq(Task)
        /\ EventsAre(RemovedThenCreated(gone, new), Len(gone), new, Listing(gone))
    <3> HIDE <1>6
    <3> QED BY <1>4, <1>7, EventsOf
  <2>2. Len(gone) \in Nat
    BY <1>7
  <2> QED BY <1>7, <1>13, <2>1, <2>2, Zenon
<1>15. Newest(new, AllOf(backupRows, tasks))
  <2> SUFFICES ASSUME NEW b \in AllOf(backupRows, tasks)
               PROVE  b.time < new.time /\ (Network(b) = Network(new) => Counter(b) <= Counter(new))
    BY DEF Newest
  <2>1. b.time <= taken /\ b.time \in Nat
    BY <1>10, BackupTypes DEF BackupInv
  <2>2. state.network = Network(b) => Counter(b) <= state.counter
    BY DEF BackupInv, CountersOK
  <2>3. Network(new) = state.network /\ Counter(new) = state.counter
    BY <1>4 DEF Network, Counter
  <2> QED BY <1>1, <1>4, <2>1, <2>2, <2>3
<1>16. /\ QueueOK(backupRows, tasks \o more, (Listing(backups) \ Replaced(new)) \cup {new})
       /\ AllOf(backupRows, tasks \o more) = AllOf(backupRows, tasks) \cup {new}
  <2>1. PICK m, kept : m = Len(gone) /\ kept = Listing(backups)
    OBVIOUS
  <2>2. Adding(backupRows, tasks, kept, new, m, more)
    BY <1>1, <1>4, <1>14, <1>15, <2>1 DEF Adding
  <2>3. /\ QueueOK(backupRows, tasks \o more, (kept \ Replaced(new)) \cup {new})
        /\ AllOf(backupRows, tasks \o more) = AllOf(backupRows, tasks) \cup {new}
    BY <2>2, QueueAdds
  <2> QED BY <2>1, <2>3
<1>17. tasks' = tasks \o more /\ tasks \o more \in Seq(Task)
  <2>1. tasks \o more \in Seq(Task)
    BY <1>1, <1>14, ConcatProperties
  <2> QED BY <1>5, <1>12, <2>1, Zenon
<1>18. PICK long : long = Append(stay, new)
  OBVIOUS
<1>19. long = backups' /\ long \in Seq(Backup) /\ InOrder(long) /\ Listing(long) = Listing(stay) \cup {new}
  <2>1. /\ long \in Seq(Backup) /\ Len(long) = Len(stay) + 1 /\ Len(stay) \in Nat
        /\ \A i \in 1 .. Len(stay) : long[i] = stay[i]
        /\ long[Len(stay) + 1] = new
    BY <1>4, <1>9, <1>18, AppendProperties
  <2>2. DOMAIN long = 1 .. Len(stay) + 1 /\ DOMAIN stay = 1 .. Len(stay)
    BY <2>1, <1>9
  <2>3. \A i \in DOMAIN stay : stay[i].time < new.time
    <3>1. \A i \in DOMAIN stay : stay[i] \in AllOf(backupRows, tasks)
      BY <1>10, <1>11 DEF Listing
    <3> QED BY <1>15, <3>1 DEF Newest
  <2>4. \A i \in DOMAIN long : i = Len(stay) + 1 \/ i \in DOMAIN stay
    BY <2>1, <2>2
  <2>5. InOrder(long)
    <3> SUFFICES ASSUME NEW i \in DOMAIN long, NEW j \in DOMAIN long, i < j
                 PROVE  long[i].time < long[j].time
      BY DEF InOrder
    <3>1. i \in DOMAIN stay
      BY <2>1, <2>2
    <3>2. CASE j = Len(stay) + 1
      BY <2>1, <2>2, <2>3, <3>1, <3>2
    <3>3. CASE j \in DOMAIN stay
      BY <1>9, <2>1, <2>2, <3>1, <3>3 DEF InOrder
    <3> QED BY <2>4, <3>2, <3>3
  <2>6. Listing(long) = Listing(stay) \cup {new}
    <3>1. \A i \in DOMAIN long : long[i] = new \/ (i \in DOMAIN stay /\ long[i] = stay[i])
      BY <2>1, <2>2, <2>4
    <3>2. \A i \in DOMAIN stay : i \in DOMAIN long /\ long[i] = stay[i]
      BY <2>1, <2>2
    <3>3. Len(stay) + 1 \in DOMAIN long
      BY <2>1, <2>2
    <3> QED BY <2>1, <3>1, <3>2, <3>3 DEF Listing
  <2> QED BY <1>5, <1>8, <1>18, <2>1, <2>5, <2>6, Zenon
<1>20. (QueueOK(backupRows, tasks, Listing(backups)))'
  <2>1. Listing(long) = (Listing(backups) \ Replaced(new)) \cup {new}
    BY <1>11, <1>19
  <2> QED BY <1>5, <1>16, <1>17, <1>19, <2>1
<1>21. AllOf(backupRows, tasks)' = AllOf(backupRows, tasks) \cup {new}
  BY <1>5, <1>16, <1>17
<1>22. \A b \in AllOf(backupRows, tasks) \cup {new} : b.time <= taken + 1
  <2>1. \A b \in AllOf(backupRows, tasks) : b.time <= taken + 1
    <3> SUFFICES ASSUME NEW b \in AllOf(backupRows, tasks) PROVE b.time <= taken + 1
      OBVIOUS
    <3>1. b.time <= taken /\ b.time \in Nat
      BY <1>10, BackupTypes DEF BackupInv
    <3> QED BY <1>1, <3>1
  <2> QED BY <1>1, <1>4, <2>1
<1>23. CountersOK(AllOf(backupRows, tasks) \cup {new}, radio, state, used)
  <2>1. CountersOK(AllOf(backupRows, tasks), radio, state, used)
    BY DEF BackupInv
  <2>2. Counter(new) = state.counter /\ Network(new) = state.network /\ state.counter <= state.counter
    <3>1. state.counter \in Nat
      BY <1>2 DEF Settings
    <3> QED BY <1>4, <3>1 DEF Counter, Network
  <2> QED BY <1>2, <2>1, <2>2 DEF CountersOK
<1>24. BackupsTypeOK'
  <2>1. saving - 1 \in 0 .. 2
    BY <1>2
  <2>2. /\ \A i \in DOMAIN long : long[i] \in Backup
        /\ \A i \in DOMAIN (tasks \o more) : (tasks \o more)[i].backup \in Backup
    BY <1>17, <1>19, ListTypes
  <2>3. /\ \A i \in DOMAIN backups' : backups'[i] \in Backup
        /\ \A i \in DOMAIN tasks' : tasks'[i].backup \in Backup
    BY <1>17, <1>19, <2>2
  <2> QED BY <1>4, <1>5, <2>1, <2>3 DEF BackupInv, BackupsTypeOK
<1> QED BY <1>2, <1>5, <1>17, <1>19, <1>20, <1>21, <1>22, <1>23, <1>24 DEF BackupInv

\* The database listener works off one task.
LEMMA BackupWorkerInv == BackupInv /\ BackupWorker => BackupInv'
<1> SUFFICES ASSUME BackupInv, BackupWorker PROVE BackupInv'
  OBVIOUS
<1>1. /\ backupRows \in SUBSET Backup /\ tasks \in Seq(Task) /\ backups \in Seq(Backup)
      /\ QueueOK(backupRows, tasks, Listing(backups)) /\ tasks # <<>>
  BY DEF BackupInv, BackupsTypeOK, BackupWorker
<1>2. Head(tasks) \in Task
  BY <1>1, HeadTailProperties
<1>3. PICK after : after = IF Head(tasks).what = "created" THEN backupRows \cup {Head(tasks).backup}
                           ELSE {b \in backupRows : b.time # Head(tasks).backup.time}
  OBVIOUS
<1>4. /\ backupRows' = after /\ tasks' = Tail(tasks) /\ radio' = radio /\ state' = state
      /\ running' = running /\ forming' = forming /\ saving' = saving /\ backups' = backups
      /\ taken' = taken /\ used' = used
  BY <1>3 DEF BackupWorker
<1>5. /\ QueueOK(after, Tail(tasks), Listing(backups))
      /\ AllOf(after, Tail(tasks)) \subseteq AllOf(backupRows, tasks)
  BY <1>1, <1>3, QueueWorks
<1>6. after \in SUBSET Backup /\ IsFiniteSet(after)
  <2>1. Head(tasks).backup \in Backup
    BY <1>2 DEF Task
  <2>2. IsFiniteSet(backupRows)
    BY DEF BackupInv
  <2>3. IsFiniteSet(backupRows \cup {Head(tasks).backup})
    BY <2>2, FS_AddElement
  <2>4. {b \in backupRows : b.time # Head(tasks).backup.time} \subseteq backupRows
    OBVIOUS
  <2>5. IsFiniteSet({b \in backupRows : b.time # Head(tasks).backup.time})
    BY <2>2, <2>4, FS_Subset
  <2>6. CASE Head(tasks).what = "created"
    <3>1. after = backupRows \cup {Head(tasks).backup}
      BY <1>3, <2>6
    <3> QED BY <1>1, <2>1, <2>3, <3>1
  <2>7. CASE Head(tasks).what # "created"
    <3>1. after = {b \in backupRows : b.time # Head(tasks).backup.time}
      BY <1>3, <2>7
    <3> QED BY <1>1, <2>4, <2>5, <3>1
  <2> QED BY <2>6, <2>7
<1>7. PICK rest : rest = Tail(tasks)
  OBVIOUS
<1>8. rest \in Seq(Task)
  BY <1>1, <1>7, HeadTailProperties
<1>9. \A i \in DOMAIN rest : rest[i].backup \in Backup
  BY <1>1, <1>8, ListTypes
<1>10. BackupsTypeOK'
  BY <1>4, <1>6, <1>7, <1>9 DEF BackupInv, BackupsTypeOK
<1>11. CountersOK(AllOf(after, rest), radio, state, used) /\ \A b \in AllOf(after, rest) : b.time <= taken
  <2>1. CountersOK(AllOf(backupRows, tasks), radio, state, used) /\ \A b \in AllOf(backupRows, tasks) : b.time <= taken
    BY DEF BackupInv
  <2> QED BY <1>5, <1>7, <2>1 DEF CountersOK
<1>12. running
  BY <1>1 DEF BackupInv, BackupsTypeOK
<1> QED BY <1>4, <1>5, <1>6, <1>7, <1>8, <1>10, <1>11, <1>12 DEF BackupInv

\* The program ends and reads the backups again.
LEMMA RestartBackupsInv == BackupInv /\ RestartBackups => BackupInv'
<1> SUFFICES ASSUME BackupInv, NEW settings \in {radio, NotFormed}, RestartWith(settings) PROVE BackupInv'
  BY DEF RestartBackups
<1>1. /\ backupRows \in SUBSET Backup /\ tasks \in Seq(Task) /\ IsFiniteSet(backupRows)
      /\ QueueOK(backupRows, tasks, Listing(backups))
  BY DEF BackupInv, BackupsTypeOK
<1>2. backupRows \subseteq AllOf(backupRows, tasks)
  BY DEF AllOf
<1>3. /\ \A b, c \in backupRows : b.time = c.time => b = c
      /\ \A b, c \in backupRows : Network(b) = Network(c) => b = c
  BY <1>1, <1>2 DEF QueueOK
<1>4. PICK loaded : loaded = LoadedBackups(backupRows)
  OBVIOUS
<1>5. loaded \in Seq(Backup) /\ InOrder(loaded) /\ Listing(loaded) = backupRows
  BY <1>1, <1>3, <1>4, LoadedAreRows
<1>6. QueueOK(backupRows, <<>>, backupRows) /\ AllOf(backupRows, <<>>) = backupRows
  BY <1>1, <1>3, RowsAlone
<1>7. /\ radio' = settings /\ state' = NotFormed /\ running' = FALSE /\ forming' = FALSE /\ saving' = 0
      /\ backups' = loaded /\ tasks' = <<>> /\ backupRows' = backupRows /\ taken' = taken /\ used' = used
  BY <1>4 DEF RestartWith
<1>8. BackupsTypeOK'
  <2>1. 0 \in 0 .. 2 /\ DOMAIN <<>> = {}
    OBVIOUS
  <2>2. \A i \in DOMAIN loaded : loaded[i] \in Backup
    BY <1>5
  <2>3. /\ settings \in Settings \cup {NotFormed} /\ taken \in 0 .. MaxBackups
        /\ used \in [Networks \cup {Quick} -> -1 .. MaxCounter] /\ backupRows \subseteq Backup
    BY DEF BackupInv, BackupsTypeOK
  <2> QED BY <1>7, <2>1, <2>2, <2>3 DEF BackupsTypeOK
<1>9. CountersOK(backupRows, settings, NotFormed, used) /\ \A b \in backupRows : b.time <= taken
  <2>1. CountersOK(AllOf(backupRows, tasks), radio, state, used) /\ \A b \in AllOf(backupRows, tasks) : b.time <= taken
    BY DEF BackupInv
  <2>2. \A b \in backupRows : NotFormed.network # Network(b)
    <3>1. \A b \in backupRows : Network(b) \in Networks \cup {Quick}
      BY <1>1, BackupTypes DEF Network
    <3> QED BY <3>1, NoneIsNoNetwork DEF NotFormed
  <2> QED BY <1>2, <2>1, <2>2 DEF CountersOK
<1>10. <<>> \in Seq(Task)
  OBVIOUS
<1> QED BY <1>1, <1>5, <1>6, <1>7, <1>8, <1>9, <1>10 DEF BackupInv

\* What the steps of the radio leave alone.
LEMMA RadioStep ==
  ASSUME BackupInv, BackupsTypeOK',
         CountersOK(AllOf(backupRows, tasks), radio', state', used'),
         running' => radio' # NotFormed /\ state' # NotFormed,
         ~running' => tasks' = <<>> /\ saving' = 0,
         backups' = backups, backupRows' = backupRows, tasks' = tasks, taken' = taken
  PROVE  BackupInv'
BY DEF BackupInv

\* The settings of the radio are those that its network got last.
LEMMA RadioIsHighest ==
  ASSUME BackupInv, radio # NotFormed
  PROVE  /\ radio \in Settings /\ used[radio.network] = radio.counter
         /\ CountersOK(AllOf(backupRows, tasks), radio, radio, used)
<1>1. radio \in Settings /\ used[radio.network] = radio.counter
  BY DEF BackupInv, BackupsTypeOK, CountersOK
<1>2. radio.counter \in Nat /\ Increment \in Nat
  BY <1>1, BackupBounds, IncrementIsNatural DEF Settings
<1>3. /\ \A b \in AllOf(backupRows, tasks) : Counter(b) <= used[Network(b)] /\ used[Network(b)] <= Counter(b) + Increment
      /\ radio # NotFormed => used[radio.network] = radio.counter
  BY DEF BackupInv, CountersOK
<1>4. \A b \in AllOf(backupRows, tasks) : radio.network = Network(b) => Counter(b) <= radio.counter
  BY <1>1, <1>3
<1>5. radio.counter <= used[radio.network] /\ used[radio.network] <= radio.counter + Increment
  BY <1>1, <1>2
<1> QED BY <1>1, <1>3, <1>4, <1>5 DEF CountersOK

LEMMA SettingsAreLoaded ==
  BackupInv /\ (LoadNetworkInfo \/ InitializeFormed) => BackupInv'
<1> SUFFICES ASSUME BackupInv, LoadNetworkInfo \/ InitializeFormed PROVE BackupInv'
  OBVIOUS
<1>1. /\ radio # NotFormed /\ radio' = radio /\ state' = radio /\ running' /\ forming' = forming
      /\ running' \in BOOLEAN
      /\ backups' = backups /\ backupRows' = backupRows /\ tasks' = tasks /\ taken' = taken /\ used' = used
  BY DEF LoadNetworkInfo, InitializeFormed, BackupInv, BackupsTypeOK
<1>2. saving' \in 0 .. 2
  BY DEF LoadNetworkInfo, InitializeFormed, BackupInv, BackupsTypeOK
<1>3. radio \in Settings /\ CountersOK(AllOf(backupRows, tasks), radio, radio, used)
  BY <1>1, RadioIsHighest
<1>4. BackupsTypeOK'
  BY <1>1, <1>2, <1>3 DEF BackupInv, BackupsTypeOK
<1> QED BY <1>1, <1>3, <1>4, RadioStep

\* The settings that restore_backup writes, when the rows have caught up.
LEMMA BackupIsWritten ==
  ASSUME BackupInv, tasks = <<>>, NEW i \in DOMAIN backups, NEW settings,
         settings = Written(backups[i].settings, Increment), settings.counter <= MaxCounter
  PROVE  /\ settings \in Settings /\ used[settings.network] <= settings.counter
         /\ \A b \in AllOf(backupRows, tasks) :
              Network(b) = settings.network => settings.counter <= Counter(b) + Increment
         /\ state.network = settings.network => settings.counter <= state.counter + Increment
<1>1. backups[i] \in Backup /\ backupRows \in SUBSET Backup /\ QueueOK(backupRows, <<>>, Listing(backups))
  BY DEF BackupInv, BackupsTypeOK
<1>2. PICK old : old = backups[i]
  OBVIOUS
<1>3. /\ AllOf(backupRows, tasks) = backupRows /\ Listing(backups) = backupRows
      /\ \A b, c \in backupRows : Network(b) = Network(c) => b = c
  BY <1>1, NothingQueued
<1>4. old \in Backup /\ old \in backupRows /\ old.settings \in Settings
  BY <1>1, <1>2, <1>3, BackupTypes DEF Listing
<1>5. Increment \in Nat /\ MaxCounter \in Nat /\ old.settings.counter \in Nat
  BY <1>4, BackupTypes, BackupBounds, IncrementIsNatural
<1>6. settings.network = Network(old) /\ settings.counter = Counter(old) + Increment /\ settings \in Settings
  <2>1. settings = [old.settings EXCEPT !.counter = @ + Increment]
    BY <1>2 DEF Written
  <2>2. PICK s \in Settings : s = old.settings
    BY <1>4
  <2>3. s \in [network : Networks \cup {Quick}, counter : 0 .. MaxCounter]
    BY DEF Settings
  <2>4. settings = [s EXCEPT !.counter = s.counter + Increment]
    BY <2>1, <2>2
  <2>5. settings = [network |-> s.network, counter |-> s.counter + Increment]
    BY <2>3, <2>4
  <2>6. s.counter \in Nat /\ s.counter + Increment \in 0 .. MaxCounter
    BY <1>5, <2>2, <2>5
  <2> QED BY <2>2, <2>3, <2>5, <2>6 DEF Settings, Network, Counter
<1>7. /\ used[Network(old)] <= Counter(old) + Increment
      /\ state.network = Network(old) => Counter(old) <= state.counter
  BY <1>3, <1>4 DEF BackupInv, CountersOK
<1>8. \A b \in AllOf(backupRows, tasks) : Network(b) = settings.network => settings.counter <= Counter(b) + Increment
  <2> SUFFICES ASSUME NEW b \in backupRows, Network(b) = settings.network
               PROVE  settings.counter <= Counter(b) + Increment
    BY <1>3
  <2>1. b = old
    BY <1>3, <1>4, <1>6
  <2> QED BY <1>5, <1>6, <2>1 DEF Counter
<1>9. state.network = settings.network => settings.counter <= state.counter + Increment
  <2> SUFFICES ASSUME state.network = Network(old) PROVE Counter(old) + Increment <= state.counter + Increment
    BY <1>6
  <2>1. state \in Settings \cup {NotFormed} /\ state.network # NotFormed.network
    BY <1>4, BackupTypes, NoneIsNoNetwork DEF BackupInv, BackupsTypeOK, NotFormed, Network
  <2>2. state.counter \in Nat
    BY <2>1 DEF Settings
  <2> QED BY <1>5, <1>7, <2>2 DEF Counter
<1> QED BY <1>6, <1>7, <1>8, <1>9

\* A network that is new has no backup.
LEMMA NewNetwork ==
  ASSUME BackupInv, NEW n \in Networks \cup {Quick}, used[n] = -1
  PROVE  (\A b \in AllOf(backupRows, tasks) : Network(b) # n) /\ state.network # n
<1>1. \A b \in AllOf(backupRows, tasks) : Network(b) # n
  <2> SUFFICES ASSUME NEW b \in AllOf(backupRows, tasks), Network(b) = n PROVE FALSE
    OBVIOUS
  <2>1. b \in Backup
    BY AllAreBackups DEF BackupInv, BackupsTypeOK
  <2>2. Counter(b) \in Nat /\ Counter(b) <= used[Network(b)]
    BY <2>1, BackupTypes DEF Counter, BackupInv, CountersOK
  <2> QED BY <2>2
<1>2. state.network # n
  <2> SUFFICES ASSUME state.network = n PROVE FALSE
    OBVIOUS
  <2>1. state # NotFormed
    BY NoneIsNoNetwork DEF NotFormed
  <2>2. state.counter \in Nat /\ state.counter <= used[state.network]
    BY <2>1 DEF BackupInv, BackupsTypeOK, CountersOK, Settings
  <2> QED BY <2>2
<1> QED BY <1>1, <1>2

\* Settings that may be written to the radio.
MayWrite(settings) ==
  /\ settings \in Settings /\ used[settings.network] <= settings.counter
  /\ \A b \in AllOf(backupRows, tasks) :
       Network(b) = settings.network => settings.counter <= Counter(b) + Increment

LEMMA WritesInv ==
  ASSUME BackupInv, NEW settings, MayWrite(settings), Write(settings)
  PROVE  /\ radio' = settings /\ settings \in Settings /\ settings # NotFormed
         /\ used' \in [Networks \cup {Quick} -> -1 .. MaxCounter]
         /\ (state.network = settings.network => settings.counter <= state.counter + Increment)
              => CountersOK(AllOf(backupRows, tasks), settings, state, used')
         /\ CountersOK(AllOf(backupRows, tasks), settings, settings, used')
<1>1. Writing(AllOf(backupRows, tasks), radio, state, used, settings)
  BY AllAreBackups DEF BackupInv, BackupsTypeOK, MayWrite, Writing
<1>2. used' = Raised(used, settings)
  BY DEF Write, Raised
<1>3. settings \in Settings
  BY DEF MayWrite
<1>4. /\ Raised(used, settings) \in [Networks \cup {Quick} -> -1 .. MaxCounter]
      /\ (state.network = settings.network => settings.counter <= state.counter + Increment)
           => CountersOK(AllOf(backupRows, tasks), settings, state, Raised(used, settings))
      /\ CountersOK(AllOf(backupRows, tasks), settings, settings, Raised(used, settings))
  BY <1>1, RadioWrites
<1>5. settings # NotFormed
  BY <1>3, NoneIsNoNetwork DEF Settings, NotFormed
<1>6. radio' = settings
  BY DEF Write
<1> QED BY <1>2, <1>3, <1>4, <1>5, <1>6, Zenon

\* The settings of the radio change while the program runs or forms its network.
LEMMA RadioChanges ==
  ASSUME BackupInv, NEW settings, MayWrite(settings), Write(settings),
         state.network = settings.network => settings.counter <= state.counter + Increment,
         forming' \in BOOLEAN,
         UNCHANGED <<state, running, saving, backups, backupRows, tasks, taken>>
  PROVE  BackupInv'
<1>1. /\ radio' = settings /\ settings \in Settings /\ settings # NotFormed
      /\ used' \in [Networks \cup {Quick} -> -1 .. MaxCounter]
      /\ CountersOK(AllOf(backupRows, tasks), settings, state, used')
  BY WritesInv
<1>2. BackupsTypeOK'
  BY <1>1 DEF BackupInv, BackupsTypeOK
<1>3. running \in BOOLEAN /\ (running => state # NotFormed) /\ (~running => tasks = <<>> /\ saving = 0)
  BY DEF BackupInv, BackupsTypeOK
<1> QED BY <1>1, <1>2, <1>3, RadioStep

\* initialize() goes on with settings that it has written.
LEMMA RadioIsInitialized ==
  ASSUME BackupInv, NEW settings, MayWrite(settings), InitializedWith(settings)
  PROVE  BackupInv'
<1>1. /\ radio' = settings /\ settings \in Settings /\ settings # NotFormed
      /\ used' \in [Networks \cup {Quick} -> -1 .. MaxCounter]
      /\ CountersOK(AllOf(backupRows, tasks), settings, settings, used')
  BY WritesInv DEF InitializedWith
<1>2. /\ running' = TRUE /\ forming' = FALSE /\ state' = settings /\ saving' = 1
      /\ backups' = backups /\ backupRows' = backupRows /\ tasks' = tasks /\ taken' = taken
  BY DEF InitializedWith
<1>3. BackupsTypeOK'
  <2>1. 1 \in 0 .. 2 /\ TRUE \in BOOLEAN /\ FALSE \in BOOLEAN
    OBVIOUS
  <2>2. /\ \A i \in DOMAIN backups : backups[i] \in Backup
        /\ backupRows \subseteq Backup /\ \A i \in DOMAIN tasks : tasks[i].backup \in Backup
        /\ taken \in 0 .. MaxBackups
    BY DEF BackupInv, BackupsTypeOK
  <2> QED BY <1>1, <1>2, <2>1, <2>2 DEF BackupsTypeOK
<1> QED BY <1>1, <1>2, <1>3 DEF BackupInv

\* move_network_to_channel, the first settings of a network and its frames.
LEMMA FreshNetwork ==
  ASSUME BackupInv, NEW settings, settings \in Settings, used[settings.network] = -1
  PROVE  MayWrite(settings) /\ state.network # settings.network
<1>1. settings.network \in Networks \cup {Quick} /\ settings.counter \in Nat
  BY BackupBounds DEF Settings
<1>2. (\A b \in AllOf(backupRows, tasks) : Network(b) # settings.network) /\ state.network # settings.network
  BY <1>1, NewNetwork
<1>3. used[settings.network] <= settings.counter
  BY <1>1
<1> QED BY <1>2, <1>3 DEF MayWrite

\* The radio sends one frame more.
LEMMA FrameIsNext ==
  ASSUME BackupInv, FrameSent, NEW settings, settings = [radio EXCEPT !.counter = @ + 1], Write(settings)
  PROVE  MayWrite(settings) /\ (state.network = settings.network => settings.counter <= state.counter + Increment)
<1>1. running /\ radio # NotFormed
  BY DEF FrameSent, BackupInv
<1>2. radio \in Settings /\ used[radio.network] = radio.counter
  BY <1>1, RadioIsHighest
<1>3. radio \in [network : Networks \cup {Quick}, counter : 0 .. MaxCounter] /\ MaxCounter \in Nat /\ Increment \in Nat
  BY <1>2, BackupBounds, IncrementIsNatural DEF Settings
<1>4. settings = [network |-> radio.network, counter |-> radio.counter + 1] /\ radio.counter \in Nat
  BY <1>3
<1>5. settings.counter <= MaxCounter
  BY DEF Write
<1>6. settings \in Settings
  BY <1>3, <1>4, <1>5 DEF Settings
<1>7. PICK r \in backupRows : Network(r) = radio.network /\ radio.counter < Counter(r) + Increment
  BY DEF FrameSent, SavedCounters, Network, Counter
<1>8. AllOf(backupRows, tasks) \in SUBSET Backup /\ r \in AllOf(backupRows, tasks) /\ Counter(r) \in Nat
  <2>1. AllOf(backupRows, tasks) \in SUBSET Backup /\ r \in Backup
    BY AllAreBackups DEF BackupInv, BackupsTypeOK
  <2> QED BY <2>1, BackupTypes DEF AllOf, Counter
<1>9. \A b \in AllOf(backupRows, tasks) : Network(b) = radio.network => Counter(r) <= Counter(b)
  <2> SUFFICES ASSUME NEW b \in AllOf(backupRows, tasks), Network(b) = radio.network PROVE Counter(r) <= Counter(b)
    OBVIOUS
  <2>1. QueueOK(backupRows, tasks, Listing(backups))
    BY DEF BackupInv
  <2>2. CASE b \in backupRows
    <3>1. b = r
      BY <1>7, <2>1, <2>2 DEF QueueOK
    <3> QED BY <1>8, <3>1
  <2>3. CASE b \notin backupRows
    <3>1. PICK j \in Created(tasks) : b = tasks[j].backup
      BY <2>3 DEF AllOf
    <3>2. r.time < b.time
      BY <2>1, <3>1 DEF QueueOK
    <3> QED BY <1>7, <1>8, <2>1, <3>2 DEF QueueOK
  <2> QED BY <2>2, <2>3
<1>10. \A b \in AllOf(backupRows, tasks) : Network(b) = settings.network => settings.counter <= Counter(b) + Increment
  <2> SUFFICES ASSUME NEW b \in AllOf(backupRows, tasks), Network(b) = radio.network
               PROVE  radio.counter + 1 <= Counter(b) + Increment
    BY <1>4
  <2>1. Counter(r) <= Counter(b) /\ Counter(b) \in Nat
    BY <1>8, <1>9, BackupTypes DEF Counter
  <2> QED BY <1>3, <1>4, <1>7, <1>8, <2>1
<1>11. ASSUME state.network = settings.network PROVE settings.counter <= state.counter + Increment
  <2>1. Counter(r) <= state.counter
    BY <1>4, <1>7, <1>8, <1>11 DEF BackupInv, CountersOK
  <2>2. state \in Settings \cup {NotFormed} /\ state # NotFormed
    BY <1>1 DEF BackupInv, BackupsTypeOK
  <2>3. state.counter \in Nat
    BY <2>2 DEF Settings
  <2> QED BY <1>3, <1>4, <1>7, <1>8, <2>1, <2>3
<1>12. used[settings.network] <= settings.counter
  BY <1>2, <1>4
<1> QED BY <1>6, <1>10, <1>11, <1>12 DEF MayWrite

\* initialize() restores the latest backup.
LEMMA RestoredSettings ==
  ASSUME BackupInv, InitializeNotFormed
  PROVE  \E settings : MayWrite(settings) /\ InitializedWith(settings)
<1>1. PICK settings : settings = Written(backups[Len(backups)].settings, Increment)
  OBVIOUS
<1>2. InitializedWith(settings) /\ settings.counter <= MaxCounter /\ tasks = <<>>
  BY <1>1 DEF InitializeNotFormed, InitializedWith, Write, BackupInv, BackupsTypeOK
<1>3. Len(backups) \in DOMAIN backups
  <2>1. backups \in Seq(Backup) /\ backups # <<>>
    BY DEF BackupInv, InitializeNotFormed
  <2>2. Len(backups) \in Nat /\ Len(backups) # 0 /\ DOMAIN backups = 1 .. Len(backups)
    BY <2>1, EmptySeq
  <2> QED BY <2>2
<1>4. MayWrite(settings)
  BY <1>1, <1>2, <1>3, BackupIsWritten DEF MayWrite
<1> QED BY <1>2, <1>4

\* initialize() forms a network.
LEMMA FormedSettings ==
  ASSUME BackupInv, NEW n \in Networks, FormNetwork(n)
  PROVE  \E settings : MayWrite(settings) /\ InitializedWith(settings)
<1>1. PICK settings : settings = [network |-> n, counter |-> 0]
  OBVIOUS
<1>2. settings \in Settings /\ settings.network = n
  BY <1>1, BackupBounds DEF Settings
<1>3. InitializedWith(settings) /\ used[n] = -1
  BY <1>1 DEF FormNetwork
<1>4. MayWrite(settings)
  BY <1>2, <1>3, FreshNetwork
<1> QED BY <1>3, <1>4

LEMMA BackupStepInv == BackupInv /\ [BackupsNext]_backupVars => BackupInv'
<1> SUFFICES ASSUME BackupInv, [BackupsNext]_backupVars PROVE BackupInv'
  OBVIOUS
<1>1. CASE LoadNetworkInfo \/ InitializeFormed
  BY <1>1, SettingsAreLoaded
<1>2. CASE AddBackup
  BY <1>2, AddBackupInv
<1>3. CASE \E i \in DOMAIN backups : RestoreBackup(i)
  <2>1. PICK i \in DOMAIN backups : RestoreBackup(i)
    BY <1>3
  <2>2. PICK settings : settings = Written(backups[i].settings, Increment)
    OBVIOUS
  <2>3. Write(settings) /\ settings.counter <= MaxCounter /\ tasks = <<>> /\ forming' \in BOOLEAN
    BY <2>1, <2>2 DEF RestoreBackup, Write, BackupInv, BackupsTypeOK
  <2>4. MayWrite(settings) /\ (state.network = settings.network => settings.counter <= state.counter + Increment)
    BY <2>2, <2>3, BackupIsWritten DEF MayWrite
  <2>5. UNCHANGED <<state, running, saving, backups, backupRows, tasks, taken>>
    BY <2>1 DEF RestoreBackup
  <2> QED BY <2>3, <2>4, <2>5, RadioChanges
<1>4. CASE InitializeNotFormed
  BY <1>4, RestoredSettings, RadioIsInitialized
<1>5. CASE FormQuickly
  <2>1. PICK settings : settings = [network |-> Quick, counter |-> 0]
    OBVIOUS
  <2>2. settings \in Settings /\ settings.network = Quick
    BY <2>1, BackupBounds DEF Settings
  <2>3. Write(settings) /\ used[Quick] = -1 /\ forming' \in BOOLEAN
    BY <1>5, <2>1 DEF FormQuickly
  <2>4. MayWrite(settings) /\ state.network # settings.network
    BY <2>2, <2>3, FreshNetwork
  <2>5. UNCHANGED <<state, running, saving, backups, backupRows, tasks, taken>>
    BY <1>5 DEF FormQuickly
  <2> QED BY <2>3, <2>4, <2>5, RadioChanges
<1>6. CASE \E n \in Networks : FormNetwork(n)
  <2>1. PICK n \in Networks : FormNetwork(n)
    BY <1>6
  <2> QED BY <2>1, FormedSettings, RadioIsInitialized
<1>7. CASE \E n \in Networks : MoveNetwork(n)
  <2>1. PICK n \in Networks : MoveNetwork(n)
    BY <1>7
  <2>2. PICK settings : settings = [network |-> n, counter |-> radio.counter]
    OBVIOUS
  <2>3. radio \in Settings
    BY <2>1, RadioIsHighest DEF MoveNetwork, BackupInv
  <2>4. settings \in Settings /\ settings.network = n
    BY <2>2, <2>3 DEF Settings
  <2>5. Write(settings) /\ used[n] = -1 /\ forming' \in BOOLEAN
    BY <2>1, <2>2 DEF MoveNetwork, BackupInv, BackupsTypeOK
  <2>6. MayWrite(settings) /\ state.network # settings.network
    BY <2>4, <2>5, FreshNetwork
  <2>7. UNCHANGED <<state, running, saving, backups, backupRows, tasks, taken>>
    BY <2>1 DEF MoveNetwork
  <2> QED BY <2>5, <2>6, <2>7, RadioChanges
<1>8. CASE FrameSent
  <2>1. PICK settings : settings = [radio EXCEPT !.counter = @ + 1]
    OBVIOUS
  <2>2. Write(settings) /\ forming' \in BOOLEAN
    BY <1>8, <2>1 DEF FrameSent, BackupInv, BackupsTypeOK
  <2>3. MayWrite(settings) /\ (state.network = settings.network => settings.counter <= state.counter + Increment)
    BY <1>8, <2>1, <2>2, FrameIsNext
  <2>4. UNCHANGED <<state, running, saving, backups, backupRows, tasks, taken>>
    BY <1>8 DEF FrameSent
  <2> QED BY <2>2, <2>3, <2>4, RadioChanges
<1>9. CASE RestartBackups
  BY <1>9, RestartBackupsInv
<1>10. CASE BackupWorker
  BY <1>10, BackupWorkerInv
<1>11. CASE UNCHANGED backupVars
  BY <1>11 DEF backupVars, BackupInv, BackupsTypeOK
<1> QED BY <1>1, <1>2, <1>3, <1>4, <1>5, <1>6, <1>7, <1>8, <1>9, <1>10, <1>11 DEF BackupsNext

\* The settings, the lists and the rows keep their types, whatever the order in
\* which backups are made, restored and written by the database listener.
THEOREM BackupsTypeCorrect == BackupsSpec => []BackupsTypeOK
<1>1. BackupInv => BackupsTypeOK
  BY DEF BackupInv
<1> QED BY <1>1, StartsInv, BackupStepInv, PTL DEF BackupsSpec

\* Once the worker has caught up with add_backup, load() would read the list in
\* memory again, in the same order: BackupManager loses nothing in a restart.
THEOREM RowsAreBackups == BackupsSpec => []BackupRowsFollow
<1>1. BackupInv => BackupRowsFollow
  <2> SUFFICES ASSUME BackupInv, tasks = <<>>
               PROVE  /\ backupRows = {backups[i] : i \in DOMAIN backups}
                      /\ LoadedBackups(backupRows) = backups
    BY DEF BackupRowsFollow
  <2>1. /\ backupRows \in SUBSET Backup /\ IsFiniteSet(backupRows) /\ QueueOK(backupRows, <<>>, Listing(backups))
        /\ backups \in Seq(Backup) /\ InOrder(backups)
    BY DEF BackupInv, BackupsTypeOK
  <2>2. /\ Listing(backups) = backupRows /\ \A b, c \in backupRows : b.time = c.time => b = c
        /\ \A b, c \in backupRows : Network(b) = Network(c) => b = c
    BY <2>1, NothingQueued
  <2>3. /\ LoadedBackups(backupRows) \in Seq(Backup) /\ InOrder(LoadedBackups(backupRows))
        /\ Listing(LoadedBackups(backupRows)) = backupRows
    BY <2>1, <2>2, LoadedAreRows
  <2>4. LoadedBackups(backupRows) = backups
    BY <2>1, <2>2, <2>3, SameOrder
  <2> QED BY <2>2, <2>4 DEF Listing
<1> QED BY <1>1, StartsInv, BackupStepInv, PTL DEF BackupsSpec

\* However late backups are saved, replaced or lost in a crash: when
\* initialize() comes to its end, the counter of the network is as high as any
\* it has ever had, so that no device takes the coordinator's frames for old ones.
THEOREM CounterIsKept == BackupsSpec => CounterNeverRollsBack
<1>1. ASSUME BackupInv, BackupsNext, ~running, running' PROVE radio'.counter >= used[radio'.network]
  <2>1. ASSUME NEW settings, MayWrite(settings), InitializedWith(settings)
        PROVE  radio'.counter >= used[radio'.network]
    <3>1. radio' = settings /\ used[settings.network] <= settings.counter /\ settings \in Settings
      BY <2>1 DEF InitializedWith, Write, MayWrite
    <3>2. settings.counter \in Int /\ settings.network \in Networks \cup {Quick}
      BY <3>1 DEF Settings
    <3>3. used[settings.network] \in Int
      BY <1>1, <3>2 DEF BackupInv, BackupsTypeOK
    <3> QED BY <3>1, <3>2, <3>3
  <2>2. CASE InitializeFormed
    <3>1. radio' = radio /\ radio # NotFormed
      BY <2>2 DEF InitializeFormed
    <3>2. radio \in Settings /\ used[radio.network] = radio.counter
      BY <1>1, <3>1, RadioIsHighest
    <3>3. radio.counter \in Int
      BY <3>2 DEF Settings
    <3> QED BY <3>1, <3>2, <3>3
  <2>3. CASE InitializeNotFormed
    BY <1>1, <2>1, <2>3, RestoredSettings
  <2>4. CASE \E n \in Networks : FormNetwork(n)
    BY <1>1, <2>1, <2>4, FormedSettings
  <2>5. ~running' \/ running' = running \/ InitializeFormed \/ InitializeNotFormed \/ \E n \in Networks : FormNetwork(n)
    BY <1>1 DEF BackupsNext, LoadNetworkInfo, AddBackup, RestoreBackup, FormQuickly, MoveNetwork, FrameSent,
                RestartBackups, RestartWith, BackupWorker
  <2> QED BY <1>1, <2>2, <2>3, <2>4, <2>5
<1>2. BackupInv /\ [BackupsNext]_backupVars => [~running /\ running' => radio'.counter >= used[radio'.network]]_backupVars
  BY <1>1
<1> QED BY <1>2, StartsInv, BackupStepInv, PTL DEF BackupsSpec, CounterNeverRollsBack

-----------------------------------------------------------------------------
(* Backups written to a file and read again, in either format.             *)

Bytes == Seq(0 .. 255)

\* What is turned around twice is as it was, so that two addresses are never written alike.
LEMMA HexAndBack ==
  ASSUME NEW a \in Bytes
  PROVE  FromHex(Hex(a)) = a /\ (a # <<>> => Hex(a) # <<>>)
<1>1. PICK n \in Nat : n = Len(a) /\ DOMAIN a = 1 .. n
  BY DEF Bytes
<1>2. /\ Hex(a) = [i \in 1 .. n |-> a[(n - i) + 1]]
      /\ Hex(a) \in Bytes /\ Len(Hex(a)) = n
  <2>1. Hex(a) = [i \in 1 .. n |-> a[(n - i) + 1]]
    BY <1>1 DEF Hex, Lists!Reverse
  <2>2. \A i \in 1 .. n : (n - i) + 1 \in 1 .. n
    BY <1>1
  <2>3. \A k \in 1 .. n : a[k] \in 0 .. 255
    BY <1>1 DEF Bytes
  <2>4. \A i \in 1 .. n : a[(n - i) + 1] \in 0 .. 255
    BY <2>2, <2>3
  <2> QED BY <1>1, <2>1, <2>4 DEF Bytes
<1> DEFINE h == Hex(a)
<1>3. FromHex(h) = [i \in 1 .. n |-> h[(n - i) + 1]]
  BY <1>2 DEF FromHex, Lists!Reverse
<1>4. \A i \in 1 .. n : h[(n - i) + 1] = a[i]
  <2> SUFFICES ASSUME NEW i \in 1 .. n PROVE h[(n - i) + 1] = a[i]
    OBVIOUS
  <2>1. (n - i) + 1 \in 1 .. n /\ (n - ((n - i) + 1)) + 1 = i
    BY <1>1
  <2> QED BY <1>2, <2>1
<1>5. FromHex(h) = [i \in 1 .. n |-> a[i]]
  BY <1>3, <1>4
<1>6. a = [i \in 1 .. n |-> a[i]]
  BY <1>1 DEF Bytes
<1>7. a # <<>> => Hex(a) # <<>>
  <2>1. a # <<>> => n # 0
    BY <1>1 DEF Bytes
  <2> QED BY <1>2, <2>1
<1> QED BY <1>5, <1>6, <1>7

\* What a backup has, of which the tables are read back.
SavedOK(b) ==
  /\ b.children \subseteq Eui64s
  /\ DOMAIN b.nwk_addresses \subseteq Eui64s
  /\ b.nwk_addresses = [i \in DOMAIN b.nwk_addresses |-> ShortAddress[i]]
  /\ b.key_table \in [DOMAIN b.key_table -> LinkKeys] /\ DOMAIN b.key_table \subseteq Eui64s
  /\ b.tc_link_key \in [tx_counter : Nat, partner_ieee : Partners]
  /\ b = [nwk_manager_id |-> b.nwk_manager_id, model |-> b.model, tc_link_key |-> b.tc_link_key,
          children |-> b.children, key_table |-> b.key_table, nwk_addresses |-> b.nwk_addresses]

\* An entry of the open format says of one device what the three tables do.
Says(d, b, i) ==
  LET json == DeviceAsJson(b, i)
  IN  /\ d.ieee_address = json.ieee_address
      /\ d.nwk_address = json.nwk_address
      /\ d.link_key = json.link_key
      /\ IsChild(d) <=> i \in b.children

\* What zigpy writes of a device, and what is left of it when `is_child' is left out.
Plain(d) == IF d.is_child = <<TRUE>> THEN [d EXCEPT !.is_child = <<>>] ELSE d

\* Both say what the tables do: a missing `is_child' is read as true.
LEMMA EntriesSay ==
  ASSUME NEW b, NEW i
  PROVE  Says(DeviceAsJson(b, i), b, i) /\ Says(Plain(DeviceAsJson(b, i)), b, i)
<1> DEFINE d == DeviceAsJson(b, i)
           Others(x) == /\ x.ieee_address = d.ieee_address
                        /\ x.nwk_address = d.nwk_address
                        /\ x.link_key = d.link_key
<1>1. \A x : Others(x) /\ (IsChild(x) <=> i \in b.children) => Says(x, b, i)
  BY DEF Says
<1>2. /\ i \in b.children => d.is_child = <<TRUE>>
      /\ i \notin b.children => d.is_child = <<FALSE>>
  <2>1. d.is_child = <<i \in b.children>>
    BY DEF DeviceAsJson
  <2> HIDE DEF d
  <2>2. CASE i \in b.children
    <3>1. (i \in b.children) = TRUE
      BY <2>2
    <3> QED BY <2>1, <3>1, Zenon
  <2>3. CASE i \notin b.children
    <3>1. (i \in b.children) = FALSE
      BY <2>3
    <3> QED BY <2>1, <3>1, Zenon
  <2> QED BY <2>2, <2>3
<1>3. <<TRUE>> # <<FALSE>> /\ <<>> # <<FALSE>>
  <2>1. <<TRUE>>[1] # <<FALSE>>[1]
    OBVIOUS
  <2> QED BY <2>1
<1>4. Others(d) /\ (IsChild(d) <=> i \in b.children)
  BY <1>2, <1>3 DEF IsChild
<1>5. Others([d EXCEPT !.is_child = <<>>]) /\ [d EXCEPT !.is_child = <<>>].is_child = <<>>
  BY DEF DeviceAsJson
<1>6. Others(Plain(d)) /\ (IsChild(Plain(d)) <=> i \in b.children)
  <2>1. CASE i \in b.children
    <3>1. Plain(d) = [d EXCEPT !.is_child = <<>>]
      BY <1>2, <2>1 DEF Plain
    <3> QED BY <1>3, <1>5, <2>1, <3>1 DEF IsChild
  <2>2. CASE i \notin b.children
    <3>1. Plain(d) = d
      BY <1>2, <1>3, <2>2 DEF Plain
    <3> QED BY <1>4, <3>1
  <2> QED BY <2>1, <2>2
<1> QED BY <1>1, <1>4, <1>6

\* If each device has its entry and each entry its device, all three tables are read back.
LEMMA TablesComeBack ==
  ASSUME NEW b, SavedOK(b), NEW json,
         \A d \in json.devices : \E i \in DevicesOf(b) : Says(d, b, i),
         \A i \in DevicesOf(b) : \E d \in json.devices : Says(d, b, i)
  PROVE  LET read == OfOpenJson(json)
         IN  /\ read.children = b.children
             /\ read.nwk_addresses = b.nwk_addresses
             /\ DOMAIN read.key_table = DOMAIN b.key_table
             /\ \A i \in DOMAIN b.key_table :
                  \E d \in json.devices :
                    /\ Says(d, b, i)
                    /\ read.key_table[i] = [tx_counter |-> b.key_table[i].tx_counter,
                                            rx_counter |-> b.key_table[i].rx_counter,
                                            seq |-> KeySeqOf(json, d)]
<1> DEFINE At(i) == CHOOSE d \in json.devices : FromHex(d.ieee_address) = i
           Children == {FromHex(d.ieee_address) : d \in {e \in json.devices : IsChild(e)}}
           Keyed == {FromHex(d.ieee_address) : d \in {e \in json.devices : e.link_key # <<>>}}
           Placed == {FromHex(d.ieee_address) : d \in {e \in json.devices : e.nwk_address # <<>>}}
           Keys == [i \in Keyed |-> [tx_counter |-> At(i).link_key[1].tx_counter,
                                     rx_counter |-> At(i).link_key[1].rx_counter,
                                     seq |-> KeySeqOf(json, At(i))]]
           Places == [i \in Placed |-> FromHex(At(i).nwk_address)]
<1>1. /\ OfOpenJson(json).children = Children
      /\ OfOpenJson(json).key_table = Keys
      /\ OfOpenJson(json).nwk_addresses = Places
  BY DEF OfOpenJson
<1>2. \A i \in DevicesOf(b) : i \in Eui64s /\ i \in Bytes
  BY AddressesAreBytes DEF DevicesOf, SavedOK, Bytes
<1>3. ASSUME NEW d \in json.devices, NEW i \in DevicesOf(b), Says(d, b, i)
      PROVE  FromHex(d.ieee_address) = i
  BY <1>2, <1>3, HexAndBack DEF Says, DeviceAsJson
<1>4. \A d \in json.devices :
        FromHex(d.ieee_address) \in DevicesOf(b) /\ Says(d, b, FromHex(d.ieee_address))
  BY <1>3
<1>5. ASSUME NEW i \in DevicesOf(b)
      PROVE  At(i) \in json.devices /\ Says(At(i), b, i)
  <2>1. \E d \in json.devices : FromHex(d.ieee_address) = i
    BY <1>3
  <2>2. At(i) \in json.devices /\ FromHex(At(i).ieee_address) = i
    BY <2>1
  <2> QED BY <1>4, <2>2
<1>6. ASSUME NEW d, NEW i \in DevicesOf(b), Says(d, b, i)
      PROVE  /\ IsChild(d) <=> i \in b.children
             /\ d.link_key # <<>> <=> i \in DOMAIN b.key_table
             /\ d.nwk_address # <<>> <=> i \in DOMAIN b.nwk_addresses
  <2>1. d.link_key # <<>> <=> i \in DOMAIN b.key_table
    BY <1>6 DEF Says, DeviceAsJson
  <2>2. d.nwk_address # <<>> <=> i \in DOMAIN b.nwk_addresses
    <3>1. CASE i \in DOMAIN b.nwk_addresses
      <4>1. b.nwk_addresses[i] = ShortAddress[i]
        BY <3>1 DEF SavedOK
      <4>2. ShortAddress[i] \in Bytes /\ ShortAddress[i] # <<>>
        BY <1>2, AddressesAreBytes DEF Bytes
      <4> QED BY <1>6, <3>1, <4>1, <4>2, HexAndBack DEF Says, DeviceAsJson
    <3>2. CASE i \notin DOMAIN b.nwk_addresses
      BY <1>6, <3>2 DEF Says, DeviceAsJson
    <3> QED BY <3>1, <3>2
  <2>3. IsChild(d) <=> i \in b.children
    BY <1>6 DEF Says
  <2> QED BY <2>1, <2>2, <2>3
<1>7. b.children \subseteq DevicesOf(b) /\ DOMAIN b.key_table \subseteq DevicesOf(b)
      /\ DOMAIN b.nwk_addresses \subseteq DevicesOf(b)
  BY DEF DevicesOf
<1>8. Children = b.children
  <2>1. \A d \in json.devices : IsChild(d) => FromHex(d.ieee_address) \in b.children
    BY <1>4, <1>6
  <2>2. \A i \in b.children : \E d \in json.devices : IsChild(d) /\ FromHex(d.ieee_address) = i
    BY <1>3, <1>6, <1>7
  <2> QED BY <2>1, <2>2
<1>9. Keyed = DOMAIN b.key_table
  <2>1. \A d \in json.devices : d.link_key # <<>> => FromHex(d.ieee_address) \in DOMAIN b.key_table
    BY <1>4, <1>6
  <2>2. \A i \in DOMAIN b.key_table :
          \E d \in json.devices : d.link_key # <<>> /\ FromHex(d.ieee_address) = i
    BY <1>3, <1>6, <1>7
  <2> QED BY <2>1, <2>2
<1>10. Placed = DOMAIN b.nwk_addresses
  <2>1. \A d \in json.devices :
          d.nwk_address # <<>> => FromHex(d.ieee_address) \in DOMAIN b.nwk_addresses
    BY <1>4, <1>6
  <2>2. \A i \in DOMAIN b.nwk_addresses :
          \E d \in json.devices : d.nwk_address # <<>> /\ FromHex(d.ieee_address) = i
    BY <1>3, <1>6, <1>7
  <2> QED BY <2>1, <2>2
<1> HIDE DEF At
<1>11. Places = b.nwk_addresses
  <2>1. ASSUME NEW i \in DOMAIN b.nwk_addresses PROVE FromHex(At(i).nwk_address) = ShortAddress[i]
    <3>1. i \in DevicesOf(b)
      BY <1>7
    <3>2. At(i).nwk_address = Hex(b.nwk_addresses[i])
      BY <1>5, <3>1, <2>1 DEF Says, DeviceAsJson
    <3>3. b.nwk_addresses[i] = ShortAddress[i] /\ ShortAddress[i] \in Bytes
      BY <1>2, <3>1, AddressesAreBytes DEF SavedOK, Bytes
    <3> QED BY <3>2, <3>3, HexAndBack
  <2>2. Places = [i \in DOMAIN b.nwk_addresses |-> ShortAddress[i]]
    BY <1>10, <2>1
  <2> QED BY <2>2 DEF SavedOK
<1>12. ASSUME NEW i \in DOMAIN b.key_table
       PROVE  \E d \in json.devices :
                /\ Says(d, b, i)
                /\ Keys[i] = [tx_counter |-> b.key_table[i].tx_counter,
                              rx_counter |-> b.key_table[i].rx_counter,
                              seq |-> KeySeqOf(json, d)]
  <2>1. i \in DevicesOf(b)
    BY <1>7
  <2>2. At(i) \in json.devices /\ Says(At(i), b, i)
    BY <1>5, <2>1
  <2>3. At(i).link_key[1] = [tx_counter |-> b.key_table[i].tx_counter,
                             rx_counter |-> b.key_table[i].rx_counter]
    BY <2>2 DEF Says, DeviceAsJson
  <2>4. Keys[i] = [tx_counter |-> At(i).link_key[1].tx_counter,
                   rx_counter |-> At(i).link_key[1].rx_counter,
                   seq |-> KeySeqOf(json, At(i))]
    BY <1>9
  <2> HIDE DEF Keys
  <2>5. Keys[i] = [tx_counter |-> b.key_table[i].tx_counter,
                   rx_counter |-> b.key_table[i].rx_counter,
                   seq |-> KeySeqOf(json, At(i))]
    BY <2>3, <2>4
  <2> QED BY <2>2, <2>5
<1>13. DOMAIN Keys = DOMAIN b.key_table
  BY <1>9
<1> HIDE DEF Children, Keys, Places
<1> QED BY <1>1, <1>8, <1>11, <1>12, <1>13

\* The files that zigpy and others write, and what is read from them.
FormatsInv ==
  /\ SavedOK(saved)
  /\ file # <<>> => file \in {AsDict(saved), AsDictOfVersion0(saved), AsOpenJson(saved),
                              OthersJson(saved)}
  /\ restored # <<>> =>
       /\ file # <<>>
       /\ restored = IF "metadata" \in DOMAIN file THEN OfOpenJson(file) ELSE OfDict(file)

\* Reading as_dict() gives the backup itself, up to the model.
LEMMA DictComesBack ==
  ASSUME FormatsInv, restored # <<>>, file \in {AsDict(saved), AsDictOfVersion0(saved)}
  PROVE  BackupComesBack
<1>1. "metadata" \notin DOMAIN file
  BY DEF AsDict, AsDictOfVersion0
<1>2. restored = OfDict(file)
  BY <1>1 DEF FormatsInv
<1>3. \/ OfDict(file) = [saved EXCEPT !.model = saved.model]
      \/ OfDict(file) = [saved EXCEPT !.model = <<>>]
  <2>1. CASE file = AsDict(saved)
    <3>1. "version" \in DOMAIN file /\ file.network_info = saved /\ file.node_info.model = saved.model
      BY <2>1 DEF AsDict
    <3> QED BY <3>1 DEF OfDict
  <2>2. CASE file = AsDictOfVersion0(saved)
    <3>1. "version" \notin DOMAIN file /\ file.network_info = saved
      BY <2>2 DEF AsDictOfVersion0
    <3> QED BY <3>1 DEF OfDict
  <2> QED BY <2>1, <2>2
<1>4. \E m \in {saved.model, <<>>} :
        restored = [nwk_manager_id |-> saved.nwk_manager_id, model |-> m,
                    tc_link_key |-> saved.tc_link_key, children |-> saved.children,
                    key_table |-> saved.key_table, nwk_addresses |-> saved.nwk_addresses]
  BY <1>2, <1>3 DEF FormatsInv, SavedOK
<1>5. ~ByOthers
  BY <1>1 DEF ByOthers
<1> QED BY <1>4, <1>5 DEF BackupComesBack

\* The open format, as zigpy writes it, is read back with the numbers of the keys.
LEMMA OpenJsonComesBack ==
  ASSUME FormatsInv, restored # <<>>, file = AsOpenJson(saved)
  PROVE  BackupComesBack
<1> DEFINE b == saved
<1>1. /\ "metadata" \in DOMAIN file
      /\ file.devices = {DeviceAsJson(b, i) : i \in DevicesOf(b)}
      /\ file.coordinator_ieee = Hex(Coordinator)
      /\ file.metadata.node = <<b.model>>
      /\ file.metadata.network = <<[tc_link_key |-> b.tc_link_key.tx_counter,
                                    tc_address |-> Hex(b.tc_link_key.partner_ieee),
                                    nwk_manager |-> Hex(b.nwk_manager_id)]>>
      /\ file.metadata.link_key_seqs = {<<Hex(i), b.key_table[i].seq>> : i \in DOMAIN b.key_table}
  BY DEF AsOpenJson
<1>2. restored = OfOpenJson(file) /\ SavedOK(b)
  BY <1>1 DEF FormatsInv
<1>3. \A i : Says(DeviceAsJson(b, i), b, i)
  BY EntriesSay
<1>4. /\ restored.children = b.children
      /\ restored.nwk_addresses = b.nwk_addresses
      /\ DOMAIN restored.key_table = DOMAIN b.key_table
      /\ \A i \in DOMAIN b.key_table :
           \E d \in file.devices :
             /\ Says(d, b, i)
             /\ restored.key_table[i] = [tx_counter |-> b.key_table[i].tx_counter,
                                         rx_counter |-> b.key_table[i].rx_counter,
                                         seq |-> KeySeqOf(file, d)]
  <2>1. /\ \A d \in file.devices : \E i \in DevicesOf(b) : Says(d, b, i)
        /\ \A i \in DevicesOf(b) : \E d \in file.devices : Says(d, b, i)
    BY <1>1, <1>3
  <2> HIDE DEF b
  <2> QED BY <1>2, <2>1, TablesComeBack
<1>5. ASSUME NEW i \in DOMAIN b.key_table, NEW d, Says(d, b, i)
      PROVE  KeySeqOf(file, d) = b.key_table[i].seq
  <2> DEFINE seqs == {<<Hex(k), b.key_table[k].seq>> : k \in DOMAIN b.key_table}
  <2>1. d.ieee_address = Hex(i)
    BY <1>5 DEF Says, DeviceAsJson
  <2>2. \A k \in DOMAIN b.key_table : k \in Bytes
    BY <1>2, AddressesAreBytes DEF SavedOK, Bytes
  <2>3. \A s \in seqs : s[1] = Hex(i) => s[2] = b.key_table[i].seq
    <3> SUFFICES ASSUME NEW k \in DOMAIN b.key_table, Hex(k) = Hex(i) PROVE k = i
      OBVIOUS
    <3> QED BY <2>2, HexAndBack
  <2>4. <<Hex(i), b.key_table[i].seq>> \in seqs
    OBVIOUS
  <2>5. \E s \in seqs : s[1] = Hex(i)
    BY <2>4
  <2> HIDE DEF seqs
  <2>6. KeySeqOf(file, d) = (CHOOSE s \in seqs : s[1] = Hex(i))[2]
    BY <1>1, <2>1, <2>5 DEF KeySeqOf, seqs
  <2> QED BY <2>3, <2>5, <2>6
<1>6. \A i \in DOMAIN b.key_table : restored.key_table[i] = b.key_table[i]
  <2> SUFFICES ASSUME NEW i \in DOMAIN b.key_table PROVE restored.key_table[i] = b.key_table[i]
    OBVIOUS
  <2>1. restored.key_table[i] = [tx_counter |-> b.key_table[i].tx_counter,
                                 rx_counter |-> b.key_table[i].rx_counter,
                                 seq |-> b.key_table[i].seq]
    BY <1>4, <1>5
  <2>2. b.key_table[i] \in [tx_counter : Nat, rx_counter : Nat, seq : Nat]
    BY <1>2, KeysHaveCounters DEF SavedOK
  <2> QED BY <2>1, <2>2
<1>7. ~ByOthers
  BY <1>1 DEF ByOthers
<1>8. restored.model = b.model
  BY <1>1, <1>2 DEF OfOpenJson
<1>9. restored.tc_link_key = b.tc_link_key
  <2>1. FromHex(Hex(b.tc_link_key.partner_ieee)) = b.tc_link_key.partner_ieee
    BY <1>2, AddressesAreBytes, HexAndBack DEF SavedOK, Bytes
  <2>2. restored.tc_link_key = [tx_counter |-> b.tc_link_key.tx_counter,
                                partner_ieee |-> FromHex(Hex(b.tc_link_key.partner_ieee))]
    BY <1>1, <1>2 DEF OfOpenJson
  <2> QED BY <1>2, <2>1, <2>2 DEF SavedOK
<1> QED BY <1>4, <1>6, <1>7, <1>8, <1>9 DEF BackupComesBack

\* Another program leaves out what is zigpy's own: the numbers of the keys, the trust
\* center's key and the model.
LEMMA OthersJsonComesBack ==
  ASSUME FormatsInv, restored # <<>>, file = OthersJson(saved)
  PROVE  BackupComesBack
<1> DEFINE b == saved
           bare == [node |-> <<>>, network |-> <<>>, link_key_seqs |-> {}]
           entries == {DeviceAsJson(b, i) : i \in DevicesOf(b)}
<1>1. /\ "metadata" \in DOMAIN file
      /\ file.devices = {Plain(d) : d \in {DeviceAsJson(b, i) : i \in DevicesOf(b)}}
      /\ file.coordinator_ieee = Hex(Coordinator)
      /\ file.metadata = [node |-> <<>>, network |-> <<>>, link_key_seqs |-> {}]
  <2>1. PICK m : AsOpenJson(b) = [metadata |-> m, coordinator_ieee |-> Hex(Coordinator),
                                 devices |-> entries]
    BY DEF AsOpenJson
  <2>2. file = [[AsOpenJson(b) EXCEPT !.metadata = bare]
                  EXCEPT !.devices = {Plain(d) : d \in AsOpenJson(b).devices}]
    BY DEF OthersJson, Plain
  <2>3. AsOpenJson(b).devices = entries
    BY <2>1
  <2> HIDE DEF bare, entries
  <2>4. PICK plain : plain = {Plain(d) : d \in entries}
    OBVIOUS
  <2>5. {Plain(d) : d \in AsOpenJson(b).devices} = plain
    BY <2>3, <2>4
  <2>6. file = [[AsOpenJson(b) EXCEPT !.metadata = bare] EXCEPT !.devices = plain]
    BY <2>2, <2>5
  <2>7. file = [metadata |-> bare, coordinator_ieee |-> Hex(Coordinator), devices |-> plain]
    <3> DEFINE address == Hex(Coordinator)
    <3> HIDE DEF address
    <3>1. [AsOpenJson(b) EXCEPT !.metadata = bare]
            = [metadata |-> bare, coordinator_ieee |-> address, devices |-> entries]
      BY <2>1 DEF address
    <3>2. [[metadata |-> bare, coordinator_ieee |-> address, devices |-> entries]
             EXCEPT !.devices = plain]
            = [metadata |-> bare, coordinator_ieee |-> address, devices |-> plain]
      OBVIOUS
    <3> QED BY <2>6, <3>1, <3>2 DEF address
  <2> QED BY <2>4, <2>7 DEF bare, entries
<1>2. restored = OfOpenJson(file) /\ SavedOK(b)
  BY <1>1 DEF FormatsInv
<1>3. \A i : Says(Plain(DeviceAsJson(b, i)), b, i)
  BY EntriesSay
<1>4. /\ \A d \in file.devices : \E i \in DevicesOf(b) : Says(d, b, i)
      /\ \A i \in DevicesOf(b) : \E d \in file.devices : Says(d, b, i)
  BY <1>1, <1>3
<1>5. /\ restored.children = b.children
      /\ restored.nwk_addresses = b.nwk_addresses
      /\ DOMAIN restored.key_table = DOMAIN b.key_table
      /\ \A i \in DOMAIN b.key_table :
           \E d \in file.devices :
             /\ Says(d, b, i)
             /\ restored.key_table[i] = [tx_counter |-> b.key_table[i].tx_counter,
                                         rx_counter |-> b.key_table[i].rx_counter,
                                         seq |-> KeySeqOf(file, d)]
  <2> HIDE DEF b
  <2> QED BY <1>2, <1>4, TablesComeBack
<1>6. \A d : KeySeqOf(file, d) = 0
  BY <1>1 DEF KeySeqOf
<1>7. \A i \in DOMAIN b.key_table : restored.key_table[i] = [b.key_table[i] EXCEPT !.seq = 0]
  <2> SUFFICES ASSUME NEW i \in DOMAIN b.key_table
               PROVE  restored.key_table[i] = [b.key_table[i] EXCEPT !.seq = 0]
    OBVIOUS
  <2>1. restored.key_table[i] = [tx_counter |-> b.key_table[i].tx_counter,
                                 rx_counter |-> b.key_table[i].rx_counter, seq |-> 0]
    BY <1>5, <1>6
  <2>2. b.key_table[i] \in [tx_counter : Nat, rx_counter : Nat, seq : Nat]
    BY <1>2, KeysHaveCounters DEF SavedOK
  <2> QED BY <2>1, <2>2
<1>8. ByOthers
  BY <1>1 DEF ByOthers
<1>9. restored.model = <<>>
  BY <1>1, <1>2 DEF OfOpenJson
<1>10. restored.tc_link_key = UnknownKey
  <2>1. FromHex(Hex(Coordinator)) = Coordinator
    BY AddressesAreBytes, HexAndBack DEF Bytes
  <2> QED BY <1>1, <1>2, <2>1 DEF OfOpenJson, UnknownKey
<1> QED BY <1>5, <1>7, <1>8, <1>9, <1>10 DEF BackupComesBack

\* A backup that is written in one of the two formats, by zigpy or by another program, and
\* read again has the devices, keys and counters it had.
THEOREM BackupsComeBack == FormatsSpec => []BackupComesBack
<1>1. FormatsInit => FormatsInv
  <2> SUFFICES ASSUME FormatsInit PROVE FormatsInv
    OBVIOUS
  <2>1. PICK ch \in SUBSET Eui64s, addressed \in SUBSET Eui64s, partners \in SUBSET Eui64s :
        \E keys \in [partners -> LinkKeys], manager \in Managers, tc \in Partners :
          saved = [nwk_manager_id |-> manager, model |-> <<"model">>,
                   tc_link_key |-> [tx_counter |-> 1, partner_ieee |-> tc],
                   children |-> ch, key_table |-> keys,
                   nwk_addresses |-> [i \in addressed |-> ShortAddress[i]]]
    BY DEF FormatsInit
  <2>2. SavedOK(saved)
    BY <2>1 DEF SavedOK
  <2> QED BY <2>2 DEF FormatsInit, FormatsInv
<1>2. FormatsInv /\ [FormatsNext]_formatVars => FormatsInv'
  <2> SUFFICES ASSUME FormatsInv, [FormatsNext]_formatVars PROVE FormatsInv'
    OBVIOUS
  <2>1. ASSUME NEW json \in {AsDict(saved), AsDictOfVersion0(saved), AsOpenJson(saved),
                             OthersJson(saved)}, FileWritten(json)
        PROVE  FormatsInv'
    <3>1. file = <<>> /\ file' = json /\ saved' = saved /\ restored' = restored
      BY <2>1 DEF FileWritten
    <3>2. restored = <<>>
      BY <3>1 DEF FormatsInv
    <3>3. SavedOK(saved')
      BY <3>1 DEF FormatsInv
    <3>4. file' \in {AsDict(saved'), AsDictOfVersion0(saved'), AsOpenJson(saved'),
                     OthersJson(saved')}
      BY <3>1
    <3> QED BY <3>1, <3>2, <3>3, <3>4 DEF FormatsInv
  <2>2. CASE FromDict
    <3>1. file # <<>> /\ saved' = saved /\ file' = file
          /\ restored' = IF "metadata" \in DOMAIN file THEN OfOpenJson(file) ELSE OfDict(file)
      BY <2>2 DEF FromDict
    <3> QED BY <3>1 DEF FormatsInv
  <2>3. CASE UNCHANGED formatVars
    BY <2>3 DEF formatVars, FormatsInv
  <2> QED BY <2>1, <2>2, <2>3 DEF FormatsNext
<1>3. FormatsInv => BackupComesBack
  <2> SUFFICES ASSUME FormatsInv, restored # <<>> PROVE BackupComesBack
    BY DEF BackupComesBack
  <2>1. file \in {AsDict(saved), AsDictOfVersion0(saved), AsOpenJson(saved), OthersJson(saved)}
    BY DEF FormatsInv
  <2> QED BY <2>1, DictComesBack, OpenJsonComesBack, OthersJsonComesBack
<1> QED BY <1>1, <1>2, <1>3, PTL DEF FormatsSpec
=============================================================================
