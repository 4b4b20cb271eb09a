----------------------------- MODULE QuirkProofs -----------------------------
(***************************************************************************)
(* Proofs about quirks.  QuirkRegistry, for any quirks and models: the     *)
(* lists are those of the registrations that were not taken back, in their *)
(* order, whatever is registered, removed and purged; so the first of the  *)
(* chain of lists that fits is the latest for the pair that says most.     *)
(* QuirkedDevice, for any device and any metadata with one piece of each   *)
(* kind at most: what is at a place after each kind of metadata.           *)
(***************************************************************************)
EXTENDS QuirkRegistry, QuirkedDevice, FiniteSetTheorems, SequenceTheorems,
        NaturalsInduction, WellFoundedInduction, TLAPS

-----------------------------------------------------------------------------
(* Lists without duplicates: what is in them, and in which order.          *)

InList(list, x) == \E i \in DOMAIN list : list[i] = x
Ahead(list, x, y) == \E i, j \in DOMAIN list : i < j /\ list[i] = x /\ list[j] = y
Once(list) == \A i, j \in DOMAIN list : list[i] = list[j] => i = j

\* What is in two lists one behind the other, and in which order.
LEMMA Concatenated ==
  ASSUME NEW S, NEW s \in Seq(S), NEW t \in Seq(S), Once(s), Once(t),
         \A x : ~(InList(s, x) /\ InList(t, x))
  PROVE  /\ s \o t \in Seq(S) /\ Once(s \o t)
         /\ \A x : InList(s \o t, x) <=> InList(s, x) \/ InList(t, x)
         /\ \A x, y : Ahead(s \o t, x, y) <=>
              Ahead(s, x, y) \/ Ahead(t, x, y) \/ (InList(s, x) /\ InList(t, y))
<1>1. PICK m \in Nat : m = Len(s) /\ DOMAIN s = 1 .. m
  OBVIOUS
<1>2. PICK n \in Nat : n = Len(t) /\ DOMAIN t = 1 .. n
  OBVIOUS
<1>3. PICK both : both = s \o t
  OBVIOUS
<1>4. both \in Seq(S) /\ DOMAIN both = 1 .. m + n
  BY <1>1, <1>2, <1>3
<1>5. /\ \A i \in 1 .. m : both[i] = s[i]
      /\ \A i \in 1 .. n : both[m + i] = t[i]
  BY <1>1, <1>2, <1>3
<1>6. \A i \in 1 .. m + n : i \in 1 .. m \/ \E j \in 1 .. n : i = m + j
  <2> SUFFICES ASSUME NEW i \in 1 .. m + n, i \notin 1 .. m PROVE \E j \in 1 .. n : i = m + j
    OBVIOUS
  <2>1. i - m \in 1 .. n /\ i = m + (i - m)
    BY <1>1, <1>2
  <2> QED BY <2>1
<1>7. /\ \A i \in 1 .. m : i \in 1 .. m + n
      /\ \A i \in 1 .. n : m + i \in 1 .. m + n
  BY <1>1, <1>2
<1>8. ASSUME NEW x PROVE InList(both, x) <=> InList(s, x) \/ InList(t, x)
  <2>1. ASSUME InList(both, x) PROVE InList(s, x) \/ InList(t, x)
    <3>1. PICK i \in 1 .. m + n : both[i] = x
      BY <1>4, <2>1 DEF InList
    <3>2. CASE i \in 1 .. m
      BY <1>1, <1>5, <3>1, <3>2 DEF InList
    <3>3. CASE i \notin 1 .. m
      <4>1. PICK j \in 1 .. n : i = m + j
        BY <1>6, <3>3
      <4> QED BY <1>2, <1>5, <3>1, <4>1 DEF InList
    <3> QED BY <3>2, <3>3
  <2>2. ASSUME InList(s, x) PROVE InList(both, x)
    BY <1>1, <1>4, <1>5, <1>7, <2>2 DEF InList
  <2>3. ASSUME InList(t, x) PROVE InList(both, x)
    BY <1>2, <1>4, <1>5, <1>7, <2>3 DEF InList
  <2> QED BY <2>1, <2>2, <2>3
<1>9. Once(both)
  <2> SUFFICES ASSUME NEW i \in 1 .. m + n, NEW j \in 1 .. m + n, both[i] = both[j] PROVE i = j
    BY <1>4 DEF Once
  <2>1. \A k \in 1 .. m : InList(s, s[k])
    BY <1>1 DEF InList
  <2>2. \A k \in 1 .. n : InList(t, t[k])
    BY <1>2 DEF InList
  <2>3. CASE i \in 1 .. m /\ j \in 1 .. m
    BY <1>1, <1>5, <2>3 DEF Once
  <2>4. CASE i \in 1 .. m /\ j \notin 1 .. m
    BY <1>5, <1>6, <2>1, <2>2, <2>4
  <2>5. CASE i \notin 1 .. m /\ j \in 1 .. m
    BY <1>5, <1>6, <2>1, <2>2, <2>5
  <2>6. CASE i \notin 1 .. m /\ j \notin 1 .. m
    BY <1>2, <1>5, <1>6, <2>6 DEF Once
  <2> QED BY <2>3, <2>4, <2>5, <2>6
<1>10. ASSUME NEW x, NEW y
       PROVE  Ahead(both, x, y) <=>
                Ahead(s, x, y) \/ Ahead(t, x, y) \/ (InList(s, x) /\ InList(t, y))
  <2>1. ASSUME Ahead(both, x, y)
        PROVE  Ahead(s, x, y) \/ Ahead(t, x, y) \/ (InList(s, x) /\ InList(t, y))
    <3>1. PICK i \in 1 .. m + n, j \in 1 .. m + n : i < j /\ both[i] = x /\ both[j] = y
      BY <1>4, <2>1 DEF Ahead
    <3>2. CASE i \in 1 .. m /\ j \in 1 .. m
      BY <1>1, <1>5, <3>1, <3>2 DEF Ahead
    <3>3. CASE i \in 1 .. m /\ j \notin 1 .. m
      <4>1. PICK b \in 1 .. n : j = m + b
        BY <1>6, <3>3
      <4>2. InList(s, x) /\ InList(t, y)
        BY <1>1, <1>2, <1>5, <3>1, <3>3, <4>1 DEF InList
      <4> QED BY <4>2
    <3>4. CASE i \notin 1 .. m
      <4>1. j \notin 1 .. m
        BY <1>1, <1>2, <3>1, <3>4
      <4>2. PICK a \in 1 .. n : i = m + a
        BY <1>6, <3>4
      <4>3. PICK b \in 1 .. n : j = m + b
        BY <1>6, <4>1
      <4>4. a < b
        BY <1>1, <3>1, <4>2, <4>3
      <4> QED BY <1>2, <1>5, <3>1, <4>2, <4>3, <4>4 DEF Ahead
    <3> QED BY <3>2, <3>3, <3>4
  <2>2. ASSUME Ahead(s, x, y) PROVE Ahead(both, x, y)
    BY <1>1, <1>4, <1>5, <1>7, <2>2 DEF Ahead
  <2>3. ASSUME Ahead(t, x, y) PROVE Ahead(both, x, y)
    <3>1. PICK a \in 1 .. n, b \in 1 .. n : a < b /\ t[a] = x /\ t[b] = y
      BY <1>2, <2>3 DEF Ahead
    <3>2. m + a < m + b
      BY <1>1, <3>1
    <3> QED BY <1>4, <1>5, <1>7, <3>1, <3>2 DEF Ahead
  <2>4. ASSUME InList(s, x), InList(t, y) PROVE Ahead(both, x, y)
    <3>1. PICK a \in 1 .. m, b \in 1 .. n : s[a] = x /\ t[b] = y
      BY <1>1, <1>2, <2>4 DEF InList
    <3>2. a < m + b
      BY <1>1, <3>1
    <3> QED BY <1>4, <1>5, <1>7, <3>1, <3>2 DEF Ahead
  <2> QED BY <2>1, <2>2, <2>3, <2>4
<1> QED BY <1>3, <1>4, <1>8, <1>9, <1>10

\* Of some numbers one is the least.
LEMMA LeastNumber ==
  ASSUME NEW T, T \subseteq Nat, T # {}
  PROVE  \E x \in T : \A y \in T : x <= y
<1> DEFINE R == OpToRel(<, Nat)
<1>1. \A x, y \in Nat : x < y => <<x, y>> \in R
  BY DEF OpToRel
<1>2. IsWellFoundedOn(R, Nat)
  BY NatLessThanWellFounded
<1> HIDE DEF R
<1>3. PICK x \in T : \A y \in T : ~(<<y, x>> \in R)
  BY <1>2, WFMin, Zenon
<1>4. \A y \in T : ~(y < x)
  BY <1>1, <1>3
<1>5. \A y \in T : x \in Nat /\ y \in Nat
  OBVIOUS
<1> QED BY <1>4, <1>5

\* One more at the end.
LEMMA OneMore ==
  ASSUME NEW S, NEW s \in Seq(S), NEW e \in S, Once(s), ~InList(s, e)
  PROVE  /\ Append(s, e) \in Seq(S) /\ Once(Append(s, e))
         /\ \A x : InList(Append(s, e), x) <=> InList(s, x) \/ x = e
         /\ \A x, y : Ahead(Append(s, e), x, y) <=> Ahead(s, x, y) \/ (InList(s, x) /\ y = e)
<1>1. <<e>> \in Seq(S) /\ DOMAIN <<e>> = {1} /\ <<e>>[1] = e
  OBVIOUS
<1>2. PICK last : last = <<e>>
  OBVIOUS
<1>3. last \in Seq(S) /\ Once(last) /\ (\A x : InList(last, x) <=> x = e)
        /\ (\A x, y : ~Ahead(last, x, y))
  BY <1>1, <1>2 DEF Once, InList, Ahead
<1>4. Append(s, e) = s \o last
  BY <1>2
<1>5. \A x : ~(InList(s, x) /\ InList(last, x))
  BY <1>3
<1>6. /\ s \o last \in Seq(S) /\ Once(s \o last)
      /\ \A x : InList(s \o last, x) <=> InList(s, x) \/ InList(last, x)
      /\ \A x, y : Ahead(s \o last, x, y) <=>
           Ahead(s, x, y) \/ Ahead(last, x, y) \/ (InList(s, x) /\ InList(last, y))
  BY <1>3, <1>5, Concatenated
<1> QED BY <1>3, <1>4, <1>6

\* The recursive function of Without is what its definition says.
LEMMA WithoutUnfolds ==
  ASSUME NEW S, NEW list \in Seq(S), NEW gone
  PROVE  \E upTo :
           /\ upTo = [n \in 0 .. Len(list) |->
                        IF n = 0 THEN <<>>
                        ELSE IF list[n] \in gone THEN upTo[n - 1]
                        ELSE Append(upTo[n - 1], list[n])]
           /\ Without(list, gone) = upTo[Len(list)]
<1> DEFINE n == Len(list)
           Step(f, i) == IF i = 0 THEN <<>>
                         ELSE IF list[i] \in gone THEN f[i - 1]
                         ELSE Append(f[i - 1], list[i])
           Unfolds(f, m) == f = [i \in 0 .. m |-> Step(f, i)]
           Bad == {m \in 0 .. n : ~\E f : Unfolds(f, m)}
<1>1. n \in Nat
  OBVIOUS
<1>2. Bad = {}
  <2> SUFFICES ASSUME Bad # {} PROVE FALSE
    OBVIOUS
  <2> HIDE DEF Unfolds
  <2>1. Bad \subseteq Nat
    BY <1>1
  <2> HIDE DEF Bad
  <2>2. PICK m \in Bad : \A k \in Bad : m <= k
    BY <2>1, LeastNumber, Zenon
  <2> USE DEF Bad, Unfolds
  <2>3. CASE m = 0
    <3> DEFINE f == [i \in 0 .. 0 |-> <<>>]
    <3>1. f = [i \in 0 .. 0 |-> Step(f, i)]
      <4>1. \A i \in 0 .. 0 : i = 0
        OBVIOUS
      <4> QED BY <4>1
    <3>2. Unfolds(f, 0)
      BY <3>1
    <3> HIDE DEF f, Unfolds
    <3> QED BY <2>3, <3>2
  <2>4. CASE m # 0
    <3>1. m - 1 \in 0 .. n /\ ~(m <= m - 1) /\ m \in 1 .. n
      BY <1>1, <2>4
    <3>2. PICK f : Unfolds(f, m - 1)
      BY <2>2, <3>1
    <3> DEFINE g == [i \in 0 .. m |-> IF i = m THEN Step(f, m) ELSE f[i]]
    <3>3. ASSUME NEW i \in 0 .. m PROVE g[i] = Step(g, i)
      <4>1. CASE i = m
        <5>1. i # 0 /\ i - 1 \in 0 .. m /\ i - 1 # m
          BY <3>1, <4>1
        <5>2. g[i] = Step(f, m) /\ g[i - 1] = f[i - 1]
          BY <4>1, <5>1
        <5> QED BY <4>1, <5>2
      <4>2. CASE i = 0 /\ i # m
        <5>1. i \in 0 .. m - 1
          BY <3>1, <4>2
        <5>2. g[i] = f[i] /\ f[i] = <<>>
          BY <3>2, <4>2, <5>1
        <5> QED BY <4>2, <5>2
      <4>3. CASE i # 0 /\ i # m
        <5>1. i \in 0 .. m - 1 /\ i - 1 \in 0 .. m /\ i - 1 # m
          BY <3>1, <4>3
        <5>2. g[i] = f[i] /\ g[i - 1] = f[i - 1] /\ f[i] = Step(f, i)
          BY <3>2, <4>3, <5>1
        <5> QED BY <4>3, <5>2
      <4> QED BY <4>1, <4>2, <4>3
    <3>4. g = [i \in 0 .. m |-> g[i]]
      OBVIOUS
    <3> HIDE DEF g, Step
    <3>5. Unfolds(g, m)
      BY <3>3, <3>4
    <3> HIDE DEF Unfolds
    <3> QED BY <2>2, <3>5
  <2> QED BY <2>3, <2>4
<1>3. \E f : Unfolds(f, n)
  <2>1. n \in 0 .. n
    BY <1>1
  <2> HIDE DEF Unfolds, n
  <2> QED BY <1>2, <2>1
<1>4. Without(list, gone) = (CHOOSE f : Unfolds(f, n))[n]
  BY DEF Without
<1> DEFINE it == CHOOSE f : Unfolds(f, n)
<1>5. Unfolds(it, n)
  <2> HIDE DEF Unfolds, n
  <2> QED BY <1>3
<1>6. Without(list, gone) = it[n]
  BY <1>4
<1> HIDE DEF it
<1> QED BY <1>5, <1>6

\* The others stay, in their order.
LEMMA WithoutOf ==
  ASSUME NEW S, NEW list \in Seq(S), Once(list), NEW gone
  PROVE  /\ Without(list, gone) \in Seq(S) /\ Once(Without(list, gone))
         /\ \A x : InList(Without(list, gone), x) <=> InList(list, x) /\ x \notin gone
         /\ \A x, y : Ahead(Without(list, gone), x, y) <=>
              Ahead(list, x, y) /\ x \notin gone /\ y \notin gone
<1> DEFINE n == Len(list)
           Until(k, x) == \E j \in 1 .. k : list[j] = x
           AheadUntil(k, x, y) == \E i, j \in 1 .. k : i < j /\ list[i] = x /\ list[j] = y
<1>1. n \in Nat /\ DOMAIN list = 1 .. n /\ \A i \in 1 .. n : list[i] \in S
  OBVIOUS
<1>2. PICK upTo :
        /\ upTo = [i \in 0 .. n |-> IF i = 0 THEN <<>>
                                    ELSE IF list[i] \in gone THEN upTo[i - 1]
                                    ELSE Append(upTo[i - 1], list[i])]
        /\ Without(list, gone) = upTo[n]
  BY WithoutUnfolds
<1> DEFINE Good(k) ==
             /\ upTo[k] \in Seq(S) /\ Once(upTo[k])
             /\ \A x : InList(upTo[k], x) <=> Until(k, x) /\ x \notin gone
             /\ \A x, y : Ahead(upTo[k], x, y) <=>
                  AheadUntil(k, x, y) /\ x \notin gone /\ y \notin gone
           Bad == {k \in 0 .. n : ~Good(k)}
<1>3. Good(0)
  <2>1. upTo[0] = <<>>
    BY <1>1, <1>2
  <2>2. \A x, y : ~Until(0, x) /\ ~AheadUntil(0, x, y)
    OBVIOUS
  <2>3. DOMAIN <<>> = {} /\ <<>> \in Seq(S)
    OBVIOUS
  <2> QED BY <2>1, <2>2, <2>3 DEF Once, InList, Ahead
<1>4. ASSUME NEW k \in 1 .. n, Good(k - 1) PROVE Good(k)
  <2>1. k \in 0 .. n /\ k # 0 /\ list[k] \in S /\ k - 1 \in Nat
    BY <1>1
  <2>2. upTo[k] = IF list[k] \in gone THEN upTo[k - 1] ELSE Append(upTo[k - 1], list[k])
    BY <1>2, <2>1
  <2>3. \A j : j \in 1 .. k <=> j \in 1 .. k - 1 \/ j = k
    BY <2>1
  <2>4. \A x : Until(k, x) <=> Until(k - 1, x) \/ x = list[k]
    BY <2>3
  <2>5. ASSUME NEW x, NEW y
        PROVE  AheadUntil(k, x, y) <=> AheadUntil(k - 1, x, y) \/ (Until(k - 1, x) /\ y = list[k])
    <3>1. \A j \in 1 .. k - 1 : j < k /\ ~(k < j) /\ ~(k < k)
      BY <2>1
    <3> QED BY <2>1, <2>3, <3>1
  <2>6. ~Until(k - 1, list[k])
    <3> SUFFICES ASSUME NEW j \in 1 .. k - 1, list[j] = list[k] PROVE FALSE
      OBVIOUS
    <3>1. j \in 1 .. n /\ j # k
      BY <1>1, <2>1
    <3> QED BY <1>1, <3>1 DEF Once
  <2> HIDE DEF Until, AheadUntil
  <2>7. CASE list[k] \in gone
    BY <1>4, <2>2, <2>4, <2>5, <2>7
  <2>8. CASE list[k] \notin gone
    <3>1. PICK short \in Seq(S) : short = upTo[k - 1]
      BY <1>4
    <3>2. /\ Once(short)
          /\ \A x : InList(short, x) <=> Until(k - 1, x) /\ x \notin gone
          /\ \A x, y : Ahead(short, x, y) <=>
               AheadUntil(k - 1, x, y) /\ x \notin gone /\ y \notin gone
      BY <1>4, <3>1
    <3>3. PICK long : long = Append(short, list[k])
      OBVIOUS
    <3>4. /\ long \in Seq(S) /\ Once(long)
          /\ \A x : InList(long, x) <=> InList(short, x) \/ x = list[k]
          /\ \A x, y : Ahead(long, x, y) <=> Ahead(short, x, y) \/ (InList(short, x) /\ y = list[k])
      BY <2>1, <2>6, <3>2, <3>3, OneMore
    <3>5. upTo[k] = long
      BY <2>2, <2>8, <3>1, <3>3
    <3>6. \A x : InList(long, x) <=> Until(k, x) /\ x \notin gone
      BY <2>4, <2>8, <3>2, <3>4
    <3>7. \A x, y : Ahead(long, x, y) <=> AheadUntil(k, x, y) /\ x \notin gone /\ y \notin gone
      BY <2>5, <2>8, <3>2, <3>4
    <3> QED BY <3>4, <3>5, <3>6, <3>7
  <2> QED BY <2>7, <2>8
<1>5. Good(n)
  <2> HIDE DEF Good, n
  <2> SUFFICES ASSUME Bad # {} PROVE FALSE
    BY <1>1
  <2>1. Bad \subseteq Nat
    BY <1>1
  <2> HIDE DEF Bad
  <2>2. PICK k \in Bad : \A j \in Bad : k <= j
    BY <2>1, LeastNumber, Zenon
  <2> USE DEF Bad
  <2>3. k # 0 /\ k \in 0 .. n
    BY <1>3, <2>2
  <2>4. k \in 1 .. n /\ k - 1 \in 0 .. n /\ ~(k <= k - 1)
    BY <1>1, <2>3
  <2>5. Good(k - 1)
    BY <2>2, <2>4
  <2> QED BY <1>4, <2>2, <2>4, <2>5
<1>6. /\ \A x : InList(list, x) <=> Until(n, x)
      /\ \A x, y : Ahead(list, x, y) <=> AheadUntil(n, x, y)
  BY <1>1 DEF InList, Ahead
<1> HIDE DEF n, Until, AheadUntil
<1> QED BY <1>2, <1>5, <1>6

\* The sequence of a set has each of its members once.
LEMMA ListedOnce ==
  ASSUME NEW S, IsFiniteSet(S)
  PROVE  /\ SetToSeq(S) \in Seq(S) /\ Once(SetToSeq(S))
         /\ \A x : InList(SetToSeq(S), x) <=> x \in S
<1> DEFINE n == Cardinality(S)
<1>1. n \in Nat /\ ExistsBijection(1 .. n, S)
  BY FS_CardinalityType
<1>2. \E f \in [1 .. n -> S] : IsInjective(f)
  BY <1>1 DEF ExistsBijection, Bijection, Injection
<1>3. PICK list : list = SetToSeq(S)
  OBVIOUS
<1>4. list \in Injection(1 .. n, S)
  BY <1>2, <1>3 DEF SetToSeq, Injection
<1>5. IsFiniteSet(1 .. n) /\ Cardinality(1 .. n) = n
  <2>1. Cardinality(1 .. n) = IF 1 > n THEN 0 ELSE n - 1 + 1
    BY <1>1, FS_Interval
  <2> QED BY <1>1, <2>1, FS_Interval
<1>6. list \in Surjection(1 .. n, S)
  BY <1>4, <1>5, FS_Injection
<1> HIDE DEF n
<1>7. list \in [1 .. n -> S] /\ IsInjective(list)
  BY <1>4 DEF Injection
<1>8. list \in Seq(S) /\ DOMAIN list = 1 .. n
  BY <1>1, <1>7
<1>9. \A x : InList(list, x) <=> x \in S
  BY <1>6, <1>7, <1>8 DEF Surjection, InList
<1> QED BY <1>3, <1>7, <1>8, <1>9 DEF Once, IsInjective

\* A sequence has finitely many members.
LEMMA MembersFinite ==
  ASSUME NEW S, NEW list \in Seq(S)
  PROVE  IsFiniteSet(ToSet(list))
<1>1. Len(list) \in Nat /\ list \in [1 .. Len(list) -> S] /\ DOMAIN list = 1 .. Len(list)
  OBVIOUS
<1>2. IsFiniteSet(1 .. Len(list))
  BY <1>1, FS_Interval
<1>3. list \in Surjection(1 .. Len(list), ToSet(list))
  BY <1>1 DEF Surjection, ToSet
<1> QED BY <1>2, <1>3, FS_Surjection

-----------------------------------------------------------------------------
(* The registry of quirks: its lists are what is registered, in order.     *)

Pair(q, k) == [quirk |-> q, key |-> k]

RegistrationsOK ==
  registrations \in Seq(AllOf(FirstQuirks \cup SecondQuirks)) /\ Once(registrations)

\* The list of a pair: quirks of version 1 that are registered for it, the latest first.
ListedOK ==
  /\ listed \in [Keys -> Seq(FirstQuirks)]
  /\ \A k \in Keys : Once(listed[k])
  /\ \A k \in Keys : \A q \in FirstQuirks :
       InList(listed[k], q) <=> InList(registrations, Pair(q, k))
  /\ \A k \in Keys : \A p, q \in FirstQuirks :
       Ahead(listed[k], p, q) => Ahead(registrations, Pair(p, k), Pair(q, k))

\* The set of a device: quirks of version 2 that are registered for it.
EntriesOK ==
  /\ entries \in [Models -> SUBSET SecondQuirks]
  /\ \A d \in Models : \A q \in SecondQuirks :
       q \in entries[d] <=> InList(registrations, Pair(q, d))

\* A quirk of version 1 is registered for all of its pairs or for none.
WholeOK ==
  \A q \in FirstQuirks : \A j, k \in ModelsOf(q) :
    InList(registrations, Pair(q, j)) => InList(registrations, Pair(q, k))

RegistryInv == RegistrationsOK /\ ListedOK /\ EntriesOK /\ WholeOK

\* Different quirks or pairs are different registrations.
LEMMA PairsOf ==
  /\ \A p, q, j, k : Pair(p, j) = Pair(q, k) <=> p = q /\ j = k
  /\ \A quirks, q, k : Pair(q, k) \in AllOf(quirks) <=> q \in quirks /\ k \in ModelsOf(q)
  /\ \A quirks : \A r \in AllOf(quirks) : r = Pair(r.quirk, r.key)
<1>1. \A p, q, j, k : Pair(p, j) = Pair(q, k) <=> p = q /\ j = k
  BY DEF Pair
<1>2. ASSUME NEW quirks, NEW q, NEW k
      PROVE  Pair(q, k) \in AllOf(quirks) <=> q \in quirks /\ k \in ModelsOf(q)
  <2>1. Pair(q, k) \in AllOf(quirks) <=> \E p \in quirks : \E j \in ModelsOf(p) : Pair(q, k) = Pair(p, j)
    <3>1. \A r : r \in AllOf(quirks) <=> \E p \in quirks : r \in {Pair(p, j) : j \in ModelsOf(p)}
      BY Zenon DEF AllOf, Pair
    <3> HIDE DEF Pair
    <3> QED BY <3>1
  <2> HIDE DEF Pair
  <2> QED BY <1>1, <2>1
<1>3. ASSUME NEW quirks, NEW r \in AllOf(quirks) PROVE r = Pair(r.quirk, r.key)
  BY <1>3 DEF AllOf, Pair
<1> QED BY <1>1, <1>2, <1>3

\* A quirk that fits pairs, and its first one.
LEMMA QuirkModels ==
  ASSUME NEW q \in FirstQuirks \cup SecondQuirks
  PROVE  /\ IsFiniteSet(ModelsOf(q)) /\ q.models[1] \in ModelsOf(q)
         /\ q \in FirstQuirks => ModelsOf(q) \subseteq Keys
<1>1. q.models \in Seq(ModelsOf(q)) /\ q.models # <<>>
  BY QuirksAreForModels
<1>2. IsFiniteSet(ToSet(q.models))
  BY <1>1, MembersFinite
<1>3. 1 \in DOMAIN q.models
  BY <1>1
<1> QED BY <1>2, <1>3 DEF ModelsOf, ToSet, Keys

\* What a registration adds, in front of what was there.
LEMMA RegisteredFirst ==
  ASSUME RegistrationsOK, NEW q \in FirstQuirks \cup SecondQuirks, Registered(q)
  PROVE  /\ RegistrationsOK'
         /\ \A x : InList(registrations', x) <=> InList(registrations, x) \/ x \in AllOf({q})
         /\ \A x, y : Ahead(registrations, x, y) => Ahead(registrations', x, y)
         /\ \A x, y : x \in AllOf({q}) /\ ~InList(registrations, x) /\ InList(registrations, y)
                        => Ahead(registrations', x, y)
<1> DEFINE all == AllOf(FirstQuirks \cup SecondQuirks)
           new == AllOf({q}) \ ToSet(registrations)
<1>1. IsFiniteSet(new)
  <2>1. IsFiniteSet(ModelsOf(q))
    BY QuirkModels
  <2> DEFINE f == [k \in ModelsOf(q) |-> Pair(q, k)]
  <2>2. AllOf({q}) = {Pair(q, k) : k \in ModelsOf(q)}
    BY DEF AllOf, Pair
  <2>3. f \in Surjection(ModelsOf(q), AllOf({q}))
    BY <2>2 DEF Surjection
  <2>4. IsFiniteSet(AllOf({q}))
    BY <2>1, <2>3, FS_Surjection
  <2> QED BY <2>4, FS_Subset
<1>2. PICK front : front = SetToSeq(new)
  OBVIOUS
<1>3. front \in Seq(new) /\ Once(front) /\ \A x : InList(front, x) <=> x \in new
  BY <1>1, <1>2, ListedOnce
<1>4. \A x : InList(registrations, x) <=> x \in ToSet(registrations)
  BY DEF InList, ToSet
<1>5. registrations \in Seq(all) /\ Once(registrations)
  BY DEF RegistrationsOK
<1>6. front \in Seq(all)
  <2>1. new \subseteq all
    BY DEF AllOf
  <2> HIDE DEF new, all
  <2> QED BY <1>3, <2>1
<1>7. \A x : ~(InList(front, x) /\ InList(registrations, x))
  BY <1>3, <1>4
<1>8. registrations' = front \o registrations
  BY <1>2 DEF Registered
<1> HIDE DEF all
<1>9. /\ front \o registrations \in Seq(all) /\ Once(front \o registrations)
      /\ \A x : InList(front \o registrations, x) <=> InList(front, x) \/ InList(registrations, x)
      /\ \A x, y : Ahead(front \o registrations, x, y) <=>
           \/ Ahead(front, x, y) \/ Ahead(registrations, x, y)
           \/ InList(front, x) /\ InList(registrations, y)
  BY <1>3, <1>5, <1>6, <1>7, Concatenated
<1>10. RegistrationsOK'
  BY <1>8, <1>9 DEF RegistrationsOK, all
<1> QED BY <1>3, <1>4, <1>8, <1>9, <1>10

\* What a removal leaves.
LEMMA RegisteredWithout ==
  ASSUME RegistrationsOK, NEW gone, registrations' = Without(registrations, gone)
  PROVE  /\ RegistrationsOK'
         /\ \A x : InList(registrations', x) <=> InList(registrations, x) /\ x \notin gone
         /\ \A x, y : Ahead(registrations', x, y) <=>
              Ahead(registrations, x, y) /\ x \notin gone /\ y \notin gone
BY WithoutOf DEF RegistrationsOK

\* What a quirk of version 1 adds to a list.
LEMMA AddedTo ==
  ASSUME NEW list \in Seq(FirstQuirks), Once(list), NEW q \in FirstQuirks
  PROVE  /\ Added(q, list) \in Seq(FirstQuirks) /\ Once(Added(q, list))
         /\ \A x : InList(Added(q, list), x) <=> InList(list, x) \/ x = q
         /\ \A x, y : Ahead(Added(q, list), x, y) =>
              Ahead(list, x, y) \/ (x = q /\ ~InList(list, q) /\ InList(list, y))
<1>1. Contains(list, q) <=> InList(list, q)
  BY DEF Contains, InList
<1>2. CASE Contains(list, q)
  BY <1>1, <1>2 DEF Added
<1>3. CASE ~Contains(list, q)
  <2>1. PICK first : first = <<q>>
    OBVIOUS
  <2>2. first \in Seq(FirstQuirks) /\ DOMAIN first = {1} /\ first[1] = q
    BY <2>1
  <2>3. Once(first) /\ (\A x : InList(first, x) <=> x = q) /\ (\A x, y : ~Ahead(first, x, y))
    BY <2>2 DEF Once, InList, Ahead
  <2>4. Added(q, list) = first \o list
    BY <1>3, <2>1 DEF Added
  <2>5. \A x : ~(InList(first, x) /\ InList(list, x))
    BY <1>1, <1>3, <2>3
  <2>6. /\ first \o list \in Seq(FirstQuirks) /\ Once(first \o list)
        /\ \A x : InList(first \o list, x) <=> InList(first, x) \/ InList(list, x)
        /\ \A x, y : Ahead(first \o list, x, y) <=>
             Ahead(first, x, y) \/ Ahead(list, x, y) \/ (InList(first, x) /\ InList(list, y))
    BY <2>2, <2>3, <2>5, Concatenated
  <2> QED BY <1>1, <1>3, <2>3, <2>4, <2>6
<1> QED BY <1>2, <1>3

-----------------------------------------------------------------------------
(* Every step of the registry.                                             *)

\* A registry without quirks is in order.
LEMMA RegistryStarts == QuirksInit => RegistryInv
<1> SUFFICES ASSUME QuirksInit PROVE RegistryInv
  OBVIOUS
<1>1. DOMAIN <<>> = {} /\ \A S : <<>> \in Seq(S)
  OBVIOUS
<1>2. \A x, y : ~InList(<<>>, x) /\ ~Ahead(<<>>, x, y)
  BY <1>1 DEF InList, Ahead
<1>3. Once(<<>>)
  BY <1>1 DEF Once
<1> QED BY <1>1, <1>2, <1>3 DEF QuirksInit, RegistryInv, RegistrationsOK, ListedOK, EntriesOK, WholeOK

\* add_to_registry() of a v1 quirk puts its new pairs at the end, all of them at once.
LEMMA RegisterFirst ==
  ASSUME RegistryInv, NEW q \in FirstQuirks, AddToRegistry(q)
  PROVE  RegistryInv'
<1>0. /\ RegistrationsOK' /\ RegistrationsOK
      /\ \A x : InList(registrations', x) <=> InList(registrations, x) \/ x \in AllOf({q})
      /\ \A x, y : Ahead(registrations, x, y) => Ahead(registrations', x, y)
      /\ \A x, y : x \in AllOf({q}) /\ ~InList(registrations, x) /\ InList(registrations, y)
                     => Ahead(registrations', x, y)
  BY RegisteredFirst DEF AddToRegistry, RegistryInv
<1>1. \A p, k : Pair(p, k) \in AllOf({q}) <=> p = q /\ k \in ModelsOf(q)
  BY PairsOf
<1>2. ListedOK'
  <2>1. listed' = [k \in Keys |-> IF k \in ModelsOf(q) THEN Added(q, listed[k]) ELSE listed[k]]
    BY DEF AddToRegistry
  <2>2. ASSUME NEW k \in Keys
        PROVE  /\ listed'[k] \in Seq(FirstQuirks) /\ Once(listed'[k])
               /\ \A p \in FirstQuirks :
                    InList(listed'[k], p) <=> InList(registrations', Pair(p, k))
               /\ \A p, r \in FirstQuirks :
                    Ahead(listed'[k], p, r) => Ahead(registrations', Pair(p, k), Pair(r, k))
    <3>1. PICK list : list = listed[k]
      OBVIOUS
    <3>2. /\ list \in Seq(FirstQuirks) /\ Once(list)
          /\ \A p \in FirstQuirks : InList(list, p) <=> InList(registrations, Pair(p, k))
          /\ \A p, r \in FirstQuirks :
               Ahead(list, p, r) => Ahead(registrations, Pair(p, k), Pair(r, k))
      BY <3>1 DEF RegistryInv, ListedOK
    <3>3. CASE k \notin ModelsOf(q)
      <4>1. listed'[k] = list
        BY <2>1, <3>1, <3>3
      <4> QED BY <1>0, <1>1, <3>2, <3>3, <4>1
    <3>4. CASE k \in ModelsOf(q)
      <4>1. listed'[k] = Added(q, list)
        BY <2>1, <3>1, <3>4
      <4>2. /\ Added(q, list) \in Seq(FirstQuirks) /\ Once(Added(q, list))
            /\ \A x : InList(Added(q, list), x) <=> InList(list, x) \/ x = q
            /\ \A x, y : Ahead(Added(q, list), x, y) =>
                 Ahead(list, x, y) \/ (x = q /\ ~InList(list, q) /\ InList(list, y))
        BY <3>2, AddedTo
      <4>3. \A p \in FirstQuirks : InList(listed'[k], p) <=> InList(registrations', Pair(p, k))
        <5>1. ASSUME NEW p \in FirstQuirks
              PROVE  InList(listed'[k], p) <=> InList(registrations', Pair(p, k))
          <6>1. InList(listed'[k], p) <=> InList(registrations, Pair(p, k)) \/ p = q
            BY <3>2, <4>1, <4>2
          <6>2. InList(registrations', Pair(p, k)) <=> InList(registrations, Pair(p, k)) \/ p = q
            BY <1>0, <1>1, <3>4
          <6> QED BY <6>1, <6>2
        <5> QED BY <5>1
      <4>4. \A p, r \in FirstQuirks :
              Ahead(listed'[k], p, r) => Ahead(registrations', Pair(p, k), Pair(r, k))
        BY <1>0, <1>1, <3>2, <3>4, <4>1, <4>2
      <4> QED BY <4>1, <4>2, <4>3, <4>4
    <3> QED BY <3>3, <3>4
  <2> QED BY <2>1, <2>2 DEF ListedOK
<1>3. EntriesOK'
  <2>1. entries' = entries /\ \A p \in SecondQuirks : p # q
    BY QuirksAreForModels DEF AddToRegistry
  <2> QED BY <1>0, <1>1, <2>1 DEF RegistryInv, EntriesOK
<1>4. WholeOK'
  BY <1>0, <1>1 DEF RegistryInv, WholeOK
<1> QED BY <1>0, <1>2, <1>3, <1>4 DEF RegistryInv

\* add_to_registry() of a v2 quirk adds its pairs to the sets of its models.
LEMMA RegisterSecond ==
  ASSUME RegistryInv, NEW q \in SecondQuirks, AddToRegistryV2(q)
  PROVE  RegistryInv'
<1>0. /\ RegistrationsOK' /\ RegistrationsOK
      /\ \A x : InList(registrations', x) <=> InList(registrations, x) \/ x \in AllOf({q})
      /\ \A x, y : Ahead(registrations, x, y) => Ahead(registrations', x, y)
  BY RegisteredFirst DEF AddToRegistryV2, RegistryInv
<1>1. \A p, k : Pair(p, k) \in AllOf({q}) <=> p = q /\ k \in ModelsOf(q)
  BY PairsOf
<1>2. \A p \in FirstQuirks : p # q
  BY QuirksAreForModels
<1>3. ListedOK'
  <2>1. listed' = listed
    BY DEF AddToRegistryV2
  <2> QED BY <1>0, <1>1, <1>2, <2>1 DEF RegistryInv, ListedOK
<1>4. EntriesOK'
  <2>1. entries' = [d \in Models |-> entries[d] \cup (IF d \in ModelsOf(q) THEN {q} ELSE {})]
    BY DEF AddToRegistryV2
  <2>2. entries' \in [Models -> SUBSET SecondQuirks]
    BY <2>1 DEF RegistryInv, EntriesOK
  <2>3. ASSUME NEW d \in Models, NEW p \in SecondQuirks
        PROVE  p \in entries'[d] <=> InList(registrations', Pair(p, d))
    <3>1. p \in entries[d] <=> InList(registrations, Pair(p, d))
      BY DEF RegistryInv, EntriesOK
    <3>2. p \in entries'[d] <=> p \in entries[d] \/ (p = q /\ d \in ModelsOf(q))
      BY <2>1
    <3> QED BY <1>0, <1>1, <3>1, <3>2
  <2> QED BY <2>2, <2>3 DEF EntriesOK
<1>5. WholeOK'
  BY <1>0, <1>1, <1>2 DEF RegistryInv, WholeOK
<1> QED BY <1>0, <1>3, <1>4, <1>5 DEF RegistryInv

\* What is gone from the registrations is gone from the lists.
LEMMA ListsFollow ==
  ASSUME ListedOK, NEW gone, NEW quirks,
         \A x : InList(registrations', x) <=> InList(registrations, x) /\ x \notin gone,
         \A x, y : Ahead(registrations', x, y) <=>
            Ahead(registrations, x, y) /\ x \notin gone /\ y \notin gone,
         NEW k \in Keys, NEW list,
         list = Without(listed[k], quirks),
         \A p \in FirstQuirks : Pair(p, k) \in gone => p \in quirks,
         \A p \in FirstQuirks : InList(registrations, Pair(p, k)) /\ p \in quirks
                                  => Pair(p, k) \in gone
  PROVE  /\ list \in Seq(FirstQuirks) /\ Once(list)
         /\ \A p \in FirstQuirks : InList(list, p) <=> InList(registrations', Pair(p, k))
         /\ \A p, r \in FirstQuirks :
              Ahead(list, p, r) => Ahead(registrations', Pair(p, k), Pair(r, k))
<1>1. PICK old : old = listed[k]
  OBVIOUS
<1>2. /\ old \in Seq(FirstQuirks) /\ Once(old)
      /\ \A p \in FirstQuirks : InList(old, p) <=> InList(registrations, Pair(p, k))
      /\ \A p, r \in FirstQuirks :
           Ahead(old, p, r) => Ahead(registrations, Pair(p, k), Pair(r, k))
  BY <1>1 DEF ListedOK
<1>3. /\ list \in Seq(FirstQuirks) /\ Once(list)
      /\ \A x : InList(list, x) <=> InList(old, x) /\ x \notin quirks
      /\ \A x, y : Ahead(list, x, y) <=> Ahead(old, x, y) /\ x \notin quirks /\ y \notin quirks
  BY <1>1, <1>2, WithoutOf
<1>4. \A p \in FirstQuirks : InList(list, p) <=> InList(registrations', Pair(p, k))
  BY <1>2, <1>3
<1>5. \A p, r \in FirstQuirks :
        Ahead(list, p, r) => Ahead(registrations', Pair(p, k), Pair(r, k))
  BY <1>2, <1>3
<1> QED BY <1>3, <1>4, <1>5

\* remove_from_registry() of a v1 quirk takes out all of its pairs and no others.
LEMMA UnregisterFirst ==
  ASSUME RegistryInv, NEW q \in FirstQuirks, RemoveFromRegistry(q)
  PROVE  RegistryInv'
<1> DEFINE gone == AllOf({q})
<1>0. /\ RegistrationsOK'
      /\ \A x : InList(registrations', x) <=> InList(registrations, x) /\ x \notin gone
      /\ \A x, y : Ahead(registrations', x, y) <=>
           Ahead(registrations, x, y) /\ x \notin gone /\ y \notin gone
  BY RegisteredWithout DEF RemoveFromRegistry, RegistryInv
<1>1. \A p, k : Pair(p, k) \in gone <=> p = q /\ k \in ModelsOf(q)
  BY PairsOf
<1> HIDE DEF gone
<1>2. ListedOK'
  <2>1. listed' = [k \in Keys |-> IF k \in ModelsOf(q) THEN Without(listed[k], {q}) ELSE listed[k]]
    BY DEF RemoveFromRegistry
  <2>2. ASSUME NEW k \in Keys
        PROVE  /\ listed'[k] \in Seq(FirstQuirks) /\ Once(listed'[k])
               /\ \A p \in FirstQuirks :
                    InList(listed'[k], p) <=> InList(registrations', Pair(p, k))
               /\ \A p, r \in FirstQuirks :
                    Ahead(listed'[k], p, r) => Ahead(registrations', Pair(p, k), Pair(r, k))
    <3>1. CASE k \in ModelsOf(q)
      <4>1. listed'[k] = Without(listed[k], {q})
        BY <2>1, <3>1
      <4>2. \A p \in FirstQuirks : (Pair(p, k) \in gone => p \in {q}) /\ (p \in {q} => Pair(p, k) \in gone)
        BY <1>1, <3>1
      <4> QED BY <1>0, <4>1, <4>2, ListsFollow DEF RegistryInv
    <3>2. CASE k \notin ModelsOf(q)
      <4>1. listed'[k] = listed[k]
        BY <2>1, <3>2
      <4>2. \A p : Pair(p, k) \notin gone
        BY <1>1, <3>2
      <4> QED BY <1>0, <4>1, <4>2 DEF RegistryInv, ListedOK
    <3> QED BY <3>1, <3>2
  <2> QED BY <2>1, <2>2 DEF ListedOK
<1>3. EntriesOK'
  <2>1. entries' = entries /\ \A p \in SecondQuirks : p # q
    BY QuirksAreForModels DEF RemoveFromRegistry
  <2> QED BY <1>0, <1>1, <2>1 DEF RegistryInv, EntriesOK
<1>4. WholeOK'
  BY <1>0, <1>1 DEF RegistryInv, WholeOK
<1> QED BY <1>0, <1>2, <1>3, <1>4 DEF RegistryInv

\* remove() of a v2 quirk takes out one pair, the one that the lookup has found.
LEMMA UnregisterSecond ==
  ASSUME RegistryInv, NEW d \in Models, RemoveFromRegistryV2(d)
  PROVE  RegistryInv'
<1>1. PICK q \in SecondQuirks :
        /\ entries' = [entries EXCEPT ![d] = @ \ {q}]
        /\ registrations' = Without(registrations, {Pair(q, d)})
        /\ listed' = listed
  BY DEF RemoveFromRegistryV2, Pair
<1> DEFINE gone == {Pair(q, d)}
<1>2. /\ RegistrationsOK'
      /\ \A x : InList(registrations', x) <=> InList(registrations, x) /\ x \notin gone
      /\ \A x, y : Ahead(registrations', x, y) <=>
           Ahead(registrations, x, y) /\ x \notin gone /\ y \notin gone
  BY <1>1, RegisteredWithout DEF RegistryInv
<1>3. \A p, k : Pair(p, k) \in gone <=> p = q /\ k = d
  BY PairsOf
<1> HIDE DEF gone
<1>4. \A p \in FirstQuirks : p # q
  BY QuirksAreForModels
<1>5. ListedOK'
  BY <1>1, <1>2, <1>3, <1>4 DEF RegistryInv, ListedOK
<1>6. EntriesOK'
  <2>1. entries' \in [Models -> SUBSET SecondQuirks]
    BY <1>1 DEF RegistryInv, EntriesOK
  <2>2. ASSUME NEW c \in Models, NEW p \in SecondQuirks
        PROVE  p \in entries'[c] <=> InList(registrations', Pair(p, c))
    <3>1. p \in entries[c] <=> InList(registrations, Pair(p, c))
      BY DEF RegistryInv, EntriesOK
    <3>2. p \in entries'[c] <=> p \in entries[c] /\ ~(p = q /\ c = d)
      BY <1>1 DEF RegistryInv, EntriesOK
    <3> QED BY <1>2, <1>3, <3>1, <3>2
  <2> QED BY <2>1, <2>2 DEF EntriesOK
<1>7. WholeOK'
  BY <1>2, <1>3, <1>4 DEF RegistryInv, WholeOK
<1> QED BY <1>2, <1>5, <1>6, <1>7 DEF RegistryInv

\* purge_custom_quirks() takes out what is custom, v1 and v2.
LEMMA PurgeCustom ==
  ASSUME RegistryInv, PurgeCustomQuirks
  PROVE  RegistryInv'
<1> DEFINE gone == AllOf(Customs)
<1>0. /\ RegistrationsOK'
      /\ \A x : InList(registrations', x) <=> InList(registrations, x) /\ x \notin gone
      /\ \A x, y : Ahead(registrations', x, y) <=>
           Ahead(registrations, x, y) /\ x \notin gone /\ y \notin gone
  BY RegisteredWithout DEF PurgeCustomQuirks, RegistryInv
<1>1. \A p, k : Pair(p, k) \in gone <=> p \in Customs /\ k \in ModelsOf(p)
  BY PairsOf
<1>2. \A p, k : InList(registrations, Pair(p, k)) => k \in ModelsOf(p)
  <2>1. \A x : InList(registrations, x) => x \in AllOf(FirstQuirks \cup SecondQuirks)
    BY DEF InList, RegistryInv, RegistrationsOK
  <2> QED BY <2>1, PairsOf
<1> HIDE DEF gone
<1>3. ListedOK'
  <2>1. listed' = [k \in Keys |-> Without(listed[k], Customs)]
    BY DEF PurgeCustomQuirks
  <2>2. ASSUME NEW k \in Keys
        PROVE  /\ listed'[k] \in Seq(FirstQuirks) /\ Once(listed'[k])
               /\ \A p \in FirstQuirks :
                    InList(listed'[k], p) <=> InList(registrations', Pair(p, k))
               /\ \A p, r \in FirstQuirks :
                    Ahead(listed'[k], p, r) => Ahead(registrations', Pair(p, k), Pair(r, k))
    <3>1. listed'[k] = Without(listed[k], Customs)
      BY <2>1
    <3>2. \A p \in FirstQuirks :
            /\ Pair(p, k) \in gone => p \in Customs
            /\ InList(registrations, Pair(p, k)) /\ p \in Customs => Pair(p, k) \in gone
      BY <1>1, <1>2
    <3> QED BY <1>0, <3>1, <3>2, ListsFollow DEF RegistryInv
  <2> QED BY <2>1, <2>2 DEF ListedOK
<1>4. EntriesOK'
  <2>1. entries' = [d \in Models |-> entries[d] \ Customs]
    BY DEF PurgeCustomQuirks
  <2>2. entries' \in [Models -> SUBSET SecondQuirks]
    BY <2>1 DEF RegistryInv, EntriesOK
  <2>3. ASSUME NEW c \in Models, NEW p \in SecondQuirks
        PROVE  p \in entries'[c] <=> InList(registrations', Pair(p, c))
    <3>1. p \in entries[c] <=> InList(registrations, Pair(p, c))
      BY DEF RegistryInv, EntriesOK
    <3>2. p \in entries'[c] <=> p \in entries[c] /\ p \notin Customs
      BY <2>1
    <3> QED BY <1>0, <1>1, <1>2, <3>1, <3>2
  <2> QED BY <2>2, <2>3 DEF EntriesOK
<1>5. WholeOK'
  BY <1>0, <1>1 DEF RegistryInv, WholeOK
<1> QED BY <1>0, <1>3, <1>4, <1>5 DEF RegistryInv

\* No step of the registry takes it out of order.
LEMMA RegistrySteps == RegistryInv /\ [QuirksNext]_quirkVars => RegistryInv'
<1> SUFFICES ASSUME RegistryInv, [QuirksNext]_quirkVars PROVE RegistryInv'
  OBVIOUS
<1>1. CASE UNCHANGED quirkVars
  BY <1>1 DEF quirkVars, RegistryInv, RegistrationsOK, ListedOK, EntriesOK, WholeOK
<1>2. CASE QuirksNext
  BY <1>2, RegisterFirst, RegisterSecond, UnregisterFirst, UnregisterSecond, PurgeCustom DEF QuirksNext
<1> QED BY <1>1, <1>2

-----------------------------------------------------------------------------
(* What a device is given.                                                 *)

\* Which registrations For means.
LEMMA ForPairs ==
  ASSUME RegistrationsOK, NEW d, NEW quirks, NEW k
  PROVE  /\ \A i \in For(d, quirks, k) :
              /\ i \in DOMAIN registrations /\ i \in Nat
              /\ registrations[i].quirk \in quirks /\ d \in registrations[i].quirk.fits
              /\ registrations[i] = Pair(registrations[i].quirk, k)
         /\ \A q \in quirks : \A i \in DOMAIN registrations :
              registrations[i] = Pair(q, k) /\ d \in q.fits => i \in For(d, quirks, k)
<1>1. ASSUME NEW i \in For(d, quirks, k)
      PROVE  /\ i \in DOMAIN registrations /\ i \in Nat
             /\ registrations[i].quirk \in quirks /\ d \in registrations[i].quirk.fits
             /\ registrations[i] = Pair(registrations[i].quirk, k)
  <2>1. /\ i \in DOMAIN registrations
        /\ registrations[i].quirk \in quirks /\ d \in registrations[i].quirk.fits
        /\ registrations[i].key = k
    BY DEF For
  <2>2. i \in Nat /\ registrations[i] \in AllOf(FirstQuirks \cup SecondQuirks)
    BY <2>1 DEF RegistrationsOK
  <2>3. registrations[i] = Pair(registrations[i].quirk, registrations[i].key)
    BY <2>2, PairsOf
  <2> QED BY <2>1, <2>2, <2>3
<1>2. ASSUME NEW q \in quirks, NEW i \in DOMAIN registrations,
             registrations[i] = Pair(q, k), d \in q.fits
      PROVE  i \in For(d, quirks, k)
  <2>1. registrations[i].quirk = q /\ registrations[i].key = k
    BY <1>2 DEF Pair
  <2> QED BY <1>2, <2>1 DEF For
<1> QED BY <1>1, <1>2

\* A list of the chain has a quirk that fits if one is registered for its pair.
LEMMA ChainIsRegistered ==
  ASSUME RegistryInv, NEW d, NEW n \in 1 .. 4
  PROVE  (\E i : <<n, i>> \in Fitting(d)) <=> For(d, FirstQuirks, Pairs(d)[n]) # {}
<1>1. PICK k : k = Pairs(d)[n]
  OBVIOUS
<1>2. \A i : <<n, i>> \in Fitting(d) <=> i \in DOMAIN Listed(d, n) /\ d \in Listed(d, n)[i].fits
  BY DEF Fitting
<1>3. ASSUME NEW i, <<n, i>> \in Fitting(d) PROVE For(d, FirstQuirks, k) # {}
  <2>1. i \in DOMAIN Listed(d, n) /\ d \in Listed(d, n)[i].fits
    BY <1>2, <1>3
  <2>2. k \in Keys /\ Listed(d, n) = listed[k]
    <3>1. DOMAIN <<>> = {}
      OBVIOUS
    <3> QED BY <1>1, <2>1, <3>1 DEF Listed
  <2>3. PICK q \in FirstQuirks : q = listed[k][i]
    BY <2>1, <2>2 DEF RegistryInv, ListedOK
  <2>4. InList(listed[k], q)
    BY <2>1, <2>2, <2>3 DEF InList
  <2>5. InList(registrations, Pair(q, k))
    BY <2>2, <2>4 DEF RegistryInv, ListedOK
  <2> QED BY <2>1, <2>2, <2>3, <2>5, ForPairs DEF RegistryInv, InList
<1>4. ASSUME For(d, FirstQuirks, k) # {} PROVE \E i : <<n, i>> \in Fitting(d)
  <2>1. PICK a : a \in For(d, FirstQuirks, k)
    BY <1>4
  <2>2. PICK q \in FirstQuirks : d \in q.fits /\ registrations[a] = Pair(q, k) /\ a \in DOMAIN registrations
    BY <2>1, ForPairs DEF RegistryInv
  <2>3. InList(registrations, Pair(q, k))
    BY <2>2 DEF InList
  <2>4. k \in Keys
    <3>1. Pair(q, k) \in AllOf(FirstQuirks \cup SecondQuirks)
      BY <2>2 DEF RegistryInv, RegistrationsOK
    <3>2. k \in ModelsOf(q)
      BY <3>1, PairsOf
    <3> QED BY <3>2, QuirkModels
  <2>5. InList(listed[k], q)
    BY <2>3, <2>4 DEF RegistryInv, ListedOK
  <2>6. PICK i \in DOMAIN listed[k] : listed[k][i] = q
    BY <2>5 DEF InList
  <2> QED BY <1>1, <1>2, <2>2, <2>4, <2>6 DEF Listed
<1> QED BY <1>1, <1>3, <1>4

\* The first of a list that fits is the latest that is registered for its pair.
LEMMA ChainIsLatest ==
  ASSUME RegistryInv, NEW d, NEW n \in 1 .. 4, NEW i, <<n, i>> \in Fitting(d),
         \A j : <<n, j>> \in Fitting(d) => ~(j < i)
  PROVE  \E a \in For(d, FirstQuirks, Pairs(d)[n]) :
           /\ registrations[a].quirk = Listed(d, n)[i]
           /\ \A b \in For(d, FirstQuirks, Pairs(d)[n]) : a <= b
<1>1. PICK k : k = Pairs(d)[n]
  OBVIOUS
<1>2. \A j : <<n, j>> \in Fitting(d) <=> j \in DOMAIN Listed(d, n) /\ d \in Listed(d, n)[j].fits
  BY DEF Fitting
<1>3. PICK list : list = listed[k]
  OBVIOUS
<1>4. k \in Keys /\ Listed(d, n) = list
  <2>1. DOMAIN <<>> = {}
    OBVIOUS
  <2> QED BY <1>1, <1>2, <1>3, <2>1 DEF Listed
<1>5. /\ list \in Seq(FirstQuirks) /\ Once(list)
      /\ \A q \in FirstQuirks : InList(list, q) <=> InList(registrations, Pair(q, k))
      /\ \A p, q \in FirstQuirks :
           Ahead(list, p, q) => Ahead(registrations, Pair(p, k), Pair(q, k))
  BY <1>3, <1>4 DEF RegistryInv, ListedOK
<1>6. i \in DOMAIN list /\ i \in Nat /\ d \in list[i].fits
  BY <1>2, <1>4, <1>5
<1>7. PICK q \in FirstQuirks : q = list[i]
  BY <1>5, <1>6
<1>8. PICK a \in DOMAIN registrations : registrations[a] = Pair(q, k)
  BY <1>5, <1>6, <1>7 DEF InList
<1>9. a \in For(d, FirstQuirks, k)
  BY <1>6, <1>7, <1>8, ForPairs DEF RegistryInv
<1>10. ASSUME NEW b \in For(d, FirstQuirks, k) PROVE a <= b
  <2>1. PICK r \in FirstQuirks :
          d \in r.fits /\ registrations[b] = Pair(r, k) /\ b \in DOMAIN registrations
    BY <1>10, ForPairs DEF RegistryInv
  <2>2. a \in Nat /\ b \in Nat
    BY <1>8, <2>1 DEF RegistryInv, RegistrationsOK
  <2>3. InList(list, r)
    BY <1>5, <2>1 DEF InList
  <2>4. PICK j \in DOMAIN list : list[j] = r
    BY <2>3 DEF InList
  <2>5. j \in Nat /\ ~(j < i)
    <3>1. j \in Nat
      BY <1>5
    <3>2. j \in DOMAIN Listed(d, n) /\ d \in Listed(d, n)[j].fits
      BY <1>4, <2>1, <2>4
    <3> QED BY <1>2, <3>1, <3>2
  <2>6. CASE i = j
    BY <1>7, <1>8, <2>1, <2>2, <2>4, <2>6 DEF RegistryInv, RegistrationsOK, Once
  <2>7. CASE i < j
    <3>1. Ahead(list, q, r)
      BY <1>6, <1>7, <2>4, <2>7 DEF Ahead
    <3>2. PICK e, f \in DOMAIN registrations :
            e < f /\ registrations[e] = Pair(q, k) /\ registrations[f] = Pair(r, k)
      BY <1>5, <3>1 DEF Ahead
    <3>3. e = a /\ f = b
      BY <1>8, <2>1, <3>2 DEF RegistryInv, RegistrationsOK, Once
    <3> QED BY <2>2, <3>2, <3>3
  <2> QED BY <1>6, <2>5, <2>6, <2>7
<1>11. registrations[a].quirk = q
  BY <1>8 DEF Pair
<1> QED BY <1>1, <1>4, <1>7, <1>9, <1>10, <1>11

\* Of the places in the chain one is the first.
LEMMA FirstPlace ==
  ASSUME RegistryInv, NEW d, Fitting(d) # {}
  PROVE  /\ FirstOf(Fitting(d)) \in Fitting(d)
         /\ \A b \in Fitting(d) : ~Earlier(b, FirstOf(Fitting(d)))
<1>1. ASSUME NEW c \in Fitting(d)
      PROVE  c = <<c[1], c[2]>> /\ c[1] \in 1 .. 4 /\ c[2] \in Nat
  <2>1. PICK n \in 1 .. 4 : \E i \in DOMAIN Listed(d, n) : c = <<n, i>>
    BY DEF Fitting
  <2>2. PICK i \in DOMAIN Listed(d, n) : c = <<n, i>>
    BY <2>1
  <2>3. PICK list : list = Listed(d, n)
    OBVIOUS
  <2>4. list \in Seq(FirstQuirks)
    <3>1. <<>> \in Seq(FirstQuirks)
      OBVIOUS
    <3> QED BY <2>3, <3>1 DEF Listed, RegistryInv, ListedOK
  <2>5. i \in Nat
    BY <2>2, <2>3, <2>4
  <2> QED BY <2>2, <2>5
<1> DEFINE F == Fitting(d)
           N == {n \in 1 .. 4 : \E c \in F : c[1] = n}
<1>2. N \subseteq Nat /\ N # {}
  BY <1>1
<1> HIDE DEF N
<1>3. PICK n \in N : \A m \in N : n <= m
  BY <1>2, LeastNumber
<1> DEFINE I == {i \in Nat : \E c \in F : c[1] = n /\ c[2] = i}
<1>4. I # {} /\ I \subseteq Nat
  BY <1>1 DEF N
<1> HIDE DEF I
<1>5. PICK i \in I : \A j \in I : i <= j
  BY <1>4, LeastNumber
<1>6. PICK c \in F : c[1] = n /\ c[2] = i
  BY <1>5 DEF I
<1>7. ASSUME NEW b \in F PROVE ~Earlier(b, c)
  <2>1. b[1] \in N /\ n <= b[1] /\ b[1] \in Nat /\ n \in Nat /\ b[2] \in Nat
    BY <1>1, <1>2, <1>3 DEF N
  <2>2. b[1] = n => b[2] \in I
    BY <1>1 DEF I
  <2>3. b[1] = n => i <= b[2]
    BY <1>5, <2>2
  <2>4. i \in Nat
    BY <1>4
  <2> QED BY <1>6, <2>1, <2>3, <2>4 DEF Earlier
<1> HIDE DEF F
<1>8. \E e \in F : \A b \in F : ~Earlier(b, e)
  BY <1>7
<1>9. FirstOf(F) \in F /\ \A b \in F : ~Earlier(b, FirstOf(F))
  BY <1>8 DEF FirstOf
<1> QED BY <1>9 DEF F

Matching(d) == {q \in entries[d] : d \in q.fits}

\* How many quirks of version 2 fit a device.
LEMMA SecondMatches ==
  ASSUME RegistryInv, NEW d \in Models
  PROVE  /\ Matching(d) = {} <=> For(d, SecondQuirks, d) = {}
         /\ Cardinality(Matching(d)) > 1 => \E i, j \in For(d, SecondQuirks, d) : i # j
         /\ Matching(d) # {} /\ ~(Cardinality(Matching(d)) > 1) =>
              \E i \in For(d, SecondQuirks, d) :
                /\ For(d, SecondQuirks, d) = {i}
                /\ (CHOOSE q \in Matching(d) : TRUE) = registrations[i].quirk
<1> DEFINE second == For(d, SecondQuirks, d)
<1>0. PICK matches : matches = Matching(d)
  OBVIOUS
<1>1. \A q : q \in matches <=> q \in SecondQuirks /\ InList(registrations, Pair(q, d)) /\ d \in q.fits
  BY <1>0 DEF RegistryInv, EntriesOK, Matching
<1>2. \A q \in matches : \E i \in second : registrations[i].quirk = q
  <2> SUFFICES ASSUME NEW q \in matches PROVE \E i \in second : registrations[i].quirk = q
    OBVIOUS
  <2>1. PICK i \in DOMAIN registrations : registrations[i] = Pair(q, d)
    BY <1>1 DEF InList
  <2>2. i \in second
    BY <1>1, <2>1, ForPairs DEF RegistryInv
  <2>3. registrations[i].quirk = q
    BY <2>1 DEF Pair
  <2> QED BY <2>2, <2>3
<1>3. \A i \in second : registrations[i].quirk \in matches
  <2> SUFFICES ASSUME NEW i \in second PROVE registrations[i].quirk \in matches
    OBVIOUS
  <2>1. /\ i \in DOMAIN registrations
        /\ registrations[i].quirk \in SecondQuirks /\ d \in registrations[i].quirk.fits
        /\ registrations[i] = Pair(registrations[i].quirk, d)
    BY ForPairs DEF RegistryInv
  <2> QED BY <1>1, <2>1 DEF InList
<1>4. \A i, j \in second : registrations[i].quirk = registrations[j].quirk => i = j
  <2> SUFFICES ASSUME NEW i \in second, NEW j \in second,
                      registrations[i].quirk = registrations[j].quirk
               PROVE  i = j
    OBVIOUS
  <2>1. /\ i \in DOMAIN registrations /\ j \in DOMAIN registrations
        /\ registrations[i] = registrations[j]
    BY ForPairs DEF RegistryInv
  <2> QED BY <2>1 DEF RegistryInv, RegistrationsOK, Once
<1> HIDE DEF second
<1>5. IsFiniteSet(matches)
  <2> DEFINE f == [i \in second |-> registrations[i].quirk]
  <2>1. f \in Surjection(second, matches)
    BY <1>2, <1>3 DEF Surjection
  <2>2. IsFiniteSet(DOMAIN registrations)
    <3>1. DOMAIN registrations = 1 .. Len(registrations) /\ Len(registrations) \in Nat
      BY DEF RegistryInv, RegistrationsOK
    <3> QED BY <3>1, FS_Interval
  <2>3. second \subseteq DOMAIN registrations
    BY ForPairs DEF second, RegistryInv
  <2>4. IsFiniteSet(second)
    BY <2>2, <2>3, FS_Subset
  <2> QED BY <2>1, <2>4, FS_Surjection
<1>6. matches = {} <=> second = {}
  BY <1>2, <1>3
<1>7. Cardinality(matches) \in Nat
  BY <1>5, FS_CardinalityType
<1>8. ASSUME matches # {}, NEW q \in matches, \A p \in matches : p = q
      PROVE  Cardinality(matches) = 1
  <2>1. matches = {q}
    BY <1>8
  <2> QED BY <2>1, FS_Singleton
<1>9. ASSUME Cardinality(matches) > 1 PROVE \E i, j \in second : i # j
  <2>1. matches # {}
    BY <1>9, FS_EmptySet
  <2>2. PICK p \in matches, q \in matches : p # q
    BY <1>8, <1>9, <2>1
  <2> QED BY <1>2, <2>2
<1>10. ASSUME matches # {}, ~(Cardinality(matches) > 1)
       PROVE  \E i \in second : /\ second = {i}
                                /\ (CHOOSE q \in matches : TRUE) = registrations[i].quirk
  <2>1. Cardinality(matches) # 0
    BY <1>5, <1>10, FS_EmptySet
  <2>2. Cardinality(matches) = 1
    BY <1>7, <1>10, <2>1
  <2>3. PICK q : matches = {q}
    BY <1>5, <2>2, FS_Singleton
  <2>4. PICK i \in second : registrations[i].quirk = q
    BY <1>2, <2>3
  <2>5. second = {i}
    BY <1>3, <1>4, <2>3, <2>4
  <2>6. (CHOOSE p \in matches : TRUE) = q
    BY <2>3
  <2> QED BY <2>4, <2>5, <2>6
<1> QED BY <1>0, <1>6, <1>9, <1>10 DEF second

\* The choice is the one of the property.
LEMMA ChoiceIsLatest ==
  ASSUME RegistryInv, NEW d \in Models
  PROVE  LET second == For(d, SecondQuirks, d)
             first(n) == For(d, FirstQuirks, Pairs(d)[n])
         IN \/ \E i, j \in second : i # j /\ GetDevice(d) = Ambiguous
            \/ \E i \in second : second = {i} /\ GetDevice(d) = registrations[i].quirk
            \/ second = {} /\ \E n \in 1 .. 4 : \E i \in first(n) :
                 /\ \A m \in 1 .. n - 1 : first(m) = {}
                 /\ \A j \in first(n) : i <= j
                 /\ GetDevice(d) = registrations[i].quirk
            \/ /\ second = {} /\ \A n \in 1 .. 4 : first(n) = {}
               /\ GetDevice(d) = Plain
<1> DEFINE second == For(d, SecondQuirks, d)
           first(n) == For(d, FirstQuirks, Pairs(d)[n])
           place == FirstOf(Fitting(d))
<1>1. PICK matches : matches = Matching(d)
  OBVIOUS
<1>2. GetDevice(d) = IF Cardinality(matches) > 1 THEN Ambiguous
                     ELSE IF matches # {} THEN CHOOSE q \in matches : TRUE
                     ELSE IF Fitting(d) # {} THEN Listed(d, place[1])[place[2]]
                     ELSE Plain
  BY <1>1 DEF GetDevice, Matching
<1>3. /\ matches = {} <=> second = {}
      /\ Cardinality(matches) > 1 => \E i, j \in second : i # j
      /\ matches # {} /\ ~(Cardinality(matches) > 1) =>
           \E i \in second : /\ second = {i}
                             /\ (CHOOSE q \in matches : TRUE) = registrations[i].quirk
  BY <1>1, SecondMatches
<1>4. \A n \in 1 .. 4 : (\E i : <<n, i>> \in Fitting(d)) <=> first(n) # {}
  BY ChainIsRegistered
<1>5. CASE Cardinality(matches) > 1
  BY <1>2, <1>3, <1>5
<1>6. CASE matches # {} /\ ~(Cardinality(matches) > 1)
  BY <1>2, <1>3, <1>6
<1>7. CASE matches = {}
  <2>1. ~(Cardinality(matches) > 1) /\ second = {}
    BY <1>3, <1>7, FS_EmptySet
  <2>2. CASE Fitting(d) = {}
    BY <1>2, <1>4, <1>7, <2>1, <2>2
  <2>3. CASE Fitting(d) # {}
    <3>1. /\ place \in Fitting(d)
          /\ \A b \in Fitting(d) : ~Earlier(b, place)
      BY <2>3, FirstPlace
    <3>2. PICK n \in 1 .. 4 : \E i : place = <<n, i>>
      BY <3>1 DEF Fitting
    <3>3. PICK i : place = <<n, i>>
      BY <3>2
    <3>4. GetDevice(d) = Listed(d, n)[i]
      BY <1>2, <1>7, <2>1, <2>3, <3>3
    <3> HIDE DEF place
    <3>5. \A j : <<n, j>> \in Fitting(d) => ~(j < i)
      BY <3>1, <3>3 DEF Earlier
    <3>6. PICK a \in first(n) : /\ registrations[a].quirk = Listed(d, n)[i]
                                /\ \A b \in first(n) : a <= b
      BY <3>1, <3>3, <3>5, ChainIsLatest
    <3>7. ASSUME NEW m \in 1 .. n - 1 PROVE first(m) = {}
      <4>1. m \in 1 .. 4 /\ m < n
        OBVIOUS
      <4>2. \A j : <<m, j>> \notin Fitting(d)
        BY <3>1, <3>3, <4>1 DEF Earlier
      <4> QED BY <1>4, <4>1, <4>2
    <3> HIDE DEF second, first
    <3>8. \E m \in 1 .. 4 : \E b \in first(m) :
            /\ \A l \in 1 .. m - 1 : first(l) = {}
            /\ \A j \in first(m) : b <= j
            /\ GetDevice(d) = registrations[b].quirk
      BY <3>4, <3>6, <3>7
    <3> QED BY <2>1, <3>8 DEF second, first
  <2> QED BY <2>2, <2>3
<1> QED BY <1>5, <1>6, <1>7

\* __contains__ finds a quirk by its first pair, since it is registered for all of them.
LEMMA ContainsRegistered ==
  ASSUME RegistryInv, NEW q \in FirstQuirks
  PROVE  IsContained(q) <=> \E r \in ToSet(registrations) : r.quirk = q
<1>1. \A k \in Keys : Contains(listed[k], q) <=> InList(registrations, Pair(q, k))
  <2> SUFFICES ASSUME NEW k \in Keys
               PROVE  Contains(listed[k], q) <=> InList(registrations, Pair(q, k))
    OBVIOUS
  <2>1. PICK list \in Seq(FirstQuirks) : list = listed[k]
    BY DEF RegistryInv, ListedOK
  <2>2. DOMAIN list = 1 .. Len(list)
    BY <2>1
  <2>3. Contains(list, q) <=> InList(list, q)
    BY <2>2 DEF Contains, InList
  <2> QED BY <2>1, <2>3 DEF RegistryInv, ListedOK
<1>2. q.models[1] \in ModelsOf(q) /\ ModelsOf(q) \subseteq Keys
  BY QuirkModels
<1>3. ASSUME IsContained(q) PROVE \E r \in ToSet(registrations) : r.quirk = q
  <2>1. PICK k \in Keys : Contains(listed[k], q)
    BY <1>3 DEF IsContained
  <2>2. PICK i \in DOMAIN registrations : registrations[i] = Pair(q, k)
    BY <1>1, <2>1 DEF InList
  <2> QED BY <2>2 DEF ToSet, Pair
<1>4. ASSUME NEW r \in ToSet(registrations), r.quirk = q PROVE IsContained(q)
  <2>1. r \in AllOf(FirstQuirks \cup SecondQuirks) /\ InList(registrations, r)
    BY DEF ToSet, InList, RegistryInv, RegistrationsOK
  <2>2. r = Pair(q, r.key)
    BY <1>4, <2>1, PairsOf
  <2>3. r.key \in ModelsOf(q)
    BY <2>1, <2>2, PairsOf
  <2>4. InList(registrations, Pair(q, q.models[1]))
    BY <1>2, <2>1, <2>2, <2>3 DEF RegistryInv, WholeOK
  <2> QED BY <1>1, <1>2, <2>4 DEF IsContained
<1> QED BY <1>3, <1>4

\* For any quirks and models, and whatever is registered, removed and purged in whatever
\* order: get_device gives a device the quirk that was registered for it last.
THEOREM QuirksTakePrecedence == QuirksSpec => []QuirkIsTheLatest
<1>1. RegistryInv => QuirkIsTheLatest
  BY ChoiceIsLatest, ContainsRegistered DEF QuirkIsTheLatest
<1> QED BY <1>1, RegistryStarts, RegistrySteps, PTL DEF QuirksSpec

-----------------------------------------------------------------------------
(* The custom device: what each kind of metadata does to a place.          *)

\* No metadata or one piece of it.
LEMMA OneAtMost ==
  ASSUME NEW S, NEW list \in UpToOne(S)
  PROVE  \/ list = <<>> /\ Len(list) = 0 /\ ToSet(list) = {}
         \/ \E x \in S : list = <<x>> /\ Len(list) = 1 /\ list[1] = x /\ ToSet(list) = {x}
<1>1. CASE list = <<>>
  <2>1. DOMAIN list = {} /\ Len(list) = 0
    BY <1>1
  <2> QED BY <1>1, <2>1 DEF ToSet
<1>2. CASE list # <<>>
  <2>1. PICK x \in S : list = <<x>>
    BY <1>2 DEF UpToOne
  <2>2. DOMAIN list = {1} /\ Len(list) = 1 /\ list[1] = x
    BY <2>1
  <2> QED BY <2>1, <2>2 DEF ToSet
<1> QED BY <1>1, <1>2

\* A list of at most one is gone through at once: whatever is done for it.
LEMMA EachAdds ==
  ASSUME NEW c, NEW S, NEW list \in UpToOne(S)
  PROVE  Each(Adds, c, list) = IF list = <<>> THEN c ELSE Adds(c, list[1])
<1> DEFINE Step(g) == [n \in 0 .. Len(list) |-> IF n = 0 THEN c ELSE Adds(g[n - 1], list[n])]
           F == CHOOSE g : g = Step(g)
           G == [n \in 0 .. Len(list) |-> IF n = 0 THEN c ELSE Adds(c, list[n])]
<1>1. Each(Adds, c, list) = F[Len(list)]
  BY DEF Each
<1>2. Len(list) \in {0, 1} /\ (Len(list) = 0 <=> list = <<>>)
  BY OneAtMost
<1>3. G = Step(G)
  <2>1. \A n \in 0 .. Len(list) : n # 0 => n - 1 = 0 /\ 0 \in 0 .. Len(list)
    BY <1>2
  <2> QED BY <2>1
<1>4. F = Step(F)
  BY <1>3
<1> HIDE DEF F, G
<1>5. F[0] = c /\ (Len(list) = 1 => F[1] = Adds(F[0], list[1]))
  <2>1. 0 \in 0 .. Len(list) /\ (Len(list) = 1 => 1 \in 0 .. Len(list)) /\ 1 - 1 = 0 /\ 1 # 0
    BY <1>2
  <2> QED BY <1>4, <2>1
<1> QED BY <1>1, <1>2, <1>5

\* The removed clusters, at most one of them, applied one after another.
LEMMA EachRemoves ==
  ASSUME NEW c, NEW S, NEW list \in UpToOne(S)
  PROVE  Each(RemovesCluster, c, list) = IF list = <<>> THEN c ELSE RemovesCluster(c, list[1])
<1> DEFINE Step(g) == [n \in 0 .. Len(list) |-> IF n = 0 THEN c ELSE RemovesCluster(g[n - 1], list[n])]
           F == CHOOSE g : g = Step(g)
           G == [n \in 0 .. Len(list) |-> IF n = 0 THEN c ELSE RemovesCluster(c, list[n])]
<1>1. Each(RemovesCluster, c, list) = F[Len(list)]
  BY DEF Each
<1>2. Len(list) \in {0, 1} /\ (Len(list) = 0 <=> list = <<>>)
  BY OneAtMost
<1>3. G = Step(G)
  <2>1. \A n \in 0 .. Len(list) : n # 0 => n - 1 = 0 /\ 0 \in 0 .. Len(list)
    BY <1>2
  <2> QED BY <2>1
<1>4. F = Step(F)
  BY <1>3
<1> HIDE DEF F, G
<1>5. F[0] = c /\ (Len(list) = 1 => F[1] = RemovesCluster(F[0], list[1]))
  <2>1. 0 \in 0 .. Len(list) /\ (Len(list) = 1 => 1 \in 0 .. Len(list)) /\ 1 - 1 = 0 /\ 1 # 0
    BY <1>2
  <2> QED BY <1>4, <2>1
<1> QED BY <1>1, <1>2, <1>5

\* The replaced clusters, at most one of them, applied one after another.
LEMMA EachReplaces ==
  ASSUME NEW c, NEW S, NEW list \in UpToOne(S)
  PROVE  Each(ReplacesCluster, c, list) = IF list = <<>> THEN c ELSE ReplacesCluster(c, list[1])
<1> DEFINE Step(g) == [n \in 0 .. Len(list) |-> IF n = 0 THEN c ELSE ReplacesCluster(g[n - 1], list[n])]
           F == CHOOSE g : g = Step(g)
           G == [n \in 0 .. Len(list) |-> IF n = 0 THEN c ELSE ReplacesCluster(c, list[n])]
<1>1. Each(ReplacesCluster, c, list) = F[Len(list)]
  BY DEF Each
<1>2. Len(list) \in {0, 1} /\ (Len(list) = 0 <=> list = <<>>)
  BY OneAtMost
<1>3. G = Step(G)
  <2>1. \A n \in 0 .. Len(list) : n # 0 => n - 1 = 0 /\ 0 \in 0 .. Len(list)
    BY <1>2
  <2> QED BY <2>1
<1>4. F = Step(F)
  BY <1>3
<1> HIDE DEF F, G
<1>5. F[0] = c /\ (Len(list) = 1 => F[1] = ReplacesCluster(F[0], list[1]))
  <2>1. 0 \in 0 .. Len(list) /\ (Len(list) = 1 => 1 \in 0 .. Len(list)) /\ 1 - 1 = 0 /\ 1 # 0
    BY <1>2
  <2> QED BY <1>4, <2>1
<1> QED BY <1>1, <1>2, <1>5

\* The clusters replaced wherever they occur, at most one of them.
LEMMA EachOccurrence ==
  ASSUME NEW c, NEW S, NEW list \in UpToOne(S)
  PROVE  Each(ReplacesOccurrences, c, list) = IF list = <<>> THEN c ELSE ReplacesOccurrences(c, list[1])
<1> DEFINE Step(g) == [n \in 0 .. Len(list) |-> IF n = 0 THEN c ELSE ReplacesOccurrences(g[n - 1], list[n])]
           F == CHOOSE g : g = Step(g)
           G == [n \in 0 .. Len(list) |-> IF n = 0 THEN c ELSE ReplacesOccurrences(c, list[n])]
<1>1. Each(ReplacesOccurrences, c, list) = F[Len(list)]
  BY DEF Each
<1>2. Len(list) \in {0, 1} /\ (Len(list) = 0 <=> list = <<>>)
  BY OneAtMost
<1>3. G = Step(G)
  <2>1. \A n \in 0 .. Len(list) : n # 0 => n - 1 = 0 /\ 0 \in 0 .. Len(list)
    BY <1>2
  <2> QED BY <2>1
<1>4. F = Step(F)
  BY <1>3
<1> HIDE DEF F, G
<1>5. F[0] = c /\ (Len(list) = 1 => F[1] = ReplacesOccurrences(F[0], list[1]))
  <2>1. 0 \in 0 .. Len(list) /\ (Len(list) = 1 => 1 \in 0 .. Len(list)) /\ 1 - 1 = 0 /\ 1 # 0
    BY <1>2
  <2> QED BY <1>4, <2>1
<1> QED BY <1>1, <1>2, <1>5

Metadata == [adds : UpToOne(Additions), removes : UpToOne(Removals),
             replaces : UpToOne(Replacements), occurrences : UpToOne(Occurrences)]

\* After adds(): the clusters of the device and those that are added; what is named
\* by its id stays as it is if it is there.
LEMMA AfterAdds ==
  ASSUME quirk \in Metadata, NEW p
  PROVE  /\ p \in DOMAIN WithAdded <=> p \in replaced \/ AdditionsAt(p) # {}
         /\ p \in DOMAIN WithAdded =>
              /\ AdditionsAt(p) = {} => WithAdded[p].class = Standard
              /\ AdditionsAt(p) # {} => WithAdded[p].class \in {a.class : a \in AdditionsAt(p)}
              /\ WithAdded[p].cached <=>
                   p \in replaced /\ {a.class : a \in AdditionsAt(p)} \subseteq {Standard}
<1>1. quirk.adds \in UpToOne(Additions)
  BY DEF Metadata
<1>2. WithAdded = IF quirk.adds = <<>> THEN CopiedClusters
                  ELSE Adds(CopiedClusters, quirk.adds[1])
  BY <1>1, EachAdds DEF WithAdded
<1>3. CASE quirk.adds = <<>> /\ ToSet(quirk.adds) = {}
  <2>1. AdditionsAt(p) = {}
    BY <1>3 DEF AdditionsAt
  <2>2. WithAdded = CopiedClusters
    BY <1>2, <1>3
  <2> QED BY <2>1, <2>2 DEF CopiedClusters
<1>4. ASSUME NEW a \in Additions, quirk.adds = <<a>>, quirk.adds[1] = a,
             ToSet(quirk.adds) = {a}
      PROVE  /\ p \in DOMAIN WithAdded <=> p \in replaced \/ AdditionsAt(p) # {}
             /\ p \in DOMAIN WithAdded =>
                  /\ AdditionsAt(p) = {} => WithAdded[p].class = Standard
                  /\ AdditionsAt(p) # {} =>
                       WithAdded[p].class \in {b.class : b \in AdditionsAt(p)}
                  /\ WithAdded[p].cached <=>
                       p \in replaced /\ {b.class : b \in AdditionsAt(p)} \subseteq {Standard}
  <2>1. WithAdded = Adds(CopiedClusters, a)
    <3>1. quirk.adds # <<>>
      BY <1>4
    <3> QED BY <1>2, <1>4, <3>1
  <2>2. AdditionsAt(p) = IF a.place = p THEN {a} ELSE {}
    BY <1>4 DEF AdditionsAt
  <2>3. DOMAIN CopiedClusters = replaced
          /\ \A x \in replaced : CopiedClusters[x] = [class |-> Standard, cached |-> TRUE]
    BY DEF CopiedClusters
  <2>4. CASE a.class = Standard /\ a.place \in replaced
    <3>1. WithAdded = CopiedClusters
      BY <2>1, <2>3, <2>4 DEF Adds
    <3> QED BY <2>2, <2>3, <2>4, <3>1
  <2>5. CASE ~(a.class = Standard /\ a.place \in replaced)
    <3>1. WithAdded = [x \in replaced \cup {a.place} |->
                         IF x = a.place THEN Instance(a.class) ELSE CopiedClusters[x]]
      BY <2>1, <2>3, <2>5 DEF Adds
    <3> QED BY <2>2, <2>3, <2>5, <3>1 DEF Instance
  <2> QED BY <2>4, <2>5
<1> QED BY <1>1, <1>3, <1>4, OneAtMost

\* After removes(): the same without what is removed.
LEMMA AfterRemoves ==
  ASSUME quirk \in Metadata, NEW p
  PROVE  /\ p \in DOMAIN WithRemoved <=>
              p \in DOMAIN WithAdded /\ p \notin ToSet(quirk.removes)
         /\ p \in DOMAIN WithRemoved => WithRemoved[p] = WithAdded[p]
<1>1. quirk.removes \in UpToOne(Removals)
  BY DEF Metadata
<1>2. WithRemoved = IF quirk.removes = <<>> THEN WithAdded
                    ELSE RemovesCluster(WithAdded, quirk.removes[1])
  BY <1>1, EachRemoves DEF WithRemoved
<1>3. CASE quirk.removes = <<>> /\ ToSet(quirk.removes) = {}
  BY <1>2, <1>3
<1>4. ASSUME NEW r \in Removals, quirk.removes = <<r>>, quirk.removes[1] = r,
             ToSet(quirk.removes) = {r}
      PROVE  /\ p \in DOMAIN WithRemoved <=>
                  p \in DOMAIN WithAdded /\ p \notin ToSet(quirk.removes)
             /\ p \in DOMAIN WithRemoved => WithRemoved[p] = WithAdded[p]
  <2>1. quirk.removes # <<>>
    BY <1>4
  <2>2. WithRemoved = [x \in DOMAIN WithAdded \ {r} |-> WithAdded[x]]
    BY <1>2, <1>4, <2>1 DEF RemovesCluster, Restrict
  <2> QED BY <1>4, <2>2
<1> QED BY <1>1, <1>3, <1>4, OneAtMost

\* After replaces(): one is removed, and a class comes in, even where it was.
LEMMA AfterReplaces ==
  ASSUME quirk \in Metadata, NEW p
  PROVE  /\ p \in DOMAIN WithReplaced <=>
              \/ ReplacementsAt(p) # {}
              \/ p \in DOMAIN WithRemoved /\ \A r \in ToSet(quirk.replaces) : r.remove # p
         /\ ReplacementsAt(p) # {} =>
              /\ WithReplaced[p].class \in {r.add.class : r \in ReplacementsAt(p)}
              /\ ~WithReplaced[p].cached
         /\ p \in DOMAIN WithReplaced /\ ReplacementsAt(p) = {} =>
              WithReplaced[p] = WithRemoved[p]
<1>1. quirk.replaces \in UpToOne(Replacements)
  BY DEF Metadata
<1>2. WithReplaced = IF quirk.replaces = <<>> THEN WithRemoved
                     ELSE ReplacesCluster(WithRemoved, quirk.replaces[1])
  BY <1>1, EachReplaces DEF WithReplaced
<1>3. CASE quirk.replaces = <<>> /\ ToSet(quirk.replaces) = {}
  <2>1. ReplacementsAt(p) = {}
    BY <1>3 DEF ReplacementsAt
  <2> QED BY <1>2, <1>3, <2>1
<1>4. ASSUME NEW r \in Replacements, quirk.replaces = <<r>>, quirk.replaces[1] = r,
             ToSet(quirk.replaces) = {r}
      PROVE  /\ p \in DOMAIN WithReplaced <=>
                  \/ ReplacementsAt(p) # {}
                  \/ p \in DOMAIN WithRemoved /\ \A s \in ToSet(quirk.replaces) : s.remove # p
             /\ ReplacementsAt(p) # {} =>
                  /\ WithReplaced[p].class \in {s.add.class : s \in ReplacementsAt(p)}
                  /\ ~WithReplaced[p].cached
             /\ p \in DOMAIN WithReplaced /\ ReplacementsAt(p) = {} =>
                  WithReplaced[p] = WithRemoved[p]
  <2>1. quirk.replaces # <<>>
    BY <1>4
  <2>2. WithReplaced = Adds(RemovesCluster(WithRemoved, r.remove), r.add)
    BY <1>2, <1>4, <2>1 DEF ReplacesCluster
  <2>3. RemovesCluster(WithRemoved, r.remove) =
          [x \in DOMAIN WithRemoved \ {r.remove} |-> WithRemoved[x]]
    BY DEF RemovesCluster, Restrict
  <2>4. r.add.class # Standard
    BY ClassesReplace
  <2>5. WithReplaced = [x \in (DOMAIN WithRemoved \ {r.remove}) \cup {r.add.place} |->
                          IF x = r.add.place THEN Instance(r.add.class) ELSE WithRemoved[x]]
    BY <2>2, <2>3, <2>4 DEF Adds
  <2>6. ReplacementsAt(p) = IF r.add.place = p THEN {r} ELSE {}
    BY <1>4 DEF ReplacementsAt
  <2> QED BY <1>4, <2>5, <2>6 DEF Instance
<1> QED BY <1>1, <1>3, <1>4, OneAtMost

\* After replace_cluster_occurrences(): the same places, with the class where it occurs.
LEMMA AfterOccurrences ==
  ASSUME quirk \in Metadata, NEW p
  PROVE  /\ p \in DOMAIN Built <=> p \in DOMAIN WithReplaced
         /\ p \in DOMAIN Built /\ OccurrencesAt(p) # {} =>
              Built[p].class \in {o.class : o \in OccurrencesAt(p)} /\ ~Built[p].cached
         /\ p \in DOMAIN Built /\ OccurrencesAt(p) = {} => Built[p] = WithReplaced[p]
<1>1. quirk.occurrences \in UpToOne(Occurrences)
  BY DEF Metadata
<1>2. Built = IF quirk.occurrences = <<>> THEN WithReplaced
              ELSE ReplacesOccurrences(WithReplaced, quirk.occurrences[1])
  BY <1>1, EachOccurrence DEF Built
<1>3. CASE quirk.occurrences = <<>> /\ ToSet(quirk.occurrences) = {}
  <2>1. OccurrencesAt(p) = {}
    BY <1>3 DEF OccurrencesAt
  <2> QED BY <1>2, <1>3, <2>1
<1>4. ASSUME NEW o \in Occurrences, quirk.occurrences = <<o>>, quirk.occurrences[1] = o,
             ToSet(quirk.occurrences) = {o}
      PROVE  /\ p \in DOMAIN Built <=> p \in DOMAIN WithReplaced
             /\ p \in DOMAIN Built /\ OccurrencesAt(p) # {} =>
                  Built[p].class \in {s.class : s \in OccurrencesAt(p)} /\ ~Built[p].cached
             /\ p \in DOMAIN Built /\ OccurrencesAt(p) = {} => Built[p] = WithReplaced[p]
  <2>1. quirk.occurrences # <<>>
    BY <1>4
  <2>2. Built = [x \in DOMAIN WithReplaced |->
                   IF IsOccurrence(x, o) THEN Instance(o.class) ELSE WithReplaced[x]]
    BY <1>2, <1>4, <2>1 DEF ReplacesOccurrences
  <2>3. OccurrencesAt(p) = IF IsOccurrence(p, o) THEN {o} ELSE {}
    BY <1>4 DEF OccurrencesAt
  <2> QED BY <2>2, <2>3 DEF Instance
<1> QED BY <1>1, <1>3, <1>4, OneAtMost

QuirkedInv == /\ quirk \in Metadata
              /\ creation = "done" => quirked = Built

\* Whatever device, and whatever piece of metadata of each kind: what is at a place of
\* the object is what the quirk says last of it, or what the device had.
THEOREM QuirksHaveTheLastWord == QuirkedSpec => []QuirkHasTheLastWord
<1>1. QuirkedInit => QuirkedInv
  BY DEF QuirkedInit, QuirkedInv, Metadata
<1>2. QuirkedInv /\ [QuirkedNext]_quirkedVars => QuirkedInv'
  <2> SUFFICES ASSUME QuirkedInv, [QuirkedNext]_quirkedVars PROVE QuirkedInv'
    OBVIOUS
  <2>1. quirk' = quirk /\ replaced' = replaced
    BY DEF QuirkedNext, CreateDevice, quirkedVars
  <2>2. Built' = Built
    BY <2>1 DEF Built, WithReplaced, WithRemoved, WithAdded, CopiedClusters
  <2>3. creation' = "done" => quirked' = Built
    BY DEF QuirkedInv, QuirkedNext, CreateDevice, quirkedVars
  <2> QED BY <2>1, <2>2, <2>3 DEF QuirkedInv, Metadata
<1>3. QuirkedInv => QuirkHasTheLastWord
  <2> SUFFICES ASSUME QuirkedInv, creation = "done" PROVE QuirkHasTheLastWord
    BY DEF QuirkHasTheLastWord
  <2>0. quirk \in Metadata /\ quirked = Built
    BY DEF QuirkedInv
  <2>1. ASSUME NEW p
        PROVE  p \in DOMAIN Built <=>
                 \/ ReplacementsAt(p) # {}
                 \/ ~IsRemoved(p) /\ (p \in replaced \/ AdditionsAt(p) # {})
    BY <2>0, AfterAdds, AfterRemoves, AfterReplaces, AfterOccurrences DEF IsRemoved
  <2>2. ASSUME NEW p \in DOMAIN Built
        PROVE  /\ Built[p].class \in (IF LastWord(p) = {} THEN {Standard} ELSE LastWord(p))
               /\ Built[p].cached <=>
                    p \in replaced /\ LastWord(p) \subseteq {Standard} /\ ~IsRemoved(p)
    <3>1. CASE OccurrencesAt(p) # {}
      <4>1. LastWord(p) = {o.class : o \in OccurrencesAt(p)}
        BY <3>1 DEF LastWord
      <4>2. \A o \in OccurrencesAt(p) : o.class # Standard
        <5>1. \A o \in ToSet(quirk.occurrences) : o \in Occurrences
          BY <2>0, OneAtMost DEF Metadata
        <5> QED BY <5>1, ClassesReplace DEF OccurrencesAt
      <4> QED BY <2>0, <2>2, <3>1, <4>1, <4>2, AfterOccurrences
    <3>2. CASE OccurrencesAt(p) = {} /\ ReplacementsAt(p) # {}
      <4>1. LastWord(p) = {r.add.class : r \in ReplacementsAt(p)}
        BY <3>2 DEF LastWord
      <4>2. \A r \in ReplacementsAt(p) : r.add.class # Standard
        <5>1. \A r \in ToSet(quirk.replaces) : r \in Replacements
          BY <2>0, OneAtMost DEF Metadata
        <5> QED BY <5>1, ClassesReplace DEF ReplacementsAt
      <4>3. Built[p] = WithReplaced[p]
        BY <2>0, <2>2, <3>2, AfterOccurrences
      <4>4. Built[p].class \in LastWord(p) /\ ~Built[p].cached
        BY <2>0, <3>2, <4>1, <4>3, AfterReplaces
      <4>5. ~(LastWord(p) \subseteq {Standard}) /\ LastWord(p) # {}
        BY <3>2, <4>1, <4>2
      <4> QED BY <4>4, <4>5
    <3>3. CASE OccurrencesAt(p) = {} /\ ReplacementsAt(p) = {}
      <4>1. LastWord(p) = {a.class : a \in AdditionsAt(p)}
        BY <3>3 DEF LastWord
      <4>2. Built[p] = WithAdded[p] /\ p \in DOMAIN WithAdded /\ ~IsRemoved(p)
        BY <2>0, <2>2, <3>3, AfterOccurrences, AfterReplaces, AfterRemoves DEF IsRemoved
      <4> QED BY <2>0, <4>1, <4>2, AfterAdds
    <3> QED BY <3>1, <3>2, <3>3
  <2> QED BY <2>0, <2>1, <2>2 DEF QuirkHasTheLastWord
<1> QED BY <1>1, <1>2, <1>3, PTL DEF QuirkedSpec

==============================================================================
