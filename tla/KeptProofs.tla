------------------------------ MODULE KeptProofs ------------------------------
(***************************************************************************)
(* What holds of the answers this code keeps so as not to ask again: the    *)
(* checks of hooks (HookChecks) and the explanations (Explanations), for    *)
(* any number of pages and keys and any bounds.                             *)
(***************************************************************************)
EXTENDS HookChecks, Explanations, FiniteSetTheorems, SequenceTheorems, TLAPS

-----------------------------------------------------------------------------
(***************************************************************************)
(* What a table keeps, whatever its entries are.                           *)
(***************************************************************************)
\* No key has two entries.
OneEach(tab) == \A i, j \in 1..Len(tab) : i < j => tab[i].key # tab[j].key

\* Some of the entries, in their order.
PartOf(some, tab) ==
  /\ Len(some) <= Len(tab)
  /\ \A i \in 1..Len(some) : \E k \in 1..Len(tab) : some[i] = tab[k]
  /\ \A i, j \in 1..Len(some) : i < j =>
       \E k, l \in 1..Len(tab) : k < l /\ some[i] = tab[k] /\ some[j] = tab[l]

\* The entry at a place of the table is among some of it, and what comes after
\* it there came after it before.
IsKept(some, tab, i) ==
  \E a \in 1..Len(some) :
    /\ some[a] = tab[i]
    /\ \A b \in 1..Len(some) : a < b => \E j \in 1..Len(tab) : i < j /\ some[b] = tab[j]

LEMMA PartOfPart ==
  ASSUME NEW a, NEW b, NEW c, PartOf(a, b), PartOf(b, c),
         Len(a) \in Nat, Len(b) \in Nat, Len(c) \in Nat
  PROVE  PartOf(a, c)
<1>1. Len(a) <= Len(c)
  BY DEF PartOf
<1>2. ASSUME NEW i \in 1..Len(a) PROVE \E k \in 1..Len(c) : a[i] = c[k]
  <2> PICK k \in 1..Len(b) : a[i] = b[k]
    BY DEF PartOf
  <2> QED  BY DEF PartOf
<1>3. ASSUME NEW i \in 1..Len(a), NEW j \in 1..Len(a), i < j
      PROVE  \E k, l \in 1..Len(c) : k < l /\ a[i] = c[k] /\ a[j] = c[l]
  <2> PICK k \in 1..Len(b), l \in 1..Len(b) : k < l /\ a[i] = b[k] /\ a[j] = b[l]
    BY <1>3 DEF PartOf
  <2> QED  BY DEF PartOf
<1> QED  BY <1>1, <1>2, <1>3 DEF PartOf

\* Letting a key's entry go leaves the others as they were.
LEMMA WithoutIs ==
  ASSUME NEW S, NEW tab \in Seq(S), OneEach(tab), NEW c
  PROVE  /\ Without(tab, c) \in Seq(S)
         /\ PartOf(Without(tab, c), tab)
         /\ \A i \in 1..Len(Without(tab, c)) : Without(tab, c)[i].key # c
         /\ \A i \in 1..Len(tab) : tab[i].key # c => IsKept(Without(tab, c), tab, i)
<1> DEFINE n == Len(tab)
<1>1. n \in Nat /\ DOMAIN tab = 1..n
  BY LenProperties
<1>2. \A i \in 1..n : tab[i] \in S
  BY ElementOfSeq
<1>3. CASE ~\E i \in DOMAIN tab : tab[i].key = c
  <2>1. Without(tab, c) = tab
    BY <1>3 DEF Without
  <2> QED  BY <1>1, <1>3, <2>1 DEF PartOf, IsKept
<1>4. CASE \E i \in DOMAIN tab : tab[i].key = c
  <2> DEFINE q == CHOOSE i \in DOMAIN tab : tab[i].key = c
             front == SubSeq(tab, 1, q - 1)
             back == SubSeq(tab, q + 1, n)
             o == front \o back
  <2>1. q \in 1..n /\ tab[q].key = c
    BY <1>1, <1>4
  <2>2. Without(tab, c) = o
    BY <1>4 DEF Without
  <2> HIDE DEF q, n
  <2>3. /\ front \in Seq(S) /\ Len(front) = q - 1
        /\ \A i \in 1..(q - 1) : front[i] = tab[i]
    <3>1. 1 \in Int /\ q - 1 \in Int /\ \A i \in 1..(q - 1) : tab[i] \in S
      BY <1>1, <1>2, <2>1
    <3>2. /\ front \in Seq(S)
          /\ Len(front) = IF 1 <= q - 1 THEN q - 1 - 1 + 1 ELSE 0
          /\ \A i \in 1..(q - 1 - 1 + 1) : front[i] = tab[1 + i - 1]
      BY <3>1, SubSeqProperties
    <3> HIDE DEF front
    <3>3. q - 1 - 1 + 1 = q - 1 /\ \A i \in 1..(q - 1) : 1 + i - 1 = i
      BY <1>1, <2>1
    <3> QED  BY <1>1, <2>1, <3>2, <3>3
  <2>4. /\ back \in Seq(S) /\ Len(back) = n - q
        /\ \A i \in 1..(n - q) : back[i] = tab[q + i]
    <3>1. q + 1 \in Int /\ n \in Int /\ \A i \in (q + 1)..n : tab[i] \in S
      BY <1>1, <1>2, <2>1
    <3>2. /\ back \in Seq(S)
          /\ Len(back) = IF q + 1 <= n THEN n - (q + 1) + 1 ELSE 0
          /\ \A i \in 1..(n - (q + 1) + 1) : back[i] = tab[q + 1 + i - 1]
      BY <3>1, SubSeqProperties
    <3> HIDE DEF back
    <3>3. n - (q + 1) + 1 = n - q
      BY <1>1, <2>1
    <3>4. ASSUME NEW i \in 1..(n - q) PROVE back[i] = tab[q + i]
      <4>1. q + 1 + i - 1 = q + i
        BY <1>1, <2>1
      <4> QED  BY <3>2, <3>3, <4>1
    <3>5. Len(back) = n - q
      <4>1. CASE q + 1 <= n
        BY <3>2, <3>3, <4>1
      <4>2. CASE ~(q + 1 <= n)
        <5>1. n - q = 0
          BY <1>1, <2>1, <4>2
        <5> QED  BY <3>2, <4>2, <5>1
      <4> QED  BY <4>1, <4>2
    <3> QED  BY <3>2, <3>4, <3>5
  <2> HIDE DEF front, back
  <2>5. /\ o \in Seq(S) /\ Len(o) = (q - 1) + (n - q)
        /\ \A i \in 1..((q - 1) + (n - q)) : o[i] = IF i <= q - 1 THEN front[i] ELSE back[i - (q - 1)]
    <3>1. /\ o \in Seq(S) /\ Len(o) = Len(front) + Len(back)
          /\ \A i \in 1..(Len(front) + Len(back)) :
               o[i] = IF i <= Len(front) THEN front[i] ELSE back[i - Len(front)]
      BY <2>3, <2>4, ConcatProperties
    <3> HIDE DEF o
    <3> QED  BY <2>3, <2>4, <3>1
  <2> HIDE DEF o
  <2>6. (q - 1) + (n - q) = n - 1
    BY <1>1, <2>1
  <2>7. \A i \in 1..(n - 1) : o[i] = IF i < q THEN tab[i] ELSE tab[i + 1]
    <3> SUFFICES ASSUME NEW i \in 1..(n - 1) PROVE o[i] = IF i < q THEN tab[i] ELSE tab[i + 1]
      OBVIOUS
    <3>1. CASE i < q
      <4>1. i \in 1..(q - 1) /\ i <= q - 1
        BY <1>1, <2>1, <3>1
      <4> QED  BY <2>3, <2>5, <2>6, <3>1, <4>1
    <3>2. CASE ~(i < q)
      <4>1. i - (q - 1) \in 1..(n - q) /\ ~(i <= q - 1) /\ q + (i - (q - 1)) = i + 1
        BY <1>1, <2>1, <3>2
      <4> QED  BY <2>4, <2>5, <2>6, <3>2, <4>1
    <3> QED  BY <3>1, <3>2
  <2>8. Len(o) = n - 1 /\ o \in Seq(S)
    BY <2>5, <2>6
  <2>9. ASSUME NEW i \in 1..(n - 1)
        PROVE  \E k \in 1..n : o[i] = tab[k] /\ k # q /\ k = IF i < q THEN i ELSE i + 1
    <3>1. CASE i < q
      <4>1. i \in 1..n /\ i # q
        BY <1>1, <2>1, <3>1
      <4> QED  BY <2>7, <3>1, <4>1
    <3>2. CASE ~(i < q)
      <4>1. i + 1 \in 1..n /\ i + 1 # q
        BY <1>1, <2>1, <3>2
      <4> QED  BY <2>7, <3>2, <4>1
    <3> QED  BY <3>1, <3>2
  <2>10. \A k \in 1..n : k # q => tab[k].key # c
    BY <1>1, <2>1 DEF OneEach, n
  <2>11. \A i \in 1..(n - 1) : o[i].key # c
    BY <2>9, <2>10
  <2>12. ASSUME NEW i \in 1..(n - 1), NEW j \in 1..(n - 1), i < j
         PROVE  \E k, l \in 1..n : k < l /\ o[i] = tab[k] /\ o[j] = tab[l]
    <3> PICK k \in 1..n : o[i] = tab[k] /\ k = IF i < q THEN i ELSE i + 1
      BY <2>9
    <3> PICK l \in 1..n : o[j] = tab[l] /\ l = IF j < q THEN j ELSE j + 1
      BY <2>9
    <3>1. k < l
      BY <1>1, <2>1, <2>12
    <3> QED  BY <3>1
  <2>13. n - 1 <= n
    BY <1>1
  <2>14. PartOf(o, tab)
    <3>1. \A i \in 1..Len(o) : \E k \in 1..Len(tab) : o[i] = tab[k]
      BY <2>8, <2>9 DEF n
    <3>2. \A i, j \in 1..Len(o) : i < j =>
            \E k, l \in 1..Len(tab) : k < l /\ o[i] = tab[k] /\ o[j] = tab[l]
      <4> SUFFICES ASSUME NEW i \in 1..Len(o), NEW j \in 1..Len(o), i < j
                   PROVE  \E k, l \in 1..Len(tab) : k < l /\ o[i] = tab[k] /\ o[j] = tab[l]
        OBVIOUS
      <4>1. i \in 1..(n - 1) /\ j \in 1..(n - 1)
        BY <2>8
      <4>2. \E k, l \in 1..n : k < l /\ o[i] = tab[k] /\ o[j] = tab[l]
        BY <2>12, <4>1
      <4> QED  BY <4>2 DEF n
    <3>3. Len(o) <= Len(tab)
      BY <2>8, <2>13 DEF n
    <3> QED  BY <2>8, <3>1, <3>2, <3>3 DEF PartOf
  <2>15. ASSUME NEW i \in 1..n, tab[i].key # c PROVE IsKept(o, tab, i)
    <3> DEFINE a == IF i < q THEN i ELSE i - 1
    <3>1. i # q
      BY <2>1, <2>15
    <3>2. a \in 1..(n - 1) /\ i = IF a < q THEN a ELSE a + 1
      BY <1>1, <2>1, <3>1
    <3>3. o[a] = tab[i]
      BY <2>7, <3>2
    <3> HIDE DEF a
    <3>4. ASSUME NEW b \in 1..(n - 1), a < b
          PROVE  \E j \in 1..n : i < j /\ o[b] = tab[j]
      <4> PICK j \in 1..n : o[b] = tab[j] /\ j = IF b < q THEN b ELSE b + 1
        BY <2>9
      <4>1. i < j
        BY <1>1, <2>1, <3>2, <3>4
      <4> QED  BY <4>1
    <3>5. a \in 1..Len(o)
      BY <2>8, <3>2
    <3>6. ASSUME NEW b \in 1..Len(o), a < b
          PROVE  \E j \in 1..Len(tab) : i < j /\ o[b] = tab[j]
      <4>1. b \in 1..(n - 1)
        BY <2>8
      <4> QED  BY <3>4, <3>6, <4>1 DEF n
    <3> QED  BY <3>3, <3>5, <3>6 DEF IsKept
  <2> QED  BY <2>2, <2>8, <2>11, <2>14, <2>15 DEF n
<1> QED  BY <1>3, <1>4

LEMMA EvictIs ==
  ASSUME NEW S, NEW tab \in Seq(S), NEW max \in Nat, max > 0, Len(tab) <= max
  PROVE  /\ EvictUntilRoom(tab, max) \in Seq(S)
         /\ PartOf(EvictUntilRoom(tab, max), tab)
         /\ Len(EvictUntilRoom(tab, max)) < max
         /\ \A i \in 1..Len(tab) :
              \/ IsKept(EvictUntilRoom(tab, max), tab, i)
              \/ /\ i = 1 /\ Len(EvictUntilRoom(tab, max)) = max - 1
                 /\ \A b \in 1..Len(EvictUntilRoom(tab, max)) :
                      \E j \in 1..Len(tab) : i < j /\ EvictUntilRoom(tab, max)[b] = tab[j]
<1> DEFINE n == Len(tab)
           o == EvictUntilRoom(tab, max)
<1>1. n \in Nat /\ max \in Nat /\ max > 0
  BY LenProperties
<1>2. CASE n < max
  <2>1. o = tab
    BY <1>2 DEF EvictUntilRoom
  <2> QED  BY <1>1, <1>2, <2>1 DEF PartOf, IsKept
<1>3. CASE ~(n < max)
  <2>1. n = max /\ n - max + 2 = 2
    BY <1>1, <1>3
  <2>2. o = SubSeq(tab, 2, n)
    BY <1>3, <2>1 DEF EvictUntilRoom
  <2> HIDE DEF o
  <2>3. 2 \in Int /\ n \in Int /\ \A i \in 2..n : tab[i] \in S
    BY <1>1, ElementOfSeq
  <2>4. /\ o \in Seq(S) /\ Len(o) = IF 2 <= n THEN n - 2 + 1 ELSE 0
        /\ \A i \in 1..(n - 2 + 1) : o[i] = tab[2 + i - 1]
    BY <2>2, <2>3, SubSeqProperties
  <2> HIDE DEF n
  <2>5. Len(o) = n - 1 /\ n - 2 + 1 = n - 1
    BY <1>1, <2>1, <2>4
  <2>6. \A i \in 1..(n - 1) : i + 1 \in 1..n /\ o[i] = tab[i + 1]
    <3>1. \A i \in 1..(n - 1) : 2 + i - 1 = i + 1 /\ i + 1 \in 1..n
      BY <1>1
    <3> QED  BY <2>4, <2>5, <3>1
  <2>7. ASSUME NEW i \in 1..(n - 1), NEW j \in 1..(n - 1), i < j
        PROVE  \E k, l \in 1..n : k < l /\ o[i] = tab[k] /\ o[j] = tab[l]
    <3>1. i + 1 < j + 1
      BY <1>1, <2>7
    <3> QED  BY <2>6, <3>1
  <2>8. PartOf(o, tab)
    <3>1. n - 1 <= n
      BY <1>1
    <3>2. \A i \in 1..Len(o) : \E k \in 1..Len(tab) : o[i] = tab[k]
      BY <2>5, <2>6 DEF n
    <3>3. \A i, j \in 1..Len(o) : i < j =>
            \E k, l \in 1..Len(tab) : k < l /\ o[i] = tab[k] /\ o[j] = tab[l]
      BY <2>5, <2>7 DEF n
    <3>4. Len(o) <= Len(tab)
      BY <2>5, <3>1 DEF n
    <3> QED  BY <2>4, <3>2, <3>3, <3>4 DEF PartOf
  <2>9. ASSUME NEW b \in 1..Len(o) PROVE \E j \in 1..Len(tab) : 1 < j /\ o[b] = tab[j]
    <3>1. b \in 1..(n - 1)
      BY <2>5
    <3>2. b + 1 \in 1..n /\ o[b] = tab[b + 1] /\ 1 < b + 1
      BY <1>1, <2>6, <3>1
    <3> QED  BY <3>2 DEF n
  <2>10. ASSUME NEW i \in 1..n, i # 1 PROVE IsKept(o, tab, i)
    <3>1. i - 1 \in 1..(n - 1) /\ i - 1 + 1 = i
      BY <1>1, <2>10
    <3>2. o[i - 1] = tab[i] /\ i - 1 \in 1..Len(o)
      BY <2>5, <2>6, <3>1
    <3>3. ASSUME NEW b \in 1..Len(o), i - 1 < b
          PROVE  \E j \in 1..Len(tab) : i < j /\ o[b] = tab[j]
      <4>1. b \in 1..(n - 1)
        BY <2>5
      <4>2. b + 1 \in 1..n /\ o[b] = tab[b + 1] /\ i < b + 1
        BY <1>1, <2>6, <3>3, <4>1
      <4> QED  BY <4>2 DEF n
    <3> QED  BY <3>2, <3>3 DEF IsKept
  <2>11. Len(o) = max - 1 /\ Len(o) < max
    BY <1>1, <2>1, <2>5
  <2>12. \A i \in 1..Len(tab) : IsKept(o, tab, i) \/ i = 1
    BY <2>10 DEF n
  <2> QED  BY <2>4, <2>8, <2>9, <2>11, <2>12 DEF o
<1> QED  BY <1>2, <1>3

\* What part of a table keeps.
LEMMA PartKeeps ==
  ASSUME NEW S, NEW tab \in Seq(S), NEW some, PartOf(some, tab), OneEach(tab)
  PROVE  OneEach(some)
<1>1. ASSUME NEW i \in 1..Len(some), NEW j \in 1..Len(some), i < j
      PROVE  some[i].key # some[j].key
  <2> PICK k \in 1..Len(tab), l \in 1..Len(tab) : k < l /\ some[i] = tab[k] /\ some[j] = tab[l]
    BY <1>1 DEF PartOf
  <2>1. tab[k].key # tab[l].key
    BY DEF OneEach
  <2> QED  BY <2>1
<1> QED  BY <1>1 DEF OneEach


\* As many entries as the table holds are about as many hooks.
LEMMA FullOfOthers ==
  ASSUME NEW S, NEW es \in Seq(S), OneEach(es), NEW since, IsFiniteSet(since),
         \A i \in 1..Len(es) : es[i].key \in since
  PROVE  Len(es) <= Cardinality(since)
<1> DEFINE n == Len(es)
           f == [i \in 1..n |-> es[i].key]
<1>1. n \in Nat
  BY LenProperties
<1>2. IsFiniteSet(since)
  OBVIOUS
<1> HIDE DEF n
<1>3. \A i, j \in 1..n : i # j => es[i].key # es[j].key
  <2> SUFFICES ASSUME NEW i \in 1..n, NEW j \in 1..n, i # j PROVE es[i].key # es[j].key
    OBVIOUS
  <2>1. i < j \/ j < i
    BY <1>1
  <2> QED  BY <2>1 DEF OneEach, n
<1>4. f \in [1..n -> since]
  BY DEF n
<1>5. f \in Injection(1..n, since)
  BY <1>3, <1>4 DEF Injection, IsInjective
<1>6. Cardinality(1..n) <= Cardinality(since)
  BY <1>2, <1>5, FS_Injection
<1>7. Cardinality(1..n) = n
  <2>1. Cardinality(1..n) = IF 1 > n THEN 0 ELSE n - 1 + 1
    BY <1>1, FS_Interval
  <2> QED  BY <1>1, <2>1
<1> QED  BY <1>6, <1>7 DEF n

GivesWay(es, after, e, max) ==
  \A i \in 1..Len(es) : es[i].key # e.key =>
    \/ \E a \in 1..Len(after) :
         /\ after[a] = es[i]
         /\ \A b \in 1..Len(after) : a < b =>
              after[b] = e \/ \E j \in 1..Len(es) : i < j /\ after[b] = es[j]
    \/ /\ Len(after) = max
       /\ \A b \in 1..Len(after) : after[b] = e \/ \E j \in 1..Len(es) : i < j /\ after[b] = es[j]

\* What is in the table is the entry, or was there before and is another key's.
ComesFrom(es, after, e) ==
  \A b \in 1..Len(after) :
    after[b] = e \/ \E j \in 1..Len(es) : after[b] = es[j] /\ es[j].key # e.key

AfterPut(S, es, after, e, max) ==
  /\ after \in Seq(S) /\ Len(after) <= max /\ OneEach(after)
  /\ Len(after) > 0 /\ after[Len(after)] = e
  /\ GivesWay(es, after, e, max)
  /\ ComesFrom(es, after, e)

\* An entry written last leaves every other as it was, or the oldest gives way
\* to a table that is full of newer ones.
LEMMA PutLastIs ==
  ASSUME NEW S, NEW es \in Seq(S), NEW max \in Nat, max > 0,
         Len(es) <= max, OneEach(es), NEW e \in S
  PROVE  AfterPut(S, es, PutLast(es, e, max), e, max)
<1> DEFINE others == Without(es, e.key)
           room == EvictUntilRoom(others, max)
           after == Append(room, e)
           m == Len(room)
<1>1. PutLast(es, e, max) = after
  BY DEF PutLast
<1>2. /\ others \in Seq(S) /\ PartOf(others, es)
      /\ \A i \in 1..Len(others) : others[i].key # e.key
      /\ \A i \in 1..Len(es) : es[i].key # e.key => IsKept(others, es, i)
  BY WithoutIs
<1> HIDE DEF others
<1>3. /\ others \in Seq(S) /\ Len(others) \in Nat /\ Len(es) \in Nat
      /\ Len(others) <= max /\ max \in Nat
  BY <1>2, LenProperties DEF PartOf
<1>4. /\ room \in Seq(S) /\ PartOf(room, others) /\ m < max
      /\ \A i \in 1..Len(others) :
           \/ IsKept(room, others, i)
           \/ /\ i = 1 /\ m = max - 1
              /\ \A b \in 1..m : \E j \in 1..Len(others) : i < j /\ room[b] = others[j]
  <2>1. others \in Seq(S) /\ max \in Nat /\ max > 0 /\ Len(others) <= max
    BY <1>3
  <2> QED  BY <2>1, EvictIs
<1> HIDE DEF room
<1>5. room \in Seq(S) /\ m \in Nat
  BY <1>4, LenProperties DEF PartOf
<1>6. OneEach(room)
  BY <1>2, <1>3, <1>4, PartKeeps
<1>7. ASSUME NEW i \in 1..m PROVE room[i].key # e.key
  <2> PICK k \in 1..Len(others) : room[i] = others[k]
    BY <1>4 DEF PartOf
  <2> QED  BY <1>2
<1>8. /\ after \in Seq(S) /\ Len(after) = m + 1
      /\ \A i \in 1..m : after[i] = room[i]
      /\ after[m + 1] = e
  BY <1>5, AppendProperties
<1> HIDE DEF after, m
<1>9. \A i \in 1..(m + 1) : i \in 1..m \/ i = m + 1
  BY <1>5
<1>10. OneEach(after)
  <2> SUFFICES ASSUME NEW i \in 1..(m + 1), NEW j \in 1..(m + 1), i < j
               PROVE  after[i].key # after[j].key
    BY <1>8 DEF OneEach
  <2>1. i \in 1..m
    BY <1>5
  <2>2. CASE j \in 1..m
    BY <1>6, <1>8, <2>1, <2>2 DEF OneEach, m
  <2>3. CASE j = m + 1
    BY <1>7, <1>8, <2>1, <2>3
  <2> QED  BY <1>9, <2>2, <2>3
<1>11. Len(after) <= max /\ Len(after) > 0 /\ after[Len(after)] = e
  BY <1>3, <1>4, <1>5, <1>8
<1>12. ASSUME NEW i \in 1..Len(es), es[i].key # e.key
       PROVE  \/ \E a \in 1..(m + 1) :
                   /\ after[a] = es[i]
                   /\ \A b \in 1..(m + 1) : a < b =>
                        after[b] = e \/ \E j \in 1..Len(es) : i < j /\ after[b] = es[j]
              \/ /\ m + 1 = max
                 /\ \A b \in 1..(m + 1) : after[b] = e \/ \E j \in 1..Len(es) : i < j /\ after[b] = es[j]
  <2>1. PICK a \in 1..Len(others) :
          /\ others[a] = es[i]
          /\ \A b \in 1..Len(others) : a < b => \E j \in 1..Len(es) : i < j /\ others[b] = es[j]
    BY <1>2, <1>12 DEF IsKept
  <2>2. CASE IsKept(room, others, a)
    <3> PICK c \in 1..m :
          /\ room[c] = others[a]
          /\ \A b \in 1..m : c < b => \E j \in 1..Len(others) : a < j /\ room[b] = others[j]
      BY <2>2 DEF IsKept, m
    <3>1. c \in 1..(m + 1) /\ after[c] = es[i]
      BY <1>5, <1>8, <2>1
    <3>2. ASSUME NEW b \in 1..(m + 1), c < b
          PROVE  after[b] = e \/ \E j \in 1..Len(es) : i < j /\ after[b] = es[j]
      <4>1. CASE b \in 1..m
        <5> PICK j \in 1..Len(others) : a < j /\ room[b] = others[j]
          BY <3>2, <4>1
        <5> QED  BY <1>8, <2>1, <4>1
      <4>2. CASE b = m + 1
        BY <1>8, <4>2
      <4> QED  BY <1>9, <4>1, <4>2
    <3> QED  BY <3>1, <3>2
  <2>3. CASE ~IsKept(room, others, a)
    <3>1. /\ a = 1 /\ m = max - 1
          /\ \A b \in 1..m : \E j \in 1..Len(others) : a < j /\ room[b] = others[j]
      BY <1>4, <2>3 DEF m
    <3>2. m + 1 = max
      BY <1>3, <3>1
    <3>3. ASSUME NEW b \in 1..(m + 1)
          PROVE  after[b] = e \/ \E j \in 1..Len(es) : i < j /\ after[b] = es[j]
      <4>1. CASE b \in 1..m
        <5> PICK j \in 1..Len(others) : a < j /\ room[b] = others[j]
          BY <3>1, <4>1
        <5> QED  BY <1>8, <2>1, <4>1
      <4>2. CASE b = m + 1
        BY <1>8, <4>2
      <4> QED  BY <1>9, <4>1, <4>2
    <3> QED  BY <3>2, <3>3
  <2> QED  BY <2>2, <2>3
<1>13. GivesWay(es, after, e, max)
  BY <1>8, <1>12 DEF GivesWay
<1>14. ASSUME NEW b \in 1..Len(after)
       PROVE  after[b] = e \/ \E j \in 1..Len(es) : after[b] = es[j] /\ es[j].key # e.key
  <2>1. CASE b \in 1..m
    <3> PICK c \in 1..Len(others) : room[b] = others[c]
      BY <1>4, <2>1 DEF PartOf, m
    <3> PICK j \in 1..Len(es) : others[c] = es[j]
      BY <1>2 DEF PartOf
    <3> QED  BY <1>2, <1>8, <2>1
  <2>2. CASE b = m + 1
    BY <1>8, <2>2
  <2> QED  BY <1>8, <1>9, <2>1, <2>2
<1>15. ComesFrom(es, after, e)
  BY <1>14 DEF ComesFrom
<1>16. AfterPut(S, es, after, e, max)
  BY <1>8, <1>10, <1>11, <1>13, <1>15 DEF AfterPut
<1> QED  BY <1>1, <1>16


-----------------------------------------------------------------------------
(***************************************************************************)
(* One read of a hook at a time.                                           *)
(***************************************************************************)
\* A read that is under way, or whose finally has not run, is the one that is
\* joined by whoever asks about its hook.
ReadsTyped ==
  /\ running \in [Hooks -> Reads \cup {None}]
  /\ reading \in [Reads -> ReadState]

IsTheOneJoined ==
  \A r \in Reads : reading[r].at # "none" =>
    reading[r].key \in Hooks /\ running[reading[r].key] = r

HookInv == ReadsTyped /\ IsTheOneJoined

LEMMA InitOK == HookInit => HookInv
BY DEF HookInit, HookInv, ReadsTyped, IsTheOneJoined, ReadState, NoRead

LEMMA AskOK ==
  ASSUME HookInv, NEW a \in Askers, NEW k \in Hooks, AskService(a, k) PROVE HookInv'
<1>1. PICK r \in Reads :
        /\ reading[r].at = "none"
        /\ reading' = [reading EXCEPT ![r] = [at |-> "line", key |-> k, got |-> None]]
        /\ running' = [running EXCEPT ![k] = r]
  <2>1. PICK r \in Unused :
          /\ reading' = [reading EXCEPT ![r] = [at |-> "line", key |-> k, got |-> None]]
          /\ running' = [running EXCEPT ![k] = r]
    BY DEF AskService
  <2>2. r \in Reads /\ reading[r].at = "none"
    <3> DEFINE free == {s \in Reads : reading[s].at = "none"}
    <3>1. free # {} /\ r = CHOOSE s \in free : TRUE
      BY DEF Unused
    <3> QED  BY <3>1
  <2> QED  BY <2>1, <2>2
<1>2. running[k] = None /\ None \notin Reads /\ None \notin Hooks
  BY HooksAssumption DEF AskService
<1>3. ReadsTyped'
  BY <1>1 DEF HookInv, ReadsTyped, ReadState
<1>4. ASSUME NEW s \in Reads, reading'[s].at # "none"
      PROVE  reading'[s].key \in Hooks /\ running'[reading'[s].key] = s
  <2>1. CASE s = r
    BY <1>1, <2>1 DEF HookInv, ReadsTyped
  <2>2. CASE s # r
    <3>1. reading'[s] = reading[s]
      BY <1>1, <2>2 DEF HookInv, ReadsTyped
    <3>2. reading[s].key \in Hooks /\ running[reading[s].key] = s
      BY <1>4, <3>1 DEF HookInv, IsTheOneJoined
    <3> QED  BY <1>1, <1>2, <3>1, <3>2 DEF HookInv, ReadsTyped
  <2> QED  BY <2>1, <2>2
<1> QED  BY <1>3, <1>4 DEF HookInv, IsTheOneJoined

\* A step that moves one read along and leaves its hook, and the one to join.
LEMMA AlongOK ==
  ASSUME HookInv, NEW r \in Reads, running' = running, reading[r].at # "none",
         NEW p \in {"line", "back", "written"}, NEW g \in Answers \cup {"thrown", None},
         reading' = [reading EXCEPT ![r].at = p, ![r].got = g]
  PROVE  HookInv'
<1>1. ReadsTyped'
  BY DEF HookInv, ReadsTyped, ReadState
<1>2. \A s \in Reads : reading'[s].key = reading[s].key
                       /\ (reading'[s].at # "none" => reading[s].at # "none")
  BY DEF HookInv, ReadsTyped, ReadState
<1> QED  BY <1>1, <1>2 DEF HookInv, IsTheOneJoined

LEMMA ClearOK ==
  ASSUME HookInv, NEW r \in Reads, Clear(r) PROVE HookInv'
<1>1. /\ reading' = [reading EXCEPT ![r] = NoRead]
      /\ running' = [k \in Hooks |-> IF running[k] = r THEN None ELSE running[k]]
  BY DEF Clear
<1>2. ReadsTyped'
  BY <1>1 DEF HookInv, ReadsTyped, ReadState, NoRead
<1>3. \A s \in Reads : reading'[s].at # "none" => s # r /\ reading'[s] = reading[s]
  BY <1>1 DEF HookInv, ReadsTyped, NoRead
<1> QED  BY <1>1, <1>2, <1>3 DEF HookInv, IsTheOneJoined

\* While a read is in the line, it is under way.
InLineUnderWay == \A r \in line : r \in Reads => reading[r].at = "line"

LEMMA StepOK == HookInv /\ [HookNext]_hookVars /\ InLineUnderWay /\ begun \subseteq line => HookInv'
<1> SUFFICES ASSUME HookInv, [HookNext]_hookVars, InLineUnderWay, begun \subseteq line PROVE HookInv'
  OBVIOUS
<1>1. CASE UNCHANGED <<running, reading>>
  BY <1>1 DEF HookInv, ReadsTyped, IsTheOneJoined
<1>2. ASSUME NEW a \in Askers, NEW k \in Hooks, AskService(a, k) PROVE HookInv'
  BY <1>2, AskOK
<1>3. ASSUME NEW r \in Reads, Back(r) PROVE HookInv'
  <2>1. reading[r].at # "none"
    BY <1>3 DEF Back, Service!End, InLineUnderWay
  <2> QED  BY <1>3, <2>1, AlongOK DEF Back
<1>4. ASSUME NEW r \in Reads, Write(r) PROVE HookInv'
  <2>1. reading' = [reading EXCEPT ![r].at = "written", ![r].got = reading[r].got]
    BY <1>4 DEF Write, HookInv, ReadsTyped, ReadState
  <2>2. reading[r].got \in Answers \cup {"thrown", None} /\ reading[r].at # "none" /\ running' = running
    BY <1>4 DEF Write, HookInv, ReadsTyped, ReadState
  <2> QED  BY <2>1, <2>2, AlongOK
<1>5. ASSUME NEW r \in Reads, Clear(r) PROVE HookInv'
  BY <1>5, ClearOK
<1>6. ASSUME NEW a \in Askers, GoOn(a) \/ \E k \in Hooks : Join(a, k) PROVE UNCHANGED <<running, reading>>
  BY <1>6 DEF GoOn, Join, kept
<1>7. ASSUME NEW r \in Reads, TurnComes(r) PROVE UNCHANGED <<running, reading>>
  BY <1>7 DEF TurnComes, kept
<1>8. CASE HookTick
  BY <1>1, <1>8 DEF HookTick
<1>9. CASE UNCHANGED hookVars
  BY <1>1, <1>9 DEF hookVars, kept
<1> QED  BY <1>1, <1>2, <1>3, <1>4, <1>5, <1>6, <1>7, <1>8, <1>9 DEF HookNext

LEMMA LineOK ==
  HookInv /\ [HookNext]_hookVars /\ InLineUnderWay /\ begun \subseteq line
    => InLineUnderWay' /\ begun' \subseteq line'
<1> SUFFICES ASSUME HookInv, [HookNext]_hookVars, InLineUnderWay, begun \subseteq line
             PROVE  InLineUnderWay' /\ begun' \subseteq line'
  OBVIOUS
<1>1. CASE UNCHANGED <<line, begun, reading>>
  BY <1>1 DEF InLineUnderWay
<1>2. ASSUME NEW a \in Askers, NEW k \in Hooks, AskService(a, k)
      PROVE  InLineUnderWay' /\ begun' \subseteq line'
  <2>1. PICK r \in Unused :
          /\ reading' = [reading EXCEPT ![r] = [at |-> "line", key |-> k, got |-> None]]
          /\ Service!Enter(r)
    BY <1>2 DEF AskService
  <2>2. line' = line \cup {r} /\ begun' \subseteq begun \cup {r}
    BY <2>1 DEF Service!Enter
  <2>3. InLineUnderWay'
    BY <2>1, <2>2 DEF InLineUnderWay, HookInv, ReadsTyped
  <2> QED  BY <2>2, <2>3
<1>3. ASSUME NEW r \in Reads, TurnComes(r) PROVE InLineUnderWay' /\ begun' \subseteq line'
  BY <1>3 DEF TurnComes, Service!Begin, InLineUnderWay, kept
<1>4. ASSUME NEW r \in Reads, Back(r) PROVE InLineUnderWay' /\ begun' \subseteq line'
  <2>1. line' = line \ {r} /\ begun' = begun \ {r}
    BY <1>4 DEF Back, Service!End
  <2>2. \A s \in Reads : s # r => reading'[s] = reading[s]
    BY <1>4 DEF Back, HookInv, ReadsTyped
  <2> QED  BY <2>1, <2>2 DEF InLineUnderWay
<1>5. ASSUME NEW r \in Reads, Write(r) \/ Clear(r) PROVE InLineUnderWay' /\ begun' \subseteq line'
  <2>1. reading[r].at # "line" /\ UNCHANGED <<line, begun>>
    BY <1>5 DEF Write, Clear, served
  <2>2. \A s \in Reads : s # r => reading'[s] = reading[s]
    BY <1>5 DEF Write, Clear, HookInv, ReadsTyped
  <2> QED  BY <2>1, <2>2 DEF InLineUnderWay
<1>6. ASSUME NEW a \in Askers, GoOn(a) \/ \E k \in Hooks : Join(a, k) PROVE UNCHANGED <<line, begun, reading>>
  BY <1>6 DEF GoOn, Join, kept, served
<1>7. CASE HookTick
  BY <1>1, <1>7 DEF HookTick, served
<1>8. CASE UNCHANGED hookVars
  BY <1>1, <1>8 DEF hookVars, kept, served
<1> QED  BY <1>1, <1>2, <1>3, <1>4, <1>5, <1>6, <1>7, <1>8 DEF HookNext

\* Whoever asks, and whoever has stopped waiting, no hook is ever asked about
\* twice at once.
THEOREM AskedOnceAtATime == HookSpec => []OneReadPerKey
<1>1. HookInit => HookInv /\ InLineUnderWay /\ begun \subseteq line
  BY InitOK DEF HookInit, Service!Init, InLineUnderWay
<1>2. HookInv /\ InLineUnderWay /\ begun \subseteq line /\ [HookNext]_hookVars
        => HookInv' /\ InLineUnderWay' /\ begun' \subseteq line'
  BY StepOK, LineOK
<1>3. HookInv => OneReadPerKey
  BY DEF HookInv, IsTheOneJoined, OneReadPerKey
<1>4. (begun \subseteq line)' <=> begun' \subseteq line'
  OBVIOUS
<1> QED  BY <1>1, <1>2, <1>3, <1>4, PTL DEF HookSpec

-----------------------------------------------------------------------------
(***************************************************************************)
(* What the service said is kept.                                          *)
(***************************************************************************)
\* The last answer on a hook still answers, and all written since is about
\* hooks that were answered about since.
HoldsTheAnswer(es, left, since, k) ==
  \E i \in 1..Len(es) :
    /\ es[i].key = k /\ es[i].left >= left
    /\ \A j \in 1..Len(es) : i < j => es[j].key \in since

KeptSince(es, left, since) ==
  \A k \in Hooks : left[k] > 0 =>
    HoldsTheAnswer(es, left[k], since[k], k) \/ Cardinality(since[k]) >= KeptHooks

KeptOK(es, left, since) ==
  /\ es \in Seq(Entry) /\ Len(es) <= KeptHooks /\ OneEach(es)
  /\ left \in [Hooks -> 0..KeptMs]
  /\ since \in [Hooks -> SUBSET Hooks]
  /\ KeptSince(es, left, since)

HeardInv == KeptOK(entries, heard, newer)

LEMMA Bounds ==
  /\ KeptHooks \in Nat /\ KeptHooks > 0 /\ KeptMs \in Nat /\ KeptMs > 0
  /\ \A got : KeptFor(got) \in 0..KeptMs /\ KeptFor(got) > 0
  /\ \A since \in SUBSET Hooks : IsFiniteSet(since) /\ Cardinality(since) \in Nat
<1>1. /\ KeptHooks \in Nat /\ KeptHooks > 0 /\ KeptMs \in Nat /\ KeptMs > 0
      /\ RetryMs \in Nat /\ RetryMs > 0 /\ RetryMs <= KeptMs /\ IsFiniteSet(Hooks)
  BY HooksAssumption
<1>2. \A got : KeptFor(got) \in 0..KeptMs /\ KeptFor(got) > 0
  BY <1>1 DEF KeptFor
<1>3. \A since \in SUBSET Hooks : IsFiniteSet(since) /\ Cardinality(since) \in Nat
  BY <1>1, FS_Subset, FS_CardinalityType
<1> QED  BY <1>1, <1>2, <1>3

\* An answer is written.
AfterAnswer(es, left, since, es2, left2, since2, k, got) ==
  /\ es2 = Written(es, [key |-> k, left |-> KeptFor(got)])
  /\ left2 = [left EXCEPT ![k] = KeptFor(got)]
  /\ since2 = [l \in Hooks |-> IF l = k \/ left[l] = 0 THEN {} ELSE since[l] \cup {k}]

LEMMA WriteKeeps ==
  ASSUME NEW es, NEW left, NEW since, KeptOK(es, left, since), NEW k \in Hooks, NEW got,
         NEW es2, NEW left2, NEW since2, AfterAnswer(es, left, since, es2, left2, since2, k, got)
  PROVE  KeptOK(es2, left2, since2)
<1> USE DEF AfterAnswer
<1>0. /\ es \in Seq(Entry) /\ Len(es) <= KeptHooks /\ OneEach(es)
      /\ left \in [Hooks -> 0..KeptMs] /\ since \in [Hooks -> SUBSET Hooks]
      /\ KeptSince(es, left, since)
  BY DEF KeptOK
<1> DEFINE e == [key |-> k, left |-> KeptFor(got)]
<1>1. KeptFor(got) \in 0..KeptMs /\ KeptFor(got) > 0
  BY Bounds
<1>2. e \in Entry /\ e.key = k /\ e.left = KeptFor(got)
  BY <1>1 DEF Entry
<1>3. es2 = PutLast(es, e, KeptHooks)
  BY DEF Written
<1> HIDE DEF e
<1>4. /\ es2 \in Seq(Entry) /\ Len(es2) <= KeptHooks /\ OneEach(es2)
      /\ Len(es2) > 0 /\ es2[Len(es2)] = e
      /\ GivesWay(es, es2, e, KeptHooks)
  <2>1. KeptHooks \in Nat /\ KeptHooks > 0
    BY Bounds
  <2>2. AfterPut(Entry, es, PutLast(es, e, KeptHooks), e, KeptHooks)
    BY <1>0, <1>2, <2>1, PutLastIs
  <2> QED  BY <1>3, <2>2 DEF AfterPut
<1>5. left2 \in [Hooks -> 0..KeptMs] /\ \A l \in Hooks : left2[l] = IF l = k THEN KeptFor(got) ELSE left[l]
  BY <1>0, <1>1
<1>6. /\ since2 \in [Hooks -> SUBSET Hooks]
      /\ \A l \in Hooks : l # k /\ left[l] # 0 => since2[l] = since[l] \cup {k}
  BY <1>0
<1>7. Len(es2) \in Nat /\ Len(es2) \in 1..Len(es2)
  BY <1>4, LenProperties
<1>8. ASSUME NEW l \in Hooks, left2[l] > 0
      PROVE  HoldsTheAnswer(es2, left2[l], since2[l], l) \/ Cardinality(since2[l]) >= KeptHooks
  <2>1. CASE l = k
    <3>1. es2[Len(es2)].key = l /\ es2[Len(es2)].left >= left2[l]
      BY <1>1, <1>2, <1>4, <1>5, <2>1
    <3>2. \A j \in 1..Len(es2) : ~(Len(es2) < j)
      BY <1>7
    <3> QED  BY <1>7, <3>1, <3>2 DEF HoldsTheAnswer
  <2>2. CASE l # k
    <3>1. left2[l] = left[l] /\ left[l] > 0 /\ left[l] # 0 /\ since2[l] = since[l] \cup {k}
      BY <1>5, <1>6, <1>8, <2>2
    <3>2. CASE Cardinality(since[l]) >= KeptHooks
      <4>1. since[l] \subseteq since2[l] /\ since2[l] \in SUBSET Hooks /\ IsFiniteSet(since2[l])
        BY <1>6, <3>1, Bounds
      <4>2. Cardinality(since[l]) <= Cardinality(since2[l])
        BY <4>1, FS_Subset
      <4>3. Cardinality(since[l]) \in Nat /\ Cardinality(since2[l]) \in Nat /\ KeptHooks \in Nat
        BY <4>1, Bounds
      <4> QED  BY <3>2, <4>2, <4>3
    <3>3. CASE HoldsTheAnswer(es, left[l], since[l], l)
      <4> PICK i \in 1..Len(es) :
            /\ es[i].key = l /\ es[i].left >= left[l]
            /\ \A j \in 1..Len(es) : i < j => es[j].key \in since[l]
        BY <3>3 DEF HoldsTheAnswer
      <4>1. es[i].key # e.key
        BY <1>2, <2>2
      <4>2. CASE \E a \in 1..Len(es2) :
                   /\ es2[a] = es[i]
                   /\ \A b \in 1..Len(es2) : a < b =>
                        es2[b] = e \/ \E j \in 1..Len(es) : i < j /\ es2[b] = es[j]
        <5> PICK a \in 1..Len(es2) :
              /\ es2[a] = es[i]
              /\ \A b \in 1..Len(es2) : a < b =>
                   es2[b] = e \/ \E j \in 1..Len(es) : i < j /\ es2[b] = es[j]
          BY <4>2
        <5>1. \A b \in 1..Len(es2) : a < b => es2[b].key \in since2[l]
          BY <1>2, <3>1
        <5> QED  BY <3>1, <5>1 DEF HoldsTheAnswer
      <4>3. CASE /\ Len(es2) = KeptHooks
                 /\ \A b \in 1..Len(es2) : es2[b] = e \/ \E j \in 1..Len(es) : i < j /\ es2[b] = es[j]
        <5>1. \A b \in 1..Len(es2) : es2[b].key \in since2[l]
          BY <1>2, <3>1, <4>3
        <5>2. since2[l] \in SUBSET Hooks
          BY <1>6
        <5>3. Len(es2) <= Cardinality(since2[l])
          BY <1>4, <5>1, <5>2, Bounds, FullOfOthers
        <5> QED  BY <4>3, <5>3
      <4> QED  BY <1>4, <4>1, <4>2, <4>3 DEF GivesWay
    <3> QED  BY <1>0, <3>1, <3>2, <3>3 DEF KeptSince
  <2> QED  BY <2>1, <2>2
<1>9. KeptSince(es2, left2, since2)
  BY <1>8 DEF KeptSince
<1> QED  BY <1>4, <1>5, <1>6, <1>9 DEF KeptOK

\* A moment passes for all that is kept.
LEMMA TickKeeps ==
  ASSUME HeardInv, HookTick PROVE HeardInv'
<1> DEFINE n == Len(entries)
<1>1. /\ entries \in Seq(Entry) /\ n \in Nat /\ n <= KeptHooks /\ OneEach(entries)
      /\ heard \in [Hooks -> 0..KeptMs] /\ newer \in [Hooks -> SUBSET Hooks]
      /\ KeptSince(entries, heard, newer) /\ KeptMs \in Nat
  BY LenProperties, Bounds DEF HeardInv, KeptOK
<1>2. \A i \in 1..n : entries[i] \in Entry
  BY <1>1, ElementOfSeq
<1> HIDE DEF n
<1>3. entries' = [i \in 1..n |-> [entries[i] EXCEPT !.left = Less(@)]]
  BY DEF HookTick, n
<1>4. \A x \in 0..KeptMs : Less(x) \in 0..KeptMs
  BY <1>1 DEF Less
<1>5. ASSUME NEW i \in 1..n
      PROVE  /\ entries'[i] \in Entry /\ entries'[i].key = entries[i].key
             /\ entries'[i].left = Less(entries[i].left) /\ entries[i].left \in 0..KeptMs
  <2>1. entries'[i] = [entries[i] EXCEPT !.left = Less(@)]
    BY <1>3
  <2>2. entries[i] \in [key : Hooks, left : 0..KeptMs]
    BY <1>2 DEF Entry
  <2>3. Less(entries[i].left) \in 0..KeptMs
    BY <1>4, <2>2
  <2> QED  BY <2>1, <2>2, <2>3 DEF Entry
<1>6. entries' \in [1..n -> Entry]
  BY <1>3, <1>5
<1>7. entries' \in Seq(Entry)
  BY <1>1, <1>6, SeqDef
<1>8. Len(entries') = n
  <2> DEFINE m == Len(entries')
  <2>1. DOMAIN entries' = 1..m /\ m \in Nat
    BY <1>7, LenProperties
  <2>2. 1..m = 1..n
    BY <1>6, <2>1
  <2> HIDE DEF m
  <2>3. ~(m < n)
    <3>1. m < n => n \in 1..n /\ n \notin 1..m
      BY <1>1, <2>1
    <3> QED  BY <2>2, <3>1
  <2>4. ~(n < m)
    <3>1. n < m => m \in 1..m /\ m \notin 1..n
      BY <1>1, <2>1
    <3> QED  BY <2>2, <3>1
  <2>5. m = n
    BY <1>1, <2>1, <2>3, <2>4
  <2> QED  BY <2>5 DEF m
<1>9. OneEach(entries')
  BY <1>1, <1>5, <1>8 DEF OneEach, n
<1>10. heard' = [k \in Hooks |-> Less(heard[k])] /\ newer' = [k \in Hooks |-> IF heard[k] <= 1 THEN {} ELSE newer[k]]
  BY DEF HookTick
<1>11. heard' \in [Hooks -> 0..KeptMs] /\ newer' \in [Hooks -> SUBSET Hooks]
  BY <1>1, <1>4, <1>10
<1>12. ASSUME NEW k \in Hooks, heard'[k] > 0
       PROVE  HoldsTheAnswer(entries', heard'[k], newer'[k], k) \/ Cardinality(newer'[k]) >= KeptHooks
  <2>1. heard[k] \in 0..KeptMs /\ heard'[k] = Less(heard[k])
    BY <1>1, <1>10
  <2>2. heard[k] > 1 /\ heard[k] > 0 /\ heard'[k] = heard[k] - 1 /\ ~(heard[k] <= 1)
    BY <1>1, <1>12, <2>1 DEF Less
  <2>3. newer'[k] = newer[k]
    BY <1>10, <2>2
  <2>4. CASE HoldsTheAnswer(entries, heard[k], newer[k], k)
    <3> PICK i \in 1..n :
          /\ entries[i].key = k /\ entries[i].left >= heard[k]
          /\ \A j \in 1..n : i < j => entries[j].key \in newer[k]
      BY <2>4 DEF HoldsTheAnswer, n
    <3>1. entries'[i].left >= heard'[k]
      BY <1>1, <1>5, <2>1, <2>2 DEF Less
    <3>2. entries'[i].key = k /\ \A j \in 1..n : i < j => entries'[j].key \in newer'[k]
      BY <1>5, <2>3
    <3> QED  BY <1>8, <3>1, <3>2 DEF HoldsTheAnswer
  <2>5. CASE Cardinality(newer[k]) >= KeptHooks
    BY <2>3, <2>5
  <2> QED  BY <1>1, <2>2, <2>4, <2>5 DEF KeptSince
<1>13. KeptSince(entries', heard', newer')
  BY <1>12 DEF KeptSince
<1> QED  BY <1>1, <1>7, <1>8, <1>9, <1>11, <1>13 DEF HeardInv, KeptOK

LEMMA KInit == HookInit => HeardInv
<1> SUFFICES ASSUME HookInit PROVE HeardInv
  OBVIOUS
<1>1. /\ entries = <<>> /\ heard = [k \in Hooks |-> 0] /\ newer = [k \in Hooks |-> {}]
  BY DEF HookInit
<1>2. <<>> \in Seq(Entry) /\ Len(<<>>) = 0 /\ 1..0 = {}
  BY EmptySeq
<1>3. OneEach(<<>>)
  BY <1>2 DEF OneEach
<1>4. 0 \in 0..KeptMs /\ 0 <= KeptHooks
  BY Bounds
<1> QED  BY <1>1, <1>2, <1>3, <1>4 DEF HeardInv, KeptOK, KeptSince

LEMMA KStep == HookInv /\ HeardInv /\ [HookNext]_hookVars => HeardInv'
<1> SUFFICES ASSUME HookInv, HeardInv, [HookNext]_hookVars PROVE HeardInv'
  OBVIOUS
<1>1. CASE UNCHANGED <<entries, heard, newer>>
  BY <1>1 DEF HeardInv, KeptOK
<1>2. ASSUME NEW r \in Reads, Write(r) PROVE HeardInv'
  <2> DEFINE k == reading[r].key
             got == reading[r].got
  <2>1. CASE got = "thrown"
    BY <1>1, <1>2, <2>1 DEF Write, history
  <2>2. CASE got # "thrown"
    <3>1. k \in Hooks
      BY <1>2 DEF Write, HookInv, IsTheOneJoined
    <3>2. AfterAnswer(entries, heard, newer, entries', heard', newer', k, got)
      BY <1>2, <2>2 DEF Write, AfterAnswer
    <3> HIDE DEF k, got
    <3>3. KeptOK(entries', heard', newer')
      BY <3>1, <3>2, WriteKeeps DEF HeardInv
    <3> QED  BY <3>3 DEF HeardInv
  <2> QED  BY <2>1, <2>2
<1>3. CASE HookTick
  BY <1>3, TickKeeps
<1>4. ASSUME NEW a \in Askers, GoOn(a) \/ \E k \in Hooks : Join(a, k) \/ AskService(a, k)
      PROVE  UNCHANGED <<entries, heard, newer>>
  BY <1>4 DEF GoOn, Join, AskService, kept, history
<1>5. ASSUME NEW r \in Reads, TurnComes(r) \/ Back(r) \/ Clear(r)
      PROVE  UNCHANGED <<entries, heard, newer>>
  BY <1>5 DEF TurnComes, Back, Clear, kept, history
<1>6. CASE UNCHANGED hookVars
  BY <1>1, <1>6 DEF hookVars, kept, history
<1> QED  BY <1>1, <1>2, <1>3, <1>4, <1>5, <1>6 DEF HookNext

\* What a service said is kept for its time, unless a table full of newer answers
\* has taken its place (keptReads.ts:12-15, 21-22).
THEOREM AnswersKept == HookSpec => []KeptAsPromised
<1>1. HookInit => HookInv /\ InLineUnderWay /\ begun \subseteq line /\ HeardInv
  BY InitOK, KInit DEF HookInit, Service!Init, InLineUnderWay
<1>2. HookInv /\ InLineUnderWay /\ begun \subseteq line /\ HeardInv /\ [HookNext]_hookVars
        => HookInv' /\ InLineUnderWay' /\ begun' \subseteq line' /\ HeardInv'
  BY StepOK, LineOK, KStep
<1>3. HeardInv => KeptAsPromised
  <2> SUFFICES ASSUME HeardInv, NEW k \in Hooks, heard[k] > 0, Cardinality(newer[k]) < KeptHooks
               PROVE  StillAnswers(k)
    BY DEF KeptAsPromised
  <2>1. /\ entries \in Seq(Entry) /\ heard[k] \in 0..KeptMs /\ newer[k] \in SUBSET Hooks
        /\ KeptSince(entries, heard, newer) /\ KeptMs \in Nat
    BY Bounds DEF HeardInv, KeptOK
  <2>2. ~(Cardinality(newer[k]) >= KeptHooks)
    BY <2>1, Bounds
  <2>3. HoldsTheAnswer(entries, heard[k], newer[k], k)
    BY <2>1, <2>2 DEF KeptSince
  <2> PICK i \in 1..Len(entries) : entries[i].key = k /\ entries[i].left >= heard[k]
    BY <2>3 DEF HoldsTheAnswer
  <2>4. entries[i] \in Entry
    BY <2>1, ElementOfSeq
  <2>5. entries[i].left > 0
    BY <2>1, <2>4 DEF Entry
  <2> QED  BY <2>5 DEF StillAnswers
<1>4. (begun \subseteq line)' <=> begun' \subseteq line'
  OBVIOUS
<1> QED  BY <1>1, <1>2, <1>3, <1>4, PTL DEF HookSpec

\* Who asks, and who is in the service's line.
AskersOK == asker \in [Askers -> AskerState] /\ Service!TypeOK

LEMMA AskersStep == HookInv /\ AskersOK /\ [HookNext]_hookVars => AskersOK'
<1> SUFFICES ASSUME HookInv, AskersOK, [HookNext]_hookVars PROVE AskersOK'
  OBVIOUS
<1>1. /\ asker \in [Askers -> AskerState] /\ running \in [Hooks -> Reads \cup {None}]
      /\ NotAsking \in AskerState
      /\ \A r \in Reads : [at |-> "waiting", on |-> r] \in AskerState
  BY DEF AskersOK, HookInv, ReadsTyped, AskerState, NotAsking
<1>2. ASSUME UNCHANGED served PROVE Service!TypeOK'
  BY <1>2 DEF AskersOK, Service!TypeOK, served
<1>3. ASSUME NEW a \in Askers, NEW k \in Hooks, Join(a, k) PROVE AskersOK'
  <2>1. running[k] \in Reads
    BY <1>1, <1>3 DEF Join
  <2>2. asker' \in [Askers -> AskerState]
    BY <1>1, <1>3, <2>1 DEF Join
  <2> QED  BY <1>2, <1>3, <2>2 DEF AskersOK, Join
<1>4. ASSUME NEW a \in Askers, NEW k \in Hooks, AskService(a, k) PROVE AskersOK'
  <2>1. PICK r \in Unused :
          /\ asker' = [asker EXCEPT ![a] = [at |-> "waiting", on |-> r]]
          /\ Service!Enter(r)
    BY <1>4 DEF AskService
  <2>2. r \in Reads
    <3> DEFINE free == {q \in Reads : reading[q].at = "none"}
    <3>1. free # {} /\ r = CHOOSE q \in free : TRUE
      BY DEF Unused
    <3> QED  BY <3>1
  <2>3. Service!TypeOK'
    BY <2>1, <2>2 DEF AskersOK, Service!TypeOK, Service!Enter
  <2> QED  BY <1>1, <2>1, <2>2, <2>3 DEF AskersOK
<1>5. ASSUME NEW a \in Askers, GoOn(a) PROVE AskersOK'
  BY <1>1, <1>2, <1>5 DEF AskersOK, GoOn
<1>6. ASSUME NEW r \in Reads, TurnComes(r) PROVE AskersOK'
  BY <1>1, <1>6 DEF AskersOK, TurnComes, Service!Begin, Service!TypeOK
<1>7. ASSUME NEW r \in Reads, Back(r) PROVE AskersOK'
  <2>1. Service!TypeOK'
    BY <1>7 DEF AskersOK, Back, Service!End, Service!TypeOK
  <2> QED  BY <1>1, <1>7, <2>1 DEF AskersOK, Back
<1>8. ASSUME NEW r \in Reads, Write(r) PROVE AskersOK'
  BY <1>1, <1>2, <1>8 DEF AskersOK, Write, Told
<1>9. ASSUME NEW r \in Reads, Clear(r) PROVE AskersOK'
  BY <1>1, <1>2, <1>9 DEF AskersOK, Clear
<1>10. CASE HookTick
  BY <1>1, <1>2, <1>10 DEF AskersOK, HookTick
<1>11. CASE UNCHANGED hookVars
  BY <1>1, <1>2, <1>11 DEF AskersOK, hookVars
<1> QED  BY <1>3, <1>4, <1>5, <1>6, <1>7, <1>8, <1>9, <1>10, <1>11 DEF HookNext

\* Every variable of the checks of hooks has its type: no hook has two entries,
\* and the table of them is never over its size.
THEOREM HooksTypeCorrect == HookSpec => []HookTypeOK
<1>1. HookInit => HookInv /\ InLineUnderWay /\ begun \subseteq line /\ HeardInv /\ AskersOK
  BY InitOK, KInit DEF HookInit, Service!Init, InLineUnderWay, AskersOK, AskerState, NotAsking, Service!TypeOK
<1>2. HookInv /\ InLineUnderWay /\ begun \subseteq line /\ HeardInv /\ AskersOK /\ [HookNext]_hookVars
        => HookInv' /\ InLineUnderWay' /\ begun' \subseteq line' /\ HeardInv' /\ AskersOK'
  BY StepOK, LineOK, KStep, AskersStep
<1>3. HookInv /\ HeardInv /\ AskersOK => HookTypeOK
  <2> SUFFICES ASSUME HookInv, HeardInv, AskersOK PROVE HookTypeOK
    OBVIOUS
  <2>1. \A i, j \in 1..Len(entries) : entries[i].key = entries[j].key => i = j
    <3> SUFFICES ASSUME NEW i \in 1..Len(entries), NEW j \in 1..Len(entries), i # j
                 PROVE  entries[i].key # entries[j].key
      OBVIOUS
    <3>1. Len(entries) \in Nat /\ OneEach(entries)
      BY LenProperties DEF HeardInv, KeptOK
    <3>2. i < j \/ j < i
      BY <3>1
    <3> QED  BY <3>1, <3>2 DEF OneEach
  <2> QED  BY <2>1 DEF HookTypeOK, HookInv, ReadsTyped, HeardInv, KeptOK, AskersOK
<1>4. (begun \subseteq line)' <=> begun' \subseteq line'
  OBVIOUS
<1> QED  BY <1>1, <1>2, <1>3, <1>4, PTL DEF HookSpec

-----------------------------------------------------------------------------
(***************************************************************************)
(* What was written of the explanations is there.                          *)
(***************************************************************************)
\* The last writing of a key is kept as it was, and all put in since is of keys
\* that were put there since.
HoldsTheWriting(es, at, since, k) ==
  \E i \in 1..Len(es) :
    /\ es[i].key = k /\ es[i].writtenAt = at
    /\ \A j \in 1..Len(es) : i < j => es[j].key \in since

WrittenSince(es, since, now) ==
  \A k \in Keys : \A t \in written[k] : now < t + Ttl =>
    HoldsTheWriting(es, t, since[k], k) \/ Cardinality(since[k]) >= MaxEntries

HistoryOK ==
  /\ written \in [Keys -> {{}} \cup {{t} : t \in Time}]
  /\ later \in [Keys -> SUBSET Keys]
  /\ \A k \in Keys : IsFiniteSet(later[k])
  /\ \A k \in Keys : \A t \in written[k] : t <= clock

FromWritings == \A i \in 1..Len(cache) : cache[i].writtenAt \in written[cache[i].key]

CacheInv ==
  /\ clock \in Time
  /\ cache \in Seq(Entries) /\ Len(cache) <= MaxEntries /\ OneEach(cache)
  /\ HistoryOK
  /\ FromWritings
  /\ WrittenSince(cache, later, clock)

LEMMA CacheBounds ==
  /\ Ttl \in Nat /\ Ttl > 0 /\ MaxEntries \in Nat /\ MaxEntries > 0
  /\ PerHour \in Nat /\ PerHour > 0 /\ Hour \in Nat /\ Hour > 0 /\ Every \in Nat /\ Every > 0
  /\ Patience \in Nat /\ MaxClock \in Nat /\ MaxAsked \in Nat /\ MaxFaults \in Nat
  /\ FrontPage \in Seq(Keys)
BY ExplanationsAssumption

\* A key that was looked up is kept, or it was not fresh.
LEMMA LookedUpKeeps ==
  ASSUME CacheInv, NEW k \in Keys, cache' = LookedUp(k), UNCHANGED <<clock, written, later>>
  PROVE  CacheInv'
<1>1. CASE Kept(k)
  BY <1>1 DEF LookedUp, CacheInv, HistoryOK, FromWritings, WrittenSince
<1>2. CASE ~Kept(k)
  <2>1. cache' = Without(cache, k)
    BY <1>2 DEF LookedUp
  <2>2. cache \in Seq(Entries) /\ OneEach(cache) /\ Len(cache) \in Nat
    BY LenProperties DEF CacheInv
  <2>3. /\ cache' \in Seq(Entries) /\ PartOf(cache', cache)
        /\ \A i \in 1..Len(cache) : cache[i].key # k => IsKept(cache', cache, i)
    BY <2>1, <2>2, WithoutIs
  <2>4. OneEach(cache')
    BY <2>2, <2>3, PartKeeps
  <2>5. Len(cache') <= MaxEntries
    <3>1. Len(cache') \in Nat /\ Len(cache') <= Len(cache)
      BY <2>3, LenProperties DEF PartOf
    <3> QED  BY <2>2, <3>1, CacheBounds DEF CacheInv
  <2>6. \A i \in 1..Len(cache') : cache'[i].writtenAt \in written'[cache'[i].key]
    BY <2>3 DEF PartOf, CacheInv, FromWritings
  <2>7. ASSUME NEW l \in Keys, NEW t \in written[l], clock < t + Ttl
        PROVE  HoldsTheWriting(cache', t, later[l], l) \/ Cardinality(later[l]) >= MaxEntries
    <3>1. CASE HoldsTheWriting(cache, t, later[l], l)
      <4> PICK i \in 1..Len(cache) :
            /\ cache[i].key = l /\ cache[i].writtenAt = t
            /\ \A j \in 1..Len(cache) : i < j => cache[j].key \in later[l]
        BY <3>1 DEF HoldsTheWriting
      <4>1. l # k
        <5> SUFFICES ASSUME l = k PROVE FALSE
          OBVIOUS
        <5>1. i \in DOMAIN cache /\ cache[i] \in Entries
          BY <2>2, ElementOfSeq, LenProperties
        <5>2. t \in Nat /\ clock \in Nat
          BY <5>1, CacheBounds DEF CacheInv, Entries, Time
        <5>3. Fresh(cache[i])
          BY <2>7, <5>2, CacheBounds DEF Fresh
        <5> QED  BY <1>2, <5>1, <5>3 DEF Kept
      <4>2. PICK a \in 1..Len(cache') :
              /\ cache'[a] = cache[i]
              /\ \A b \in 1..Len(cache') : a < b => \E j \in 1..Len(cache) : i < j /\ cache'[b] = cache[j]
        BY <2>3, <4>1 DEF IsKept
      <4> QED  BY <4>2 DEF HoldsTheWriting
    <3> QED  BY <2>7, <3>1 DEF CacheInv, WrittenSince
  <2> QED  BY <2>3, <2>4, <2>5, <2>6, <2>7 DEF CacheInv, HistoryOK, FromWritings, WrittenSince
<1> QED  BY <1>1, <1>2

LEMMA KeepsKeeps ==
  ASSUME CacheInv, NEW k \in Keys, Keeps(k), clock' = clock
  PROVE  CacheInv'
<1> DEFINE e == [key |-> k, writtenAt |-> clock]
<1>1. cache' = PutLast(cache, e, MaxEntries)
  BY DEF Keeps, Put
<1>2. /\ written' = [written EXCEPT ![k] = {clock}]
      /\ later' = [l \in Keys |-> IF l = k \/ written[l] = {} THEN {} ELSE later[l] \cup {k}]
  BY DEF Keeps
<1>3. e \in Entries /\ e.key = k /\ e.writtenAt = clock
  BY DEF CacheInv, Entries
<1>4. cache \in Seq(Entries) /\ OneEach(cache) /\ Len(cache) <= MaxEntries
  BY DEF CacheInv
<1> HIDE DEF e
<1>5. /\ cache' \in Seq(Entries) /\ Len(cache') <= MaxEntries /\ OneEach(cache')
      /\ Len(cache') > 0 /\ cache'[Len(cache')] = e
      /\ GivesWay(cache, cache', e, MaxEntries)
      /\ ComesFrom(cache, cache', e)
  <2>1. MaxEntries \in Nat /\ MaxEntries > 0
    BY CacheBounds
  <2>2. AfterPut(Entries, cache, PutLast(cache, e, MaxEntries), e, MaxEntries)
    BY <1>3, <1>4, <2>1, PutLastIs
  <2> QED  BY <1>1, <2>2 DEF AfterPut
<1>6. Len(cache') \in Nat
  BY <1>5, LenProperties
<1>7. HistoryOK'
  <2>1. written' \in [Keys -> {{}} \cup {{t} : t \in Time}] /\ later' \in [Keys -> SUBSET Keys]
    BY <1>2 DEF CacheInv, HistoryOK
  <2>2. ASSUME NEW l \in Keys PROVE IsFiniteSet(later'[l])
    <3>1. IsFiniteSet(later[l] \cup {k}) /\ IsFiniteSet({})
      BY FS_AddElement, FS_EmptySet DEF CacheInv, HistoryOK
    <3>2. later'[l] = {} \/ later'[l] = later[l] \cup {k}
      BY <1>2
    <3> QED  BY <3>1, <3>2
  <2>3. ASSUME NEW l \in Keys, NEW t \in written'[l] PROVE t <= clock'
    <3>1. CASE l = k
      <4>1. t = clock /\ clock \in Nat
        BY <1>2, <2>3, <3>1, CacheBounds DEF CacheInv, HistoryOK, Time
      <4> QED  BY <4>1
    <3>2. CASE l # k
      BY <1>2, <2>3, <3>2 DEF CacheInv, HistoryOK
    <3> QED  BY <3>1, <3>2
  <2> QED  BY <2>1, <2>2, <2>3 DEF HistoryOK
<1>8. FromWritings'
  <2> SUFFICES ASSUME NEW b \in 1..Len(cache') PROVE cache'[b].writtenAt \in written'[cache'[b].key]
    BY DEF FromWritings
  <2>1. CASE cache'[b] = e
    BY <1>2, <1>3, <2>1 DEF CacheInv, HistoryOK
  <2>2. ASSUME NEW j \in 1..Len(cache), cache'[b] = cache[j], cache[j].key # k
        PROVE  cache'[b].writtenAt \in written'[cache'[b].key]
    <3>1. cache[j].writtenAt \in written[cache[j].key]
      BY DEF CacheInv, FromWritings
    <3>2. cache[j] \in Entries
      BY <1>4, ElementOfSeq
    <3>3. cache[j].key \in Keys
      BY <3>2 DEF Entries
    <3> QED  BY <1>2, <2>2, <3>1, <3>3 DEF CacheInv, HistoryOK
  <2> QED  BY <1>3, <1>5, <2>1, <2>2 DEF ComesFrom
<1>9. ASSUME NEW l \in Keys, NEW t \in written'[l], clock < t + Ttl
      PROVE  HoldsTheWriting(cache', t, later'[l], l) \/ Cardinality(later'[l]) >= MaxEntries
  <2>1. CASE l = k
    <3>1. t = clock
      BY <1>2, <1>9, <2>1 DEF CacheInv, HistoryOK
    <3>2. Len(cache') \in 1..Len(cache') /\ \A j \in 1..Len(cache') : ~(Len(cache') < j)
      BY <1>5, <1>6
    <3> QED  BY <1>3, <1>5, <2>1, <3>1, <3>2 DEF HoldsTheWriting
  <2>2. CASE l # k
    <3>1. t \in written[l] /\ written[l] # {}
      BY <1>2, <1>9, <2>2 DEF CacheInv, HistoryOK
    <3>2. later'[l] = later[l] \cup {k}
      BY <1>2, <2>2, <3>1
    <3>3. IsFiniteSet(later[l]) /\ IsFiniteSet(later'[l])
      BY <1>7 DEF HistoryOK, CacheInv
    <3>4. CASE HoldsTheWriting(cache, t, later[l], l)
      <4> PICK i \in 1..Len(cache) :
            /\ cache[i].key = l /\ cache[i].writtenAt = t
            /\ \A j \in 1..Len(cache) : i < j => cache[j].key \in later[l]
        BY <3>4 DEF HoldsTheWriting
      <4>1. cache[i].key # e.key
        BY <1>3, <2>2
      <4>2. ASSUME NEW a \in 1..Len(cache'), cache'[a] = cache[i],
                   \A b \in 1..Len(cache') : a < b =>
                     cache'[b] = e \/ \E j \in 1..Len(cache) : i < j /\ cache'[b] = cache[j]
            PROVE  HoldsTheWriting(cache', t, later'[l], l)
        <5>1. \A b \in 1..Len(cache') : a < b => cache'[b].key \in later'[l]
          BY <1>3, <3>2, <4>2
        <5> QED  BY <4>2, <5>1 DEF HoldsTheWriting
      <4>3. ASSUME Len(cache') = MaxEntries,
                   \A b \in 1..Len(cache') :
                     cache'[b] = e \/ \E j \in 1..Len(cache) : i < j /\ cache'[b] = cache[j]
            PROVE  Cardinality(later'[l]) >= MaxEntries
        <5>1. \A b \in 1..Len(cache') : cache'[b].key \in later'[l]
          BY <1>3, <3>2, <4>3
        <5>2. Len(cache') <= Cardinality(later'[l])
          BY <1>5, <3>3, <5>1, FullOfOthers
        <5>3. Cardinality(later'[l]) \in Nat
          BY <3>3, FS_CardinalityType
        <5> QED  BY <1>6, <4>3, <5>2, <5>3
      <4> QED  BY <1>5, <4>1, <4>2, <4>3 DEF GivesWay
    <3>5. CASE Cardinality(later[l]) >= MaxEntries
      <4>1. Cardinality(later[l]) \in Nat /\ Cardinality(later'[l]) \in Nat
        BY <3>3, FS_CardinalityType
      <4>2. Cardinality(later[l]) <= Cardinality(later'[l])
        BY <3>2, <3>3, FS_Subset
      <4> QED  BY <3>5, <4>1, <4>2, CacheBounds
    <3> QED  BY <1>9, <3>1, <3>4, <3>5 DEF CacheInv, WrittenSince
  <2> QED  BY <2>1, <2>2
<1> QED  BY <1>5, <1>7, <1>8, <1>9 DEF CacheInv, WrittenSince

LEMMA ClockKeeps ==
  ASSUME CacheInv, clock < MaxClock, clock' = clock + 1, UNCHANGED <<cache, written, later>>
  PROVE  CacheInv'
<1>1. clock \in Nat /\ clock' \in Time
  BY CacheBounds DEF CacheInv, Time
<1>2. \A l \in Keys : \A t \in written[l] : t \in Nat /\ t <= clock
  BY CacheBounds DEF CacheInv, HistoryOK, Time
<1>3. \A l \in Keys : \A t \in written[l] : t <= clock' /\ (clock' < t + Ttl => clock < t + Ttl)
  BY <1>1, <1>2, CacheBounds
<1>4. HistoryOK'
  BY <1>3 DEF CacheInv, HistoryOK
<1>5. WrittenSince(cache, later, clock')
  BY <1>3 DEF CacheInv, WrittenSince
<1> QED  BY <1>1, <1>3, <1>4, <1>5 DEF CacheInv, FromWritings, WrittenSince

-----------------------------------------------------------------------------
(***************************************************************************)
(* What pages may have written in an hour.                                 *)
(***************************************************************************)
Windows == WindowsFrom(Time, {Everyone}, PerHour)

\* The calls from a time on.
Since(these, at) == {c \in these : c.at >= at}

WindowsOK ==
  /\ budget \in Seq(Windows) /\ Len(budget) <= 1
  /\ \A i \in 1..Len(budget) :
       /\ budget[i].startedAt <= clock
       /\ clock < budget[i].startedAt + Hour => budget[i].count <= Cardinality(Since(calls, budget[i].startedAt))

SpentInv ==
  /\ clock \in Time /\ asked \in 0..MaxAsked
  /\ calls \in SUBSET Calls /\ IsFiniteSet(calls)
  /\ \A c \in calls : c.page < asked /\ c.at <= clock
  /\ WindowsOK

LEMMA WindowIs ==
  \A w \in Windows : /\ w.key = Everyone /\ w.startedAt \in Time /\ w.startedAt \in Nat
                     /\ w.count \in 1..PerHour /\ w.count \in Nat
BY CacheBounds DEF Windows, WindowsFrom, Time

LEMMA CallIs == \A c \in Calls : c.page \in Nat /\ c.at \in Nat
BY CacheBounds DEF Calls, Time

\* The window that is open, if there is one.
LEMMA OneWindow ==
  ASSUME SpentInv
  PROVE  /\ OpenAt(budget, Everyone, clock, Hour) \subseteq {1}
         /\ \A i \in OpenAt(budget, Everyone, clock, Hour) :
              /\ i \in 1..Len(budget) /\ i = 1 /\ budget[i] \in Windows
              /\ clock < budget[i].startedAt + Hour
              /\ budget[i].count <= Cardinality(Since(calls, budget[i].startedAt))
<1>1. Len(budget) \in Nat /\ Len(budget) <= 1 /\ DOMAIN budget = 1..Len(budget)
  BY LenProperties DEF SpentInv, WindowsOK
<1>2. ASSUME NEW i \in OpenAt(budget, Everyone, clock, Hour)
      PROVE  /\ i \in 1..Len(budget) /\ i = 1 /\ budget[i] \in Windows
             /\ clock < budget[i].startedAt + Hour
  BY <1>1, ElementOfSeq DEF OpenAt, SpentInv, WindowsOK
<1> QED  BY <1>2 DEF SpentInv, WindowsOK

\* Only calls of the hour count against a window that is open.
LEMMA OpenInLastHour ==
  ASSUME SpentInv, NEW i \in OpenAt(budget, Everyone, clock, Hour)
  PROVE  /\ Since(calls, budget[i].startedAt) \subseteq LastHour
         /\ IsFiniteSet(LastHour) /\ IsFiniteSet(Since(calls, budget[i].startedAt))
         /\ Cardinality(Since(calls, budget[i].startedAt)) \in Nat
         /\ Cardinality(LastHour) \in Nat
         /\ Cardinality(Since(calls, budget[i].startedAt)) <= Cardinality(LastHour)
<1> DEFINE s == budget[i].startedAt
<1>1. s \in Nat /\ clock \in Nat /\ Hour \in Nat /\ clock < s + Hour
  BY OneWindow, WindowIs, CacheBounds DEF SpentInv, Time
<1> HIDE DEF s
<1>2. \A c \in calls : c.at \in Nat
  BY CallIs DEF SpentInv
<1>3. Since(calls, s) \subseteq LastHour
  BY <1>1, <1>2 DEF Since, LastHour
<1>4. LastHour \subseteq calls
  BY DEF LastHour
<1>5. IsFiniteSet(LastHour)
  BY <1>4, FS_Subset DEF SpentInv
<1> QED  BY <1>3, <1>5, FS_Subset, FS_CardinalityType DEF s

\* A page that is turned away had the hour spent before it.
LEMMA TurnedAway ==
  ASSUME SpentInv, ~MayTake PROVE Cardinality(LastHour) >= PerHour
<1>1. PICK i \in OpenAt(budget, Everyone, clock, Hour) : ~(budget[i].count < PerHour)
  BY DEF MayTake, Allows
<1>2. budget[i].count \in Nat /\ budget[i].count <= Cardinality(Since(calls, budget[i].startedAt))
  BY OneWindow, WindowIs
<1> QED  BY <1>1, <1>2, OpenInLastHour, CacheBounds

\* The window that is renewed, or begins.
LEMMA WindowAnew ==
  ASSUME SpentInv, OpenAt(budget, Everyone, clock, Hour) = {},
         budget' = Check(budget, Everyone, clock, PerHour, Hour, 1)
  PROVE  /\ budget' \in Seq(Windows) /\ Len(budget') = 1
         /\ budget'[1].startedAt = clock /\ budget'[1].count = 1
<1> DEFINE w == [key |-> Everyone, startedAt |-> clock, count |-> 1]
<1>1. budget' = PutLast(budget, w, 1)
  BY DEF Check, StartWindow
<1>2. w \in Windows /\ w.startedAt = clock /\ w.count = 1
  BY CacheBounds DEF Windows, WindowsFrom, SpentInv
<1> HIDE DEF w
<1>3. budget \in Seq(Windows) /\ Len(budget) <= 1 /\ Len(budget) \in Nat
  BY LenProperties DEF SpentInv, WindowsOK
<1>4. OneEach(budget)
  BY <1>3 DEF OneEach
<1>5. AfterPut(Windows, budget, PutLast(budget, w, 1), w, 1)
  BY <1>2, <1>3, <1>4, PutLastIs
<1>6. budget' \in Seq(Windows) /\ Len(budget') <= 1 /\ Len(budget') > 0 /\ budget'[Len(budget')] = w
  BY <1>1, <1>5 DEF AfterPut
<1>7. Len(budget') \in Nat
  BY <1>6, LenProperties
<1>8. Len(budget') = 1
  <2>1. \A n \in Nat : n > 0 /\ n <= 1 => n = 1
    OBVIOUS
  <2> QED  BY <1>6, <1>7, <2>1
<1> QED  BY <1>2, <1>6, <1>8

\* The window that counts one more.
LEMMA WindowCountsOn ==
  ASSUME SpentInv, OpenAt(budget, Everyone, clock, Hour) # {},
         budget' = Check(budget, Everyone, clock, PerHour, Hour, 1)
  PROVE  /\ Len(budget) = 1 /\ 1 \in OpenAt(budget, Everyone, clock, Hour)
         /\ budget' \in Seq(Windows) /\ Len(budget') = 1
         /\ budget'[1].startedAt = budget[1].startedAt
         /\ budget'[1].count = IF budget[1].count < PerHour THEN budget[1].count + 1 ELSE budget[1].count
<1> DEFINE open == OpenAt(budget, Everyone, clock, Hour)
<1>1. open = {1} /\ 1 \in 1..Len(budget) /\ budget[1] \in Windows
  BY OneWindow
<1>2. Len(budget) = 1 /\ DOMAIN budget = 1..1
  <2>1. Len(budget) \in Nat /\ DOMAIN budget = 1..Len(budget) /\ Len(budget) <= 1
    BY LenProperties DEF SpentInv, WindowsOK
  <2>2. Len(budget) = 1
    BY <1>1, <2>1
  <2> QED  BY <2>1, <2>2
<1>3. budget' = [i \in DOMAIN budget |->
                   IF i \in open /\ budget[i].count < PerHour
                   THEN [budget[i] EXCEPT !.count = @ + 1] ELSE budget[i]]
  BY <1>1 DEF Check
<1> HIDE DEF open
<1> DEFINE w == IF budget[1].count < PerHour THEN [budget[1] EXCEPT !.count = @ + 1] ELSE budget[1]
<1>4. budget' = [i \in 1..1 |-> w]
  BY <1>1, <1>2, <1>3
<1>5. /\ w \in Windows /\ w.startedAt = budget[1].startedAt
      /\ w.count = IF budget[1].count < PerHour THEN budget[1].count + 1 ELSE budget[1].count
  <2>1. budget[1] \in [key : {Everyone}, startedAt : Time, count : 1..PerHour] /\ PerHour \in Nat
    BY <1>1, CacheBounds DEF Windows, WindowsFrom
  <2>2. CASE budget[1].count < PerHour
    <3>1. budget[1].count + 1 \in 1..PerHour
      BY <2>1, <2>2
    <3> QED  BY <2>1, <2>2, <3>1 DEF Windows, WindowsFrom
  <2>3. CASE ~(budget[1].count < PerHour)
    BY <1>1, <2>3
  <2> QED  BY <2>2, <2>3
<1> HIDE DEF w
<1>6. budget' \in Seq(Windows) /\ budget'[1] = w
  <2>1. budget' \in [1..1 -> Windows] /\ budget'[1] = w
    BY <1>4, <1>5
  <2> QED  BY <2>1, SeqDef
<1>7. Len(budget') = 1
  <2>1. Len(budget') \in Nat /\ DOMAIN budget' = 1..Len(budget') /\ DOMAIN budget' = 1..1
    BY <1>4, <1>6, LenProperties
  <2>2. 1 \in 1..Len(budget') /\ Len(budget') \in {0} \cup (1..1)
    BY <2>1
  <2> QED  BY <2>1, <2>2
<1> QED  BY <1>1, <1>2, <1>5, <1>6, <1>7 DEF open

LEMMA TakesKeeps ==
  ASSUME SpentInv, NEW k, Takes(k), asked < MaxAsked, asked' = asked + 1, clock' = clock
  PROVE  SpentInv'
<1>1. /\ clock \in Nat /\ asked \in Nat /\ asked' \in 0..MaxAsked /\ clock \in Time
      /\ Hour \in Nat /\ Hour > 0 /\ PerHour \in Nat /\ PerHour > 0 /\ MaxAsked \in Nat
  BY CacheBounds DEF SpentInv, Time
<1>2. \A c \in calls : c.page \in Nat /\ c.at \in Nat /\ c.page < asked /\ c.at <= clock
  BY CallIs DEF SpentInv
<1>3. CASE UNCHANGED <<budget, calls>>
  <2>1. \A c \in calls' : c.page < asked' /\ c.at <= clock'
    BY <1>1, <1>2, <1>3
  <2>2. WindowsOK'
    BY <1>3 DEF SpentInv, WindowsOK, Since
  <2> QED  BY <1>1, <1>3, <2>1, <2>2 DEF SpentInv
<1>4. CASE ~Kept(k) /\ ~MayTake
  <2>1. budget' = Check(budget, Everyone, clock, PerHour, Hour, 1) /\ calls' = calls
    BY <1>4 DEF Takes
  <2>2. PICK i \in OpenAt(budget, Everyone, clock, Hour) : ~(budget[i].count < PerHour)
    BY <1>4 DEF MayTake, Allows
  <2>3. i = 1
    BY OneWindow
  <2>4. /\ Len(budget) = 1 /\ budget' \in Seq(Windows) /\ Len(budget') = 1
        /\ budget'[1].startedAt = budget[1].startedAt
        /\ budget'[1].count = budget[1].count
    BY <2>1, <2>2, <2>3, WindowCountsOn
  <2>5. \A c \in calls' : c.page < asked' /\ c.at <= clock'
    BY <1>1, <1>2, <2>1
  <2>6. \A j \in 1..Len(budget') : j = 1 /\ j \in 1..Len(budget)
    BY <2>4
  <2>7. WindowsOK'
    BY <2>1, <2>4, <2>6 DEF SpentInv, WindowsOK, Since
  <2> QED  BY <1>1, <2>1, <2>5, <2>7 DEF SpentInv
<1>5. CASE ~Kept(k) /\ MayTake
  <2> DEFINE c1 == [page |-> asked, at |-> clock]
  <2>1. /\ budget' = Check(budget, Everyone, clock, PerHour, Hour, 1)
        /\ calls' = LastHour \cup {c1}
    BY <1>5 DEF Takes
  <2>2. c1 \in Calls /\ c1.page = asked /\ c1.at = clock /\ c1 \notin calls
    BY <1>1, <1>2 DEF Calls, SpentInv
  <2> HIDE DEF c1
  <2>3. LastHour \subseteq calls /\ IsFiniteSet(LastHour)
    BY FS_Subset DEF LastHour, SpentInv
  <2>4. calls' \in SUBSET Calls /\ IsFiniteSet(calls')
    BY <2>1, <2>2, <2>3, FS_AddElement DEF SpentInv
  <2>5. \A c \in calls' : c.page < asked' /\ c.at <= clock'
    BY <1>1, <1>2, <2>1, <2>2, <2>3
  <2>6. ASSUME NEW s \in Nat, s <= clock
        PROVE  IsFiniteSet(Since(calls', s)) /\ c1 \in Since(calls', s)
    <3>1. Since(calls', s) \subseteq calls'
      BY DEF Since
    <3> QED  BY <1>1, <2>1, <2>2, <2>4, <2>6, <3>1, FS_Subset DEF Since
  <2>7. CASE OpenAt(budget, Everyone, clock, Hour) = {}
    <3>1. /\ budget' \in Seq(Windows) /\ Len(budget') = 1
          /\ budget'[1].startedAt = clock /\ budget'[1].count = 1
      BY <2>1, <2>7, WindowAnew
    <3>2. {c1} \subseteq Since(calls', clock) /\ IsFiniteSet(Since(calls', clock))
      BY <1>1, <2>6
    <3>3. Cardinality({c1}) = 1 /\ Cardinality(Since(calls', clock)) \in Nat
          /\ Cardinality({c1}) <= Cardinality(Since(calls', clock))
      BY <3>2, FS_Singleton, FS_Subset, FS_CardinalityType
    <3>4. \A j \in 1..Len(budget') : j = 1
      BY <3>1
    <3>5. 1 <= Cardinality(Since(calls', clock))
      BY <3>3
    <3>6. WindowsOK'
      <4>1. budget'[1].startedAt <= clock' /\ budget'[1].count <= Cardinality(Since(calls', budget'[1].startedAt))
        BY <1>1, <3>1, <3>5
      <4>2. Len(budget') <= 1
        BY <3>1
      <4> QED  BY <3>1, <3>4, <4>1, <4>2 DEF WindowsOK
    <3> QED  BY <1>1, <2>4, <2>5, <3>6 DEF SpentInv
  <2>8. CASE OpenAt(budget, Everyone, clock, Hour) # {}
    <3> DEFINE s == budget[1].startedAt
    <3>1. /\ Len(budget) = 1 /\ 1 \in OpenAt(budget, Everyone, clock, Hour)
          /\ budget' \in Seq(Windows) /\ Len(budget') = 1
          /\ budget'[1].startedAt = s
      BY <2>1, <2>8, WindowCountsOn
    <3>2. budget[1].count < PerHour
      BY <1>5, <3>1 DEF MayTake, Allows
    <3>3. budget'[1].count = budget[1].count + 1
      BY <2>1, <2>8, <3>2, WindowCountsOn
    <3>4. /\ s \in Nat /\ s <= clock /\ clock < s + Hour
          /\ budget[1].count \in Nat /\ budget[1].count <= Cardinality(Since(calls, s))
      BY <3>1, OneWindow, WindowIs DEF SpentInv, WindowsOK
    <3>5. Since(calls, s) \subseteq LastHour /\ IsFiniteSet(Since(calls, s)) /\ Cardinality(Since(calls, s)) \in Nat
      BY <3>1, OpenInLastHour
    <3> HIDE DEF s
    <3>6. Since(calls, s) \cup {c1} \subseteq Since(calls', s) /\ c1 \notin Since(calls, s)
      <4>1. c1 \in Since(calls', s)
        BY <2>6, <3>4
      <4>2. Since(calls, s) \subseteq Since(calls', s)
        BY <2>1, <3>5 DEF Since
      <4>3. c1 \notin Since(calls, s)
        BY <2>2 DEF Since
      <4> QED  BY <4>1, <4>2, <4>3
    <3>7. /\ IsFiniteSet(Since(calls, s) \cup {c1})
          /\ Cardinality(Since(calls, s) \cup {c1}) = Cardinality(Since(calls, s)) + 1
      BY <3>5, <3>6, FS_AddElement
    <3>8. IsFiniteSet(Since(calls', s))
      BY <2>6, <3>4
    <3>9. /\ Cardinality(Since(calls', s)) \in Nat
          /\ Cardinality(Since(calls, s) \cup {c1}) <= Cardinality(Since(calls', s))
      BY <3>6, <3>8, FS_Subset, FS_CardinalityType
    <3>10. budget'[1].count <= Cardinality(Since(calls', s))
      BY <3>3, <3>4, <3>5, <3>7, <3>9
    <3>11. \A j \in 1..Len(budget') : j = 1
      BY <3>1
    <3>12. WindowsOK'
      <4>1. budget'[1].startedAt <= clock' /\ budget'[1].count <= Cardinality(Since(calls', budget'[1].startedAt))
        BY <1>1, <3>1, <3>4, <3>10
      <4>2. Len(budget') <= 1
        BY <3>1
      <4> QED  BY <3>1, <3>11, <4>1, <4>2 DEF WindowsOK
    <3> QED  BY <1>1, <2>4, <2>5, <3>12 DEF SpentInv
  <2> QED  BY <2>7, <2>8
<1> QED  BY <1>3, <1>4, <1>5 DEF Takes

LEMMA HourGoesOn ==
  ASSUME SpentInv, clock < MaxClock, clock' = clock + 1, UNCHANGED <<budget, calls, asked>>
  PROVE  SpentInv'
<1>1. clock \in Nat /\ clock' \in Time /\ Hour \in Nat
  BY CacheBounds DEF SpentInv, Time
<1>2. \A c \in calls : c.at \in Nat /\ c.at <= clock
  BY CallIs DEF SpentInv
<1>3. \A i \in 1..Len(budget) : budget[i].startedAt \in Nat
  BY ElementOfSeq, WindowIs DEF SpentInv, WindowsOK
<1>4. \A i \in 1..Len(budget) :
        budget[i].startedAt <= clock' /\ (clock' < budget[i].startedAt + Hour => clock < budget[i].startedAt + Hour)
  BY <1>1, <1>3 DEF SpentInv, WindowsOK
<1>5. WindowsOK'
  BY <1>4 DEF SpentInv, WindowsOK
<1> QED  BY <1>1, <1>2, <1>5 DEF SpentInv

-----------------------------------------------------------------------------
(***************************************************************************)
(* The pages being answered.                                               *)
(***************************************************************************)
PanelsOK == panel \in [Panels -> Panel \cup {Idle}]

LEMMA AllGatesAre == \A state \in {"open", "written", "missing"} : AllGates(state) \in Gates
BY DEF AllGates, Gates

\* A page that streams knows the key it asked for.
LEMMA StreamIs ==
  ASSUME PanelsOK, NEW r \in Panels, panel[r].at = "streams"
  PROVE  /\ panel[r] \in [at : {"streams"}, key : Keys, gates : Gates, due : Nat]
         /\ panel[r].key \in Keys /\ panel[r].gates \in Gates
<1>1. panel[r] \in Panel \cup {Idle}
  BY DEF PanelsOK
<1>2. panel[r] # Idle
  BY DEF Idle
<1> QED  BY <1>1, <1>2 DEF Panel

LEMMA EndsTyped ==
  ASSUME PanelsOK, NEW r \in Panels, NEW as \in {"success", "failed", "capped"},
         NEW gates \in Gates, Ends(r, as, gates)
  PROVE  PanelsOK'
<1>1. [at |-> as, gates |-> gates] \in Panel
  BY DEF Panel
<1> QED  BY <1>1 DEF PanelsOK, Ends

LEMMA AskTyped ==
  ASSUME PanelsOK, clock \in Time, NEW r \in Panels, NEW k \in Keys, Ask(r, k)
  PROVE  PanelsOK'
<1>1. CASE Kept(k)
  <2>1. Ends(r, "success", AllGates("written"))
    BY <1>1 DEF Ask
  <2> QED  BY <2>1, EndsTyped, AllGatesAre
<1>2. CASE ~Kept(k) /\ MayTake
  <2>1. Streams(r, k)
    BY <1>2 DEF Ask
  <2>2. clock + Patience \in Nat
    BY CacheBounds DEF Time
  <2>3. [at |-> "streams", key |-> k, gates |-> AllGates("open"), due |-> clock + Patience] \in Panel
    BY <2>2, AllGatesAre DEF Panel
  <2> QED  BY <2>1, <2>3 DEF Streams, PanelsOK
<1>3. CASE ~Kept(k) /\ ~MayTake
  <2>1. Ends(r, "capped", AllGates("missing"))
    BY <1>3 DEF Ask
  <2> QED  BY <2>1, EndsTyped, AllGatesAre
<1> QED  BY <1>1, <1>2, <1>3

LEMMA DeliverTyped ==
  ASSUME PanelsOK, NEW r \in Panels, NEW s \in Sections, Deliver(r, s)
  PROVE  PanelsOK'
<1>1. panel[r] \in [at : {"streams"}, key : Keys, gates : Gates, due : Nat]
  BY StreamIs DEF Deliver
<1>2. [panel[r].gates EXCEPT ![s] = "written"] \in Gates
  BY <1>1 DEF Gates
<1>3. [panel[r] EXCEPT !.gates = [panel[r].gates EXCEPT ![s] = "written"]] \in Panel
  BY <1>1, <1>2 DEF Panel
<1>4. panel' = [panel EXCEPT ![r] = [panel[r] EXCEPT !.gates = [panel[r].gates EXCEPT ![s] = "written"]]]
  BY DEF Deliver, PanelsOK
<1> QED  BY <1>3, <1>4 DEF PanelsOK

LEMMA ClosesTyped ==
  ASSUME PanelsOK, NEW r \in Panels, Succeeds(r) \/ Fails(r)
  PROVE  PanelsOK'
<1>1. panel[r].gates \in Gates
  BY StreamIs DEF Succeeds, Fails
<1>2. CloseRemaining(panel[r].gates) \in Gates
  BY <1>1 DEF CloseRemaining, Gates
<1>3. PICK as \in {"success", "failed"} : Ends(r, as, CloseRemaining(panel[r].gates))
  BY DEF Succeeds, Fails
<1> QED  BY <1>2, <1>3, EndsTyped

-----------------------------------------------------------------------------
(***************************************************************************)
(* The walk of the warmer.                                                 *)
(***************************************************************************)
Walk == Len(FrontPage)

\* How long so many pools may take.
Taking(n) == n * Patience

ARound == Every + Taking(Walk)

\* When a pool will have been seen to at the latest, of a warmer that has so
\* many of its round left.
DoneBy(at, left, due, n) ==
  IF at = "rests" THEN due + Taking(n)
  ELSE IF n > Walk - left THEN due + Taking(n - (Walk - left) - 1)
  ELSE due + (IF left = 0 THEN 0 ELSE Taking(left - 1)) + Every + Taking(n)

Longest(failed) == Ttl + (1 + failed) * ARound

\* An explanation written at one of these times, or not yet needed, does until then.
GoodUntil(times, until, failed) ==
  until < Longest(failed) \/ \E t \in times : until < t + Longest(failed)

RoundInv ==
  /\ clock \in Time /\ faults \in 0..MaxFaults
  /\ round \in Round /\ clock <= round.due
  /\ Len(round.left) <= Walk
  /\ \A j \in 1..Len(round.left) : round.left[j] = FrontPage[Walk - Len(round.left) + j]
  /\ round.at = "rests" => round.left = <<>>
  /\ round.at = "writes" => round.left # <<>>
  /\ \A n \in 1..Walk :
       GoodUntil(written[FrontPage[n]], DoneBy(round.at, Len(round.left), round.due, n), faults)

LEMMA TakingIs ==
  /\ Walk \in Nat /\ Every \in Nat /\ Every > 0 /\ ARound \in Nat
  /\ \A a \in Nat : Taking(a) \in Nat
  /\ Taking(0) = 0 /\ Taking(1) = Patience
  /\ \A a, b \in Nat : Taking(a + b) = Taking(a) + Taking(b)
  /\ \A a, b \in Nat : a <= b => Taking(a) <= Taking(b)
<1>1. Patience \in Nat /\ Every \in Nat /\ Every > 0 /\ Walk \in Nat
  BY CacheBounds, LenProperties DEF Walk
<1>2. \A a \in Nat : Taking(a) \in Nat
  BY <1>1 DEF Taking
<1>3. \A a, b \in Nat : Taking(a + b) = Taking(a) + Taking(b)
  BY <1>1 DEF Taking
<1>4. ASSUME NEW a \in Nat, NEW b \in Nat, a <= b PROVE Taking(a) <= Taking(b)
  <2>1. b - a \in Nat /\ a + (b - a) = b
    BY <1>4
  <2>2. Taking(b) = Taking(a) + Taking(b - a)
    BY <1>3, <2>1
  <2> QED  BY <1>2, <2>1, <2>2
<1>5. Taking(0) = 0 /\ Taking(1) = Patience
  BY <1>1 DEF Taking
<1>6. ARound \in Nat
  BY <1>1, <1>2 DEF ARound
<1> QED  BY <1>1, <1>2, <1>3, <1>4, <1>5, <1>6

LEMMA LongestIs ==
  ASSUME NEW f \in Nat
  PROVE  /\ Longest(f) \in Nat /\ Longest(f + 1) = Longest(f) + ARound
         /\ Longest(f) >= Ttl + ARound
<1>1. Ttl \in Nat /\ ARound \in Nat
  BY CacheBounds, TakingIs
<1> DEFINE spent == f * ARound
<1>2. spent \in Nat
  BY <1>1
<1>3. (1 + f) * ARound = ARound + spent /\ (1 + (f + 1)) * ARound = ARound + ARound + spent
  BY <1>1
<1> HIDE DEF spent
<1> QED  BY <1>1, <1>2, <1>3 DEF Longest

\* On to the next pool: all will have been seen to within a round from now, and
\* none but the one just left any later than before.
LEMMA WalkIs ==
  ASSUME NEW left \in Nat, left > 0, left <= Walk, NEW now \in Nat, NEW due \in Nat, now <= due,
         NEW n \in 1..Walk, NEW at, at # "rests"
  PROVE  LET next == IF left - 1 = 0 THEN now ELSE now + Patience
             done == DoneBy("reads", left - 1, next, n)
         IN  /\ done <= now + ARound
             /\ n # Walk - left + 1 => done <= DoneBy(at, left, due, n)
<1> DEFINE next == IF left - 1 = 0 THEN now ELSE now + Patience
           done == DoneBy("reads", left - 1, next, n)
           rest == IF left - 1 = 0 THEN 0 ELSE Taking(left - 1 - 1)
<1>1. /\ Walk \in Nat /\ Patience \in Nat /\ Every \in Nat /\ n \in Nat /\ left - 1 \in Nat
      /\ next \in Nat /\ Walk - left \in Nat
  BY TakingIs, CacheBounds
<1>2. next + rest = now + Taking(left - 1) /\ rest \in Nat
  <2>1. CASE left - 1 = 0
    BY <2>1, TakingIs
  <2>2. CASE left - 1 # 0
    <3>1. left - 1 - 1 \in Nat /\ 1 + (left - 1 - 1) = left - 1
      BY <1>1, <2>2
    <3>2. Taking(left - 1) = Patience + Taking(left - 1 - 1) /\ Taking(left - 1 - 1) \in Nat
      BY <3>1, TakingIs
    <3> QED  BY <1>1, <2>2, <3>2
  <2> QED  BY <2>1, <2>2
<1>3. CASE n > Walk - left + 1
  <2>1. n > Walk - (left - 1) /\ n - (Walk - (left - 1)) - 1 = n - (Walk - left) - 2
        /\ left - 1 # 0
    BY <1>1, <1>3
  <2>2. done = now + Patience + Taking(n - (Walk - left) - 2)
    BY <2>1 DEF DoneBy
  <2>3. n - (Walk - left) - 2 \in Nat /\ 1 + (n - (Walk - left) - 2) = n - (Walk - left) - 1
        /\ n - (Walk - left) - 1 <= Walk /\ n - (Walk - left) - 1 \in Nat
    BY <1>1, <1>3
  <2>4. Taking(n - (Walk - left) - 1) = Patience + Taking(n - (Walk - left) - 2)
    BY <2>3, TakingIs
  <2>5. Taking(n - (Walk - left) - 2) \in Nat /\ Taking(n - (Walk - left) - 1) \in Nat
        /\ Taking(n - (Walk - left) - 1) <= Taking(Walk) /\ Taking(Walk) \in Nat
    BY <1>1, <2>3, TakingIs
  <2>6. done = now + Taking(n - (Walk - left) - 1)
    BY <1>1, <2>2, <2>4, <2>5
  <2>7. DoneBy(at, left, due, n) = due + Taking(n - (Walk - left) - 1)
    <3>1. n > Walk - left
      BY <1>1, <1>3
    <3> QED  BY <3>1 DEF DoneBy
  <2> QED  BY <1>1, <2>5, <2>6, <2>7 DEF ARound
<1>4. CASE ~(n > Walk - left + 1)
  <2>1. ~(n > Walk - (left - 1))
    BY <1>1, <1>4
  <2>2. done = next + rest + Every + Taking(n)
    BY <2>1 DEF DoneBy
  <2> HIDE DEF next, rest
  <2>3. /\ Taking(left - 1) \in Nat /\ Taking(n) \in Nat /\ Taking(Walk) \in Nat
        /\ Taking(left - 1) + Taking(n) <= Taking(Walk)
    <3>1. left - 1 + n \in Nat /\ left - 1 + n <= Walk
      BY <1>1, <1>4
    <3>2. Taking(left - 1 + n) = Taking(left - 1) + Taking(n)
      BY <1>1, TakingIs
    <3>3. Taking(left - 1 + n) <= Taking(Walk)
      BY <1>1, <3>1, TakingIs
    <3>4. Taking(left - 1) \in Nat /\ Taking(n) \in Nat /\ Taking(Walk) \in Nat
      BY <1>1, TakingIs
    <3> QED  BY <3>2, <3>3, <3>4
  <2>4. done = now + Taking(left - 1) + Every + Taking(n)
    BY <1>1, <1>2, <2>2
  <2>5. done <= now + ARound
    BY <1>1, <2>3, <2>4 DEF ARound
  <2>6. ASSUME n # Walk - left + 1 PROVE done <= DoneBy(at, left, due, n)
    <3>1. ~(n > Walk - left) /\ left # 0
      BY <1>1, <1>4, <2>6
    <3>2. DoneBy(at, left, due, n) = due + Taking(left - 1) + Every + Taking(n)
      BY <3>1 DEF DoneBy
    <3> QED  BY <1>1, <2>3, <2>4, <3>2
  <2> HIDE DEF done
  <2>7. done <= now + ARound /\ (n # Walk - left + 1 => done <= DoneBy(at, left, due, n))
    BY <2>5, <2>6
  <2> QED  BY <2>7 DEF done, next
<1> QED  BY <1>1, <1>3, <1>4

\* Every pool will have been seen to when the warmer's time for one is up, or later.
LEMMA NotBeforeDue ==
  ASSUME NEW at, NEW left \in Nat, left <= Walk, NEW due \in Nat, NEW n \in 1..Walk
  PROVE  DoneBy(at, left, due, n) \in Nat /\ due <= DoneBy(at, left, due, n)
<1>1. Walk \in Nat /\ n \in Nat /\ Every \in Nat
  BY TakingIs
<1>2. Taking(n) \in Nat
  BY <1>1, TakingIs
<1>3. CASE at = "rests"
  BY <1>2, <1>3 DEF DoneBy
<1>4. CASE at # "rests" /\ n > Walk - left
  <2>1. n - (Walk - left) - 1 \in Nat
    BY <1>1, <1>4
  <2>2. Taking(n - (Walk - left) - 1) \in Nat
    BY <2>1, TakingIs
  <2> QED  BY <1>4, <2>2 DEF DoneBy
<1>5. CASE at # "rests" /\ ~(n > Walk - left)
  <2> DEFINE rest == IF left = 0 THEN 0 ELSE Taking(left - 1)
  <2>1. rest \in Nat
    <3>1. left # 0 => left - 1 \in Nat
      OBVIOUS
    <3> QED  BY <3>1, TakingIs
  <2>2. DoneBy(at, left, due, n) = due + rest + Every + Taking(n)
    BY <1>5 DEF DoneBy
  <2> HIDE DEF rest
  <2> QED  BY <1>1, <1>2, <2>1, <2>2
<1> QED  BY <1>3, <1>4, <1>5

\* What does for longer does for as long; a round more for every failure.
LEMMA GoodStill ==
  ASSUME NEW times \in SUBSET Nat, NEW until \in Nat, NEW sooner \in Nat, NEW f \in Nat,
         sooner <= until, GoodUntil(times, until, f)
  PROVE  GoodUntil(times, sooner, f)
<1>1. Longest(f) \in Nat
  BY LongestIs
<1> QED  BY <1>1 DEF GoodUntil

LEMMA GoodForARound ==
  ASSUME NEW times \in SUBSET Nat, NEW until \in Nat, NEW f \in Nat, GoodUntil(times, until, f)
  PROVE  GoodUntil(times, until + ARound, f + 1)
<1>1. Longest(f) \in Nat /\ Longest(f + 1) = Longest(f) + ARound /\ ARound \in Nat
  BY LongestIs, TakingIs
<1> QED  BY <1>1 DEF GoodUntil

LEMMA TimesAre ==
  ASSUME HistoryOK, NEW n \in 1..Walk
  PROVE  FrontPage[n] \in Keys /\ written[FrontPage[n]] \in SUBSET Nat
<1>1. FrontPage[n] \in Keys
  BY CacheBounds, ElementOfSeq DEF Walk
<1> QED  BY <1>1, CacheBounds DEF HistoryOK, Time

\* The head of what is left of the round.
LEMMA HeadIs ==
  ASSUME RoundInv, round.left # <<>>
  PROVE  /\ Len(round.left) \in Nat /\ Len(round.left) > 0 /\ Len(round.left) <= Walk
         /\ Walk - Len(round.left) + 1 \in 1..Walk
         /\ Head(round.left) = FrontPage[Walk - Len(round.left) + 1]
         /\ Head(round.left) \in Keys
         /\ Tail(round.left) \in Seq(Keys) /\ Len(Tail(round.left)) = Len(round.left) - 1
         /\ \A j \in 1..Len(Tail(round.left)) : Tail(round.left)[j] = FrontPage[Walk - Len(Tail(round.left)) + j]
<1> DEFINE left == round.left
           m == Len(left)
<1>1. left \in Seq(Keys) /\ left # <<>> /\ Walk \in Nat /\ m <= Walk
  BY TakingIs DEF RoundInv, Round
<1>2. \A j \in 1..m : left[j] = FrontPage[Walk - m + j]
  BY DEF RoundInv
<1> HIDE DEF left
<1>3. m \in Nat /\ m > 0
  BY <1>1, LenProperties, EmptySeq
<1>4. /\ Head(left) = left[1] /\ Head(left) \in Keys
      /\ Tail(left) \in Seq(Keys) /\ Len(Tail(left)) = m - 1
      /\ \A j \in 1..Len(Tail(left)) : Tail(left)[j] = left[j + 1]
  BY <1>1, HeadTailProperties
<1>5. Walk - m + 1 \in 1..Walk /\ Head(left) = FrontPage[Walk - m + 1]
  <2>1. 1 \in 1..m /\ Walk - m + 1 \in 1..Walk
    BY <1>1, <1>3
  <2> QED  BY <1>2, <1>4, <2>1
<1>6. ASSUME NEW j \in 1..Len(Tail(left)) PROVE Tail(left)[j] = FrontPage[Walk - Len(Tail(left)) + j]
  <2>1. j + 1 \in 1..m /\ Walk - m + (j + 1) = Walk - (m - 1) + j
    BY <1>1, <1>3, <1>4
  <2> QED  BY <1>2, <1>4, <2>1
<1> QED  BY <1>1, <1>3, <1>4, <1>5, <1>6 DEF left

\* A step on to the next pool, its own explanation good for a round from now.
LEMMA WalksOn ==
  ASSUME RoundInv, HistoryOK, HistoryOK', round.left # <<>>, round.at # "rests", Walks(Tail(round.left)),
         clock' = clock, faults' \in 0..MaxFaults,
         \A n \in 1..Walk :
           \/ GoodUntil(written'[FrontPage[n]], clock + ARound, faults')
           \/ /\ n # Walk - Len(round.left) + 1
              /\ GoodUntil(written'[FrontPage[n]],
                           DoneBy(round.at, Len(round.left), round.due, n), faults')
  PROVE  RoundInv'
<1> DEFINE m == Len(round.left)
           next == IF m - 1 = 0 THEN clock ELSE clock + Patience
<1>1. /\ m \in Nat /\ m > 0 /\ m <= Walk /\ Walk \in Nat /\ Patience \in Nat
      /\ clock \in Nat /\ clock \in Time /\ round.due \in Nat /\ clock <= round.due
      /\ ARound \in Nat /\ next \in Nat /\ clock <= next
  BY HeadIs, TakingIs, CacheBounds DEF RoundInv, Round, Time
<1>2. Tail(round.left) \in Seq(Keys) /\ Len(Tail(round.left)) = m - 1
  BY HeadIs
<1>3. Tail(round.left) = <<>> <=> m - 1 = 0
  BY <1>2, EmptySeq
<1>4. round' = [at |-> "reads", left |-> Tail(round.left), due |-> next]
  BY <1>3 DEF Walks
<1>5. round'.at = "reads" /\ round'.left = Tail(round.left) /\ round'.due = next
  BY <1>4
<1> HIDE DEF next
<1>6. round' \in Round
  BY <1>1, <1>2, <1>4 DEF Round
<1>7. \A j \in 1..Len(round'.left) : round'.left[j] = FrontPage[Walk - Len(round'.left) + j]
  BY <1>5, HeadIs
<1>8. ASSUME NEW n \in 1..Walk
      PROVE  GoodUntil(written'[FrontPage[n]],
                       DoneBy(round'.at, Len(round'.left), round'.due, n), faults')
  <2> DEFINE done == DoneBy("reads", m - 1, next, n)
             then == DoneBy(round.at, m, round.due, n)
             times == written'[FrontPage[n]]
  <2>1. done <= clock + ARound /\ (n # Walk - m + 1 => done <= then)
    BY <1>1, WalkIs DEF next
  <2>2. then \in Nat
    BY <1>1, NotBeforeDue
  <2>3. done \in Nat
    <3>1. m - 1 \in Nat /\ m - 1 <= Walk
      BY <1>1
    <3> QED  BY <1>1, <3>1, NotBeforeDue
  <2>4. FrontPage[n] \in Keys
    BY CacheBounds, ElementOfSeq DEF Walk
  <2>5. times \in SUBSET Nat /\ faults' \in Nat
    BY <2>4, CacheBounds DEF HistoryOK, Time
  <2>6. \/ GoodUntil(times, clock + ARound, faults')
        \/ n # Walk - m + 1 /\ GoodUntil(times, then, faults')
    OBVIOUS
  <2>7. done = DoneBy(round'.at, Len(round'.left), round'.due, n)
    BY <1>2, <1>5
  <2> HIDE DEF done, then, times
  <2>8. CASE GoodUntil(times, clock + ARound, faults')
    <3>1. clock + ARound \in Nat
      BY <1>1
    <3>2. GoodUntil(times, done, faults')
      BY <2>1, <2>3, <2>5, <2>8, <3>1, GoodStill
    <3> QED  BY <2>7, <3>2 DEF times
  <2>9. CASE n # Walk - m + 1 /\ GoodUntil(times, then, faults')
    <3>1. GoodUntil(times, done, faults')
      BY <2>1, <2>2, <2>3, <2>5, <2>9, GoodStill
    <3> QED  BY <2>7, <3>1 DEF times
  <2> QED  BY <2>6, <2>8, <2>9
<1>9. Len(round'.left) <= Walk
  BY <1>1, <1>2, <1>5
<1> QED  BY <1>1, <1>5, <1>6, <1>7, <1>8, <1>9 DEF RoundInv

\* Every pool is good for what is left of the round, and a failure's round more.
LEMMA FailureAllows ==
  ASSUME RoundInv, HistoryOK, faults' = faults + 1, written' = written, NEW n \in 1..Walk
  PROVE  GoodUntil(written'[FrontPage[n]], clock + ARound, faults')
<1> DEFINE then == DoneBy(round.at, Len(round.left), round.due, n)
<1>1. /\ Len(round.left) \in Nat /\ Len(round.left) <= Walk /\ round.due \in Nat
      /\ clock \in Nat /\ clock <= round.due /\ faults \in Nat
  BY CacheBounds, LenProperties DEF RoundInv, Round, Time
<1>2. then \in Nat /\ round.due <= then
  BY <1>1, NotBeforeDue
<1>3. GoodUntil(written[FrontPage[n]], then, faults)
  BY DEF RoundInv
<1>4. written[FrontPage[n]] \in SUBSET Nat
  BY TimesAre
<1> HIDE DEF then
<1>5. clock <= then
  BY <1>1, <1>2
<1>6. GoodUntil(written[FrontPage[n]], clock, faults)
  BY <1>1, <1>2, <1>3, <1>4, <1>5, GoodStill
<1> QED  BY <1>1, <1>4, <1>6, GoodForARound

\* An explanation that is fresh, or was written now, does for a round.
LEMMA FreshAllows ==
  ASSUME NEW times \in SUBSET Nat, NEW t \in times, NEW now \in Nat, NEW f \in Nat, now < t + Ttl
  PROVE  GoodUntil(times, now + ARound, f)
<1>1. Longest(f) \in Nat /\ Longest(f) >= Ttl + ARound /\ Ttl \in Nat /\ ARound \in Nat /\ t \in Nat
  BY LongestIs, CacheBounds, TakingIs
<1>2. now + ARound < t + Longest(f)
  BY <1>1
<1> QED  BY <1>2 DEF GoodUntil

\* An explanation written now does for as long as the one before it.
LEMMA NewerAllows ==
  ASSUME HistoryOK, clock \in Time, NEW k \in Keys, written' = [written EXCEPT ![k] = {clock}],
         NEW n \in 1..Walk, NEW until \in Nat, NEW f \in Nat, GoodUntil(written[FrontPage[n]], until, f)
  PROVE  GoodUntil(written'[FrontPage[n]], until, f)
<1>1. FrontPage[n] \in Keys /\ written[FrontPage[n]] \in SUBSET Nat
  BY TimesAre
<1>2. Longest(f) \in Nat /\ clock \in Nat
  BY LongestIs, CacheBounds DEF Time
<1>3. CASE FrontPage[n] # k
  BY <1>1, <1>3 DEF HistoryOK
<1>4. CASE FrontPage[n] = k
  <2>1. written'[k] = {clock} /\ \A t \in written[k] : t \in Nat /\ t <= clock
    BY <1>1, <1>4 DEF HistoryOK
  <2>2. ASSUME NEW t \in written[k], until < t + Longest(f) PROVE until < clock + Longest(f)
    BY <1>2, <2>1, <2>2
  <2> QED  BY <1>4, <2>1, <2>2 DEF GoodUntil
<1> QED  BY <1>3, <1>4

LEMMA RoundIs ==
  ASSUME RoundInv
  PROVE  /\ clock \in Nat /\ clock \in Time /\ faults \in Nat
         /\ round.left \in Seq(Keys) /\ round.due \in Nat /\ clock <= round.due
         /\ Len(round.left) \in Nat /\ Len(round.left) <= Walk
         /\ round.at \in {"rests", "reads", "writes"}
         /\ \A n \in 1..Walk : DoneBy(round.at, Len(round.left), round.due, n) \in Nat
<1>1. /\ clock \in Nat /\ clock \in Time /\ faults \in Nat
      /\ round.left \in Seq(Keys) /\ round.due \in Nat /\ clock <= round.due
      /\ Len(round.left) <= Walk /\ round.at \in {"rests", "reads", "writes"}
  BY CacheBounds DEF RoundInv, Round, Time
<1>2. Len(round.left) \in Nat
  BY <1>1, LenProperties
<1> QED  BY <1>1, <1>2, NotBeforeDue

LEMMA RoundStays ==
  ASSUME RoundInv, HistoryOK, UNCHANGED <<clock, round, faults>>,
         written' = written \/ \E k \in Keys : written' = [written EXCEPT ![k] = {clock}]
  PROVE  RoundInv'
<1>1. ASSUME NEW n \in 1..Walk
      PROVE  GoodUntil(written'[FrontPage[n]], DoneBy(round.at, Len(round.left), round.due, n), faults)
  BY RoundIs, NewerAllows DEF RoundInv
<1> QED  BY <1>1 DEF RoundInv

LEMMA RoundWaits ==
  ASSUME RoundInv, clock < MaxClock, clock < round.due, clock' = clock + 1,
         UNCHANGED <<round, faults, written>>
  PROVE  RoundInv'
<1>1. clock' \in Time /\ clock' <= round.due
  BY RoundIs, CacheBounds DEF Time
<1> QED  BY <1>1 DEF RoundInv

LEMMA RoundBeginsKeeps ==
  ASSUME RoundInv, RoundBegins PROVE RoundInv'
<1> DEFINE next == IF FrontPage = <<>> THEN clock ELSE clock + Patience
<1>1. /\ round.at = "rests" /\ round.due = clock
      /\ round' = [at |-> "reads", left |-> FrontPage, due |-> next]
      /\ UNCHANGED <<clock, faults, written>>
  BY RoundIs DEF RoundBegins, Walks
<1>2. /\ next \in Nat /\ clock <= next /\ FrontPage \in Seq(Keys) /\ Walk \in Nat /\ Patience \in Nat
  <2>1. clock \in Nat /\ Patience \in Nat /\ Walk \in Nat /\ FrontPage \in Seq(Keys)
    BY RoundIs, CacheBounds, TakingIs
  <2>2. clock + Patience \in Nat /\ clock <= clock + Patience
    BY <2>1
  <2> QED  BY <2>1, <2>2
<1>3. round'.at = "reads" /\ round'.left = FrontPage /\ round'.due = next /\ round' \in Round
  BY <1>1, <1>2 DEF Round
<1>4. ASSUME NEW n \in 1..Walk
      PROVE  DoneBy("reads", Walk, next, n) = DoneBy(round.at, Len(round.left), round.due, n)
  <2>1. FrontPage # <<>>
    BY <1>2, EmptySeq DEF Walk
  <2>2. n - (Walk - Walk) - 1 = n - 1 /\ n > Walk - Walk /\ n - 1 \in Nat /\ 1 + (n - 1) = n
    BY <1>2
  <2>3. Taking(n) = Patience + Taking(n - 1) /\ Taking(n - 1) \in Nat
    <3>1. Taking(1 + (n - 1)) = Taking(1) + Taking(n - 1)
      BY <2>2, TakingIs
    <3> QED  BY <2>2, <3>1, TakingIs
  <2>4. DoneBy("reads", Walk, next, n) = next + Taking(n - 1)
    BY <2>2 DEF DoneBy
  <2>5. DoneBy(round.at, Len(round.left), round.due, n) = clock + Taking(n)
    BY <1>1 DEF DoneBy
  <2> QED  BY <1>2, <2>1, <2>3, <2>4, <2>5, RoundIs
<1> HIDE DEF next
<1>5. \A n \in 1..Walk :
        GoodUntil(written'[FrontPage[n]], DoneBy(round'.at, Len(round'.left), round'.due, n), faults')
  BY <1>1, <1>3, <1>4 DEF RoundInv, Walk
<1>6. \A j \in 1..Len(FrontPage) : FrontPage[j] = FrontPage[Walk - Len(FrontPage) + j]
  <2>1. \A j \in 1..Walk : Walk - Walk + j = j
    BY <1>2
  <2> QED  BY <2>1 DEF Walk
<1>7. Len(FrontPage) <= Walk
  BY <1>2 DEF Walk
<1> QED  BY <1>1, <1>2, <1>3, <1>5, <1>6, <1>7 DEF RoundInv

LEMMA WarmNextKeeps ==
  ASSUME CacheInv, RoundInv, WarmNext PROVE RoundInv'
<1> DEFINE k == Head(round.left)
           h == Walk - Len(round.left) + 1
<1>1. /\ round.at = "reads" /\ round.left # <<>> /\ UNCHANGED <<clock, faults, written>>
      /\ Kept(k) => Walks(Tail(round.left))
      /\ ~Kept(k) => round' = [round EXCEPT !.at = "writes"]
  BY DEF WarmNext
<1>2. CASE Kept(k)
  <2>1. k = FrontPage[h] /\ k \in Keys /\ h \in 1..Walk
    BY <1>1, HeadIs
  <2>2. PICK i \in DOMAIN cache : cache[i].key = k /\ Fresh(cache[i])
    BY <1>2 DEF Kept
  <2>3. i \in 1..Len(cache) /\ cache[i] \in Entries
    BY ElementOfSeq, LenProperties DEF CacheInv
  <2>4. cache[i].writtenAt \in written[k]
    BY <2>2, <2>3 DEF CacheInv, FromWritings
  <2>5. cache[i].writtenAt \in Nat /\ clock < cache[i].writtenAt + Ttl
    BY <2>2, <2>3, RoundIs, CacheBounds DEF Fresh, Entries, Time
  <2>6. GoodUntil(written[FrontPage[h]], clock + ARound, faults)
    BY <2>1, <2>4, <2>5, TimesAre, RoundIs, FreshAllows DEF CacheInv
  <2>7. \A n \in 1..Walk :
          \/ GoodUntil(written'[FrontPage[n]], clock + ARound, faults')
          \/ /\ n # h
             /\ GoodUntil(written'[FrontPage[n]], DoneBy(round.at, Len(round.left), round.due, n), faults')
    BY <1>1, <2>6 DEF RoundInv
  <2>8. HistoryOK /\ HistoryOK' /\ faults' \in 0..MaxFaults /\ Walks(Tail(round.left))
        /\ round.left # <<>> /\ round.at # "rests" /\ clock' = clock
    <3>1. UNCHANGED <<clock, written, later>>
      BY DEF WarmNext
    <3> QED  BY <1>1, <1>2, <3>1 DEF CacheInv, HistoryOK, RoundInv
  <2> QED  BY <2>7, <2>8, WalksOn
<1>3. CASE ~Kept(k)
  <2>1. /\ round'.at = "writes" /\ round'.left = round.left /\ round'.due = round.due
        /\ round' \in Round
    BY <1>1, <1>3 DEF RoundInv, Round
  <2>2. \A n \in 1..Walk : DoneBy("writes", Len(round.left), round.due, n)
                           = DoneBy(round.at, Len(round.left), round.due, n)
    BY <1>1 DEF DoneBy
  <2> QED  BY <1>1, <2>1, <2>2 DEF RoundInv
<1> QED  BY <1>2, <1>3

LEMMA WarmWritesKeeps ==
  ASSUME CacheInv, CacheInv', RoundInv, WarmWrites PROVE RoundInv'
<1> DEFINE k == Head(round.left)
           h == Walk - Len(round.left) + 1
<1>1. /\ round.at = "writes" /\ Walks(Tail(round.left)) /\ UNCHANGED <<clock, faults>>
      /\ written' = [written EXCEPT ![k] = {clock}]
  BY DEF WarmWrites, Keeps
<1>2. round.left # <<>>
  BY <1>1 DEF RoundInv
<1>3. k = FrontPage[h] /\ k \in Keys /\ h \in 1..Walk
  BY <1>2, HeadIs
<1>4. written'[FrontPage[h]] = {clock}
  BY <1>1, <1>3 DEF CacheInv, HistoryOK
<1>5. clock \in Nat /\ faults \in Nat /\ clock < clock + Ttl
  BY RoundIs, CacheBounds
<1>6. {clock} \in SUBSET Nat /\ clock \in {clock}
  BY <1>5
<1>7. GoodUntil(written'[FrontPage[h]], clock + ARound, faults)
  BY <1>4, <1>5, <1>6, FreshAllows
<1>8. ASSUME NEW n \in 1..Walk
      PROVE  GoodUntil(written'[FrontPage[n]], DoneBy(round.at, Len(round.left), round.due, n), faults)
  <2>1. DoneBy(round.at, Len(round.left), round.due, n) \in Nat
    BY RoundIs
  <2>2. GoodUntil(written[FrontPage[n]], DoneBy(round.at, Len(round.left), round.due, n), faults)
    BY DEF RoundInv
  <2> QED  BY <1>1, <1>3, <1>5, <2>1, <2>2, NewerAllows DEF CacheInv
<1>9. \A n \in 1..Walk :
        \/ GoodUntil(written'[FrontPage[n]], clock + ARound, faults')
        \/ /\ n # h
           /\ GoodUntil(written'[FrontPage[n]], DoneBy(round.at, Len(round.left), round.due, n), faults')
  BY <1>1, <1>7, <1>8
<1>10. HistoryOK /\ HistoryOK' /\ faults' \in 0..MaxFaults
  BY <1>1 DEF CacheInv, RoundInv
<1> QED  BY <1>1, <1>2, <1>9, <1>10, WalksOn

LEMMA WarmFailsKeeps ==
  ASSUME CacheInv, RoundInv, WarmFails PROVE RoundInv'
<1>1. /\ round.at \in {"reads", "writes"} /\ round.left # <<>>
      /\ faults < MaxFaults /\ faults' = faults + 1 /\ UNCHANGED <<clock, written, later>>
      /\ Walks(Tail(round.left)) \/ Walks(<<>>)
  BY DEF WarmFails, Fault
<1>2. faults' \in 0..MaxFaults /\ faults' \in Nat /\ clock \in Nat
  BY <1>1, CacheBounds, RoundIs
<1>3. HistoryOK /\ HistoryOK'
  BY <1>1 DEF CacheInv, HistoryOK
<1>4. \A n \in 1..Walk : GoodUntil(written'[FrontPage[n]], clock + ARound, faults')
  BY <1>1, <1>3, FailureAllows
<1>5. CASE Walks(Tail(round.left))
  BY <1>1, <1>2, <1>3, <1>4, <1>5, WalksOn
<1>6. CASE Walks(<<>>)
  <2>1. round' = [at |-> "reads", left |-> <<>>, due |-> clock]
    BY <1>6 DEF Walks
  <2>2. /\ round'.at = "reads" /\ round'.left = <<>> /\ round'.due = clock /\ round' \in Round
        /\ Len(<<>>) = 0
    BY <1>2, <2>1, EmptySeq DEF Round
  <2>3. ASSUME NEW n \in 1..Walk
        PROVE  GoodUntil(written'[FrontPage[n]], DoneBy("reads", 0, clock, n), faults')
    <3>1. /\ n \in Nat /\ Walk \in Nat /\ n <= Walk /\ Every \in Nat /\ Taking(n) \in Nat
          /\ Taking(Walk) \in Nat /\ Taking(n) <= Taking(Walk)
      <4>1. n \in Nat /\ Walk \in Nat /\ n <= Walk /\ Every \in Nat
        BY TakingIs
      <4> QED  BY <4>1, TakingIs
    <3>2. DoneBy("reads", 0, clock, n) = clock + 0 + Every + Taking(n)
      BY <3>1 DEF DoneBy
    <3>3. /\ DoneBy("reads", 0, clock, n) <= clock + ARound
          /\ DoneBy("reads", 0, clock, n) \in Nat /\ clock + ARound \in Nat
      BY <1>2, <3>1, <3>2 DEF ARound
    <3>4. written'[FrontPage[n]] \in SUBSET Nat
      BY <1>1, <1>3, TimesAre
    <3> QED  BY <1>2, <1>4, <3>3, <3>4, GoodStill
  <2>4. \A j \in 1..0 : FALSE
    OBVIOUS
  <2>5. 0 <= Walk
    BY TakingIs
  <2> QED  BY <1>1, <1>2, <2>2, <2>3, <2>4, <2>5, RoundIs DEF RoundInv
<1> QED  BY <1>1, <1>5, <1>6

LEMMA RoundEndsKeeps ==
  ASSUME RoundInv, HistoryOK, RoundEnds PROVE RoundInv'
<1>1. /\ round.at = "reads" /\ round.left = <<>> /\ UNCHANGED <<clock, faults, written>>
      /\ round' = [at |-> "rests", left |-> <<>>, due |-> clock + Every]
  BY DEF RoundEnds
<1>2. clock \in Nat /\ Every \in Nat /\ round.due \in Nat /\ clock <= round.due /\ Len(<<>>) = 0 /\ Walk \in Nat
  BY RoundIs, CacheBounds, EmptySeq, TakingIs
<1>3. /\ round'.at = "rests" /\ round'.left = <<>> /\ round'.due = clock + Every /\ round' \in Round
      /\ clock <= clock + Every
  BY <1>1, <1>2, EmptySeq DEF Round
<1>4. ASSUME NEW n \in 1..Walk
      PROVE  GoodUntil(written[FrontPage[n]], DoneBy("rests", 0, clock + Every, n), faults)
  <2> DEFINE then == DoneBy("reads", 0, round.due, n)
  <2>1. n \in Nat /\ Taking(n) \in Nat
    <3>1. n \in Nat
      BY TakingIs
    <3> QED  BY <3>1, TakingIs
  <2>2. then = round.due + 0 + Every + Taking(n)
    BY <1>2, <2>1 DEF DoneBy
  <2>3. DoneBy("rests", 0, clock + Every, n) = clock + Every + Taking(n)
    BY DEF DoneBy
  <2>4. GoodUntil(written[FrontPage[n]], then, faults)
    BY <1>1, <1>2 DEF RoundInv
  <2> DEFINE sooner == DoneBy("rests", 0, clock + Every, n)
  <2>5. sooner \in Nat /\ then \in Nat /\ sooner <= then
    BY <1>2, <2>1, <2>2, <2>3
  <2> HIDE DEF then, sooner
  <2>6. faults \in Nat /\ written[FrontPage[n]] \in SUBSET Nat
    BY RoundIs, TimesAre
  <2>7. GoodUntil(written[FrontPage[n]], sooner, faults)
    BY <2>4, <2>5, <2>6, GoodStill
  <2> QED  BY <2>7 DEF sooner
<1> QED  BY <1>1, <1>2, <1>3, <1>4 DEF RoundInv

-----------------------------------------------------------------------------
(***************************************************************************)
(* The explanations: what holds of every run.                              *)
(***************************************************************************)
Explained == CacheInv /\ SpentInv /\ PanelsOK /\ RoundInv

LEMMA ExplainedInit == Init => Explained
<1> SUFFICES ASSUME Init PROVE Explained
  OBVIOUS
<1>1. /\ clock = 0 /\ cache = <<>> /\ budget = <<>> /\ panel = [r \in Panels |-> Idle]
      /\ round = [at |-> "rests", left |-> <<>>, due |-> 0] /\ asked = 0 /\ faults = 0 /\ calls = {}
      /\ written = [k \in Keys |-> {}] /\ later = [k \in Keys |-> {}]
  BY DEF Init
<1>2. /\ <<>> \in Seq(Entries) /\ <<>> \in Seq(Windows) /\ <<>> \in Seq(Keys) /\ Len(<<>>) = 0
      /\ 1..0 = {}
  BY EmptySeq
<1>3. 0 \in Time /\ 0 <= MaxEntries /\ 0 \in 0..MaxAsked /\ 0 \in 0..MaxFaults
  BY CacheBounds DEF Time
<1>4. HistoryOK
  BY <1>1, FS_EmptySet DEF HistoryOK
<1>5. CacheInv
  BY <1>1, <1>2, <1>3, <1>4 DEF CacheInv, OneEach, FromWritings, WrittenSince
<1>6. SpentInv
  BY <1>1, <1>2, <1>3, FS_EmptySet DEF SpentInv, WindowsOK
<1>7. PanelsOK
  BY <1>1 DEF PanelsOK
<1>8. RoundInv
  <2>1. round \in Round /\ round.at = "rests" /\ round.left = <<>> /\ round.due = 0
    BY <1>1, <1>2 DEF Round
  <2>2. ASSUME NEW n \in 1..Walk PROVE GoodUntil(written[FrontPage[n]], DoneBy("rests", 0, 0, n), 0)
    <3>1. n \in Nat /\ Walk \in Nat /\ n <= Walk /\ Every \in Nat
      BY TakingIs
    <3>2. Taking(n) \in Nat /\ Taking(Walk) \in Nat /\ Taking(n) <= Taking(Walk)
      BY <3>1, TakingIs
    <3>3. Longest(0) \in Nat /\ Longest(0) >= Ttl + ARound /\ Ttl \in Nat /\ Ttl > 0
      BY LongestIs, CacheBounds
    <3>4. DoneBy("rests", 0, 0, n) = 0 + Taking(n)
      BY DEF DoneBy
    <3>5. DoneBy("rests", 0, 0, n) < Longest(0)
      BY <3>1, <3>2, <3>3, <3>4 DEF ARound
    <3> QED  BY <3>5 DEF GoodUntil
  <2>3. 0 <= Walk /\ 0 <= 0
    BY TakingIs
  <2> QED  BY <1>1, <1>2, <1>3, <2>1, <2>2, <2>3 DEF RoundInv
<1> QED  BY <1>5, <1>6, <1>7, <1>8 DEF Explained

LEMMA ExplainedStep == Explained /\ [Next]_vars => Explained'
<1> SUFFICES ASSUME Explained, [Next]_vars PROVE Explained'
  OBVIOUS
<1> USE DEF Explained
<1>1. CacheInv /\ SpentInv /\ PanelsOK /\ RoundInv /\ HistoryOK /\ clock \in Time
  BY DEF CacheInv
<1>2. ASSUME UNCHANGED <<clock, cache, written, later>> PROVE CacheInv'
  BY <1>1, <1>2 DEF CacheInv, HistoryOK, FromWritings, WrittenSince
<1>3. ASSUME UNCHANGED <<clock, asked, calls, budget>> PROVE SpentInv'
  BY <1>1, <1>3 DEF SpentInv, WindowsOK
<1>4. ASSUME UNCHANGED panel PROVE PanelsOK'
  BY <1>1, <1>4 DEF PanelsOK
<1>5. ASSUME UNCHANGED <<clock, round, faults, written>> PROVE RoundInv'
  BY <1>1, <1>5, RoundStays
<1>6. ASSUME NEW r \in Panels, NEW k \in Keys, Ask(r, k) PROVE Explained'
  <2>1. CacheInv'
    BY <1>1, <1>6, LookedUpKeeps DEF Ask
  <2>2. SpentInv'
    BY <1>1, <1>6, TakesKeeps DEF Ask
  <2>3. PanelsOK'
    BY <1>1, <1>6, AskTyped
  <2>4. RoundInv'
    BY <1>5, <1>6 DEF Ask
  <2> QED  BY <2>1, <2>2, <2>3, <2>4
<1>7. ASSUME NEW r \in Panels, NEW s \in Sections, Deliver(r, s) PROVE Explained'
  BY <1>1, <1>2, <1>3, <1>5, <1>7, DeliverTyped DEF Deliver
<1>8. ASSUME NEW r \in Panels, Succeeds(r) PROVE Explained'
  <2>1. panel[r].key \in Keys
    BY <1>1, <1>8, StreamIs DEF Succeeds
  <2>2. CacheInv'
    BY <1>1, <1>8, <2>1, KeepsKeeps DEF Succeeds
  <2>3. SpentInv' /\ PanelsOK'
    BY <1>1, <1>3, <1>8, ClosesTyped DEF Succeeds
  <2>4. RoundInv'
    BY <1>1, <1>8, <2>1, RoundStays DEF Succeeds, Keeps
  <2> QED  BY <2>2, <2>3, <2>4
<1>9. ASSUME NEW r \in Panels, Fails(r) PROVE Explained'
  BY <1>1, <1>2, <1>3, <1>5, <1>9, ClosesTyped DEF Fails
<1>10. CASE RoundBegins
  BY <1>1, <1>2, <1>3, <1>4, <1>10, RoundBeginsKeeps DEF RoundBegins
<1>11. CASE WarmNext
  <2>1. Head(round.left) \in Keys
    BY <1>1, <1>11, HeadIs DEF WarmNext
  <2>2. CacheInv'
    BY <1>1, <1>11, <2>1, LookedUpKeeps DEF WarmNext
  <2> QED  BY <1>1, <1>3, <1>4, <1>11, <2>2, WarmNextKeeps DEF WarmNext
<1>12. CASE WarmWrites
  <2>1. Head(round.left) \in Keys
    BY <1>1, <1>12, HeadIs DEF WarmWrites, RoundInv
  <2>2. CacheInv'
    BY <1>1, <1>12, <2>1, KeepsKeeps DEF WarmWrites
  <2> QED  BY <1>1, <1>3, <1>4, <1>12, <2>2, WarmWritesKeeps DEF WarmWrites
<1>13. CASE WarmFails
  BY <1>1, <1>2, <1>3, <1>4, <1>13, WarmFailsKeeps DEF WarmFails
<1>14. CASE RoundEnds
  BY <1>1, <1>2, <1>3, <1>4, <1>14, RoundEndsKeeps DEF RoundEnds
<1>15. CASE Tick
  BY <1>1, <1>4, <1>15, ClockKeeps, HourGoesOn, RoundWaits DEF Tick
<1>16. CASE UNCHANGED vars
  BY <1>2, <1>3, <1>4, <1>5, <1>16 DEF vars
<1> QED  BY <1>6, <1>7, <1>8, <1>9, <1>10, <1>11, <1>12, <1>13, <1>14, <1>15, <1>16 DEF Next

LEMMA AlwaysExplained == Spec => []Explained
BY ExplainedInit, ExplainedStep, PTL DEF Spec

\* Every variable of the explanations has its type: the cache is never over its
\* size and the ceiling's window never over its count, whatever pages ask.
THEOREM ExplanationsTypeCorrect == Spec => []TypeOK
<1>1. Explained => TypeOK
  <2> SUFFICES ASSUME Explained PROVE TypeOK
    OBVIOUS
  <2> USE DEF Explained
  <2>1. cache \in UNION {[1..n -> Entries] : n \in 0..MaxEntries}
    <3>1. cache \in [1..Len(cache) -> Entries] /\ Len(cache) \in 0..MaxEntries
      BY CacheBounds, LenProperties DEF CacheInv
    <3> QED  BY <3>1
  <2>2. budget \in Tables(Time, {Everyone}, PerHour, 1)
    <3>1. budget \in [1..Len(budget) -> Windows] /\ Len(budget) \in Nat /\ Len(budget) <= 1
      BY LenProperties DEF SpentInv, WindowsOK
    <3>2. Len(budget) \in 0..1
      BY <3>1
    <3> QED  BY <3>1, <3>2 DEF Tables, Windows
  <2>3. panel \in [Panels -> Panel \cup {Idle}]
    BY DEF PanelsOK
  <2> QED  BY <2>1, <2>2, <2>3 DEF TypeOK, CacheInv, HistoryOK, SpentInv, RoundInv
<1> QED  BY <1>1, AlwaysExplained, PTL

\* An explanation that was written is there for its hour, unless a cache full of
\* others written since took its place: nobody pays for it again
\* (getRangeInterpretation.ts:68-71; interpretationCache.ts:129-133).
THEOREM WrittenStaysThere == Spec => []WrittenIsThere
<1>1. Explained => WrittenIsThere
  <2> SUFFICES ASSUME Explained, NEW k \in Keys, NEW t \in written[k],
                      clock < t + Ttl, Cardinality(later[k]) < MaxEntries
               PROVE  Kept(k)
    BY DEF WrittenIsThere
  <2>1. CacheInv /\ Cardinality(later[k]) \in Nat
    BY FS_CardinalityType DEF Explained, CacheInv, HistoryOK
  <2>2. ~(Cardinality(later[k]) >= MaxEntries)
    BY <2>1, CacheBounds
  <2>3. HoldsTheWriting(cache, t, later[k], k)
    BY <2>1, <2>2 DEF CacheInv, WrittenSince
  <2>4. PICK i \in 1..Len(cache) : cache[i].key = k /\ cache[i].writtenAt = t
    BY <2>3 DEF HoldsTheWriting
  <2>5. i \in DOMAIN cache /\ cache[i] \in Entries
    BY <2>1, ElementOfSeq, LenProperties DEF CacheInv
  <2>6. t \in Nat /\ clock \in Nat
    BY <2>1, <2>4, <2>5, CacheBounds DEF CacheInv, Entries, Time
  <2>7. Fresh(cache[i])
    BY <2>4, <2>6, CacheBounds DEF Fresh
  <2> QED  BY <2>4, <2>5, <2>7 DEF Kept
<1> QED  BY <1>1, AlwaysExplained, PTL

\* An explanation of the front page is never older than its hour and a round of
\* the warmer, and another round for each time the warmer failed
\* (advisor/warmExplanations.ts:10-12).
THEOREM WarmedInTime == Spec => []WarmedWithin
<1>1. Explained => WarmedWithin
  <2> SUFFICES ASSUME Explained, NEW n \in DOMAIN FrontPage
               PROVE  \/ clock < Longest(faults)
                      \/ \E t \in written[FrontPage[n]] : clock < t + Longest(faults)
    BY DEF WarmedWithin, Longest, ARound, Taking, Walk
  <2>1. n \in 1..Walk
    BY CacheBounds, LenProperties DEF Walk
  <2> DEFINE then == DoneBy(round.at, Len(round.left), round.due, n)
  <2>2. then \in Nat /\ round.due <= then /\ GoodUntil(written[FrontPage[n]], then, faults)
    BY <2>1, RoundIs, NotBeforeDue DEF Explained, RoundInv
  <2> HIDE DEF then
  <2>3. clock \in Nat /\ faults \in Nat /\ round.due \in Nat /\ clock <= round.due
    BY RoundIs DEF Explained
  <2>4. clock <= then
    BY <2>2, <2>3
  <2>5. written[FrontPage[n]] \in SUBSET Nat
    BY <2>1, TimesAre DEF Explained, CacheInv
  <2> QED  BY <2>2, <2>3, <2>4, <2>5, GoodStill DEF GoodUntil
<1> QED  BY <1>1, AlwaysExplained, PTL

\* A page is told the ceiling is reached only if pages had as many explanations
\* written in the hour before (explanationBudget.ts:14-16).
THEOREM CappedOnlyWhenSpent == Spec => CappedWhenSpent
<1> DEFINE Turned == \A r \in Panels :
                       panel'[r].at = "capped" /\ panel'[r] # panel[r] =>
                         Cardinality(LastHour) >= PerHour
<1>1. Explained /\ [Next]_vars => [Turned]_vars
  <2> SUFFICES ASSUME Explained, Next, NEW r \in Panels,
                      panel'[r].at = "capped", panel'[r] # panel[r]
               PROVE  Cardinality(LastHour) >= PerHour
    OBVIOUS
  <2>1. panel \in [Panels -> Panel \cup {Idle}] /\ PanelsOK
    BY DEF Explained, PanelsOK
  <2>2. ASSUME NEW q \in Panels, NEW k \in Keys, Ask(q, k) PROVE Cardinality(LastHour) >= PerHour
    <3>1. q = r
      BY <2>1, <2>2 DEF Ask, Ends, Streams
    <3>2. Kept(k) => panel'[r] = [at |-> "success", gates |-> AllGates("written")]
      BY <2>1, <2>2, <3>1 DEF Ask, Ends
    <3>3. ~Kept(k) /\ MayTake => panel'[r].at = "streams"
      BY <2>1, <2>2, <3>1 DEF Ask, Streams
    <3>4. ~MayTake
      BY <3>2, <3>3
    <3> QED  BY <3>4, TurnedAway DEF Explained
  <2>3. ASSUME NEW q \in Panels, NEW s \in Sections, Deliver(q, s) PROVE FALSE
    BY <2>1, <2>3 DEF Deliver
  <2>4. ASSUME NEW q \in Panels, Succeeds(q) \/ Fails(q) PROVE FALSE
    BY <2>1, <2>4 DEF Succeeds, Fails, Ends
  <2>5. ASSUME RoundBegins \/ WarmNext \/ WarmWrites \/ WarmFails \/ RoundEnds \/ Tick PROVE FALSE
    BY <2>5 DEF RoundBegins, WarmNext, WarmWrites, WarmFails, RoundEnds, Tick
  <2> QED  BY <2>2, <2>3, <2>4, <2>5 DEF Next
<1> QED  BY <1>1, AlwaysExplained, PTL DEF Spec, CappedWhenSpent
=============================================================================
