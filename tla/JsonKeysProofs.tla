--------------------------- MODULE JsonKeysProofs ---------------------------
(***************************************************************************)
(* Proofs about JsonKeys: for every set of objects, keys and iterators, a  *)
(* walk over the keys of an object survives everything plugins may do to   *)
(* it, as long as no key is removed that was not read yet.                 *)
(*                                                                         *)
(* The first part is about lists without duplicates.  The invariant says   *)
(* where in the list an iterator stands: the keys it has read are those    *)
(* before the one it points at.  It needs JsonInv of JsonProofs, because a *)
(* list has the keys of an object only while objects have nothing else.    *)
(***************************************************************************)
EXTENDS JsonKeys, JsonProofs

\* What an ordered_list can be.
Lists == {s \in Seq(Keys) : \A i, j \in DOMAIN s : s[i] = s[j] => i = j}

-----------------------------------------------------------------------------
(***************************************************************************)
(* Lists                                                                   *)
(***************************************************************************)

\* What every proof needs to know of a list.
LEMMA ListFacts ==
    ASSUME NEW s \in Lists
    PROVE  /\ s \in Seq(Keys) /\ Len(s) \in Nat /\ DOMAIN s = 1..Len(s)
           /\ \A i \in DOMAIN s : s[i] \in Keys
           /\ \A i, j \in DOMAIN s : s[i] = s[j] => i = j
           /\ Range(s) \subseteq Keys
<1>1. s \in Seq(Keys) /\ \A i, j \in DOMAIN s : s[i] = s[j] => i = j
  BY DEF Lists
<1>2. Len(s) \in Nat /\ DOMAIN s = 1..Len(s) /\ \A i \in DOMAIN s : s[i] \in Keys
  BY <1>1
<1> QED  BY <1>1, <1>2 DEF Range

LEMMA EmptyList == <<>> \in Lists /\ Range(<<>>) = {} /\ Len(<<>>) = 0
  BY DEF Lists, Range

\* A list is as long as it has keys.
LEMMA ListLength ==
    ASSUME NEW s \in Lists
    PROVE  Len(s) = Cardinality(Range(s))
<1>1. /\ Len(s) \in Nat /\ DOMAIN s = 1..Len(s)
      /\ \A i, j \in DOMAIN s : s[i] = s[j] => i = j
      /\ s \in Seq(Keys)
  BY ListFacts
<1>2. s \in [1..Len(s) -> Range(s)]
  BY <1>1 DEF Range
<1>3. s \in Surjection(1..Len(s), Range(s))
  BY <1>1, <1>2 DEF Range, Surjection
<1>4. s \in Injection(1..Len(s), Range(s))
  BY <1>1, <1>2, Fun_IsInj
<1>5. IsFiniteSet(1..Len(s)) /\ Cardinality(1..Len(s)) = Len(s)
  <2>1. /\ IsFiniteSet(1..Len(s))
        /\ Cardinality(1..Len(s)) = IF 1 > Len(s) THEN 0 ELSE Len(s) - 1 + 1
    BY <1>1, FS_Interval
  <2> QED  BY <1>1, <2>1
<1>6. Cardinality(Range(s)) = Cardinality(1..Len(s))
  BY <1>3, <1>4, <1>5, FS_Surjection
<1> QED  BY <1>5, <1>6

\* Numbering the elements of a finite set of numbers in their order: every
\* number up to its size is given once, and a larger element has a larger one.
LEMMA Ranks ==
    ASSUME NEW A \in SUBSET Nat, IsFiniteSet(A),
           NEW rank, rank = [i \in A |-> Cardinality({j \in A : j <= i})]
    PROVE  /\ Cardinality(A) \in Nat
           /\ \A i \in A : rank[i] \in 1..Cardinality(A)
           /\ \A i, j \in A : i < j => rank[i] < rank[j]
           /\ \A n \in 1..Cardinality(A) : \E i \in A : rank[i] = n
<1> DEFINE upTo(i) == {j \in A : j <= i}
<1>1. Cardinality(A) \in Nat
  BY FS_CardinalityType
<1>2. ASSUME NEW i \in A
      PROVE  /\ IsFiniteSet(upTo(i)) /\ Cardinality(upTo(i)) \in Nat
             /\ Cardinality(upTo(i)) <= Cardinality(A) /\ Cardinality(upTo(i)) # 0
  <2>1. upTo(i) \in SUBSET A
    OBVIOUS
  <2>2. IsFiniteSet(upTo(i)) /\ Cardinality(upTo(i)) <= Cardinality(A)
    BY <2>1, FS_Subset
  <2>3. Cardinality(upTo(i)) \in Nat
    BY <2>2, FS_CardinalityType
  <2>4. i \in upTo(i)
    OBVIOUS
  <2>5. Cardinality(upTo(i)) # 0
    BY <2>2, <2>4, FS_EmptySet
  <2> QED  BY <2>2, <2>3, <2>5
<1>3. \A i \in A : rank[i] = Cardinality(upTo(i))
  OBVIOUS
<1>4. \A i \in A : rank[i] \in 1..Cardinality(A)
  <2> SUFFICES ASSUME NEW i \in A PROVE rank[i] \in 1..Cardinality(A)
    OBVIOUS
  <2>1. rank[i] \in Nat /\ rank[i] <= Cardinality(A) /\ rank[i] # 0
    BY <1>2, <1>3
  <2> QED  BY <1>1, <2>1
<1>5. ASSUME NEW i \in A, NEW j \in A, i < j
      PROVE  rank[i] < rank[j]
  <2>1. upTo(i) \in SUBSET upTo(j)
    <3> SUFFICES ASSUME NEW n \in A, n <= i PROVE n <= j
      OBVIOUS
    <3>1. n \in Nat /\ i \in Nat /\ j \in Nat
      OBVIOUS
    <3> QED  BY <1>5, <3>1
  <2>2. j \in upTo(j) /\ j \notin upTo(i)
    BY <1>5
  <2>3. upTo(j) # upTo(i)
    BY <2>2
  <2>4. /\ Cardinality(upTo(i)) <= Cardinality(upTo(j))
        /\ Cardinality(upTo(j)) # Cardinality(upTo(i))
    BY <1>2, <2>1, <2>3, FS_Subset
  <2>5. rank[i] \in Nat /\ rank[j] \in Nat /\ rank[i] <= rank[j] /\ rank[i] # rank[j]
    BY <1>2, <1>3, <2>4
  <2> QED  BY <2>5
<1>6. \A n \in 1..Cardinality(A) : \E i \in A : rank[i] = n
  <2>1. rank \in [A -> 1..Cardinality(A)]
    BY <1>4
  <2>2. \A i, j \in A : rank[i] = rank[j] => i = j
    <3> SUFFICES ASSUME NEW i \in A, NEW j \in A, i # j PROVE rank[i] # rank[j]
      OBVIOUS
    <3>1. i < j \/ j < i
      OBVIOUS
    <3>2. rank[i] \in Nat /\ rank[j] \in Nat
      BY <1>2, <1>3
    <3>3. rank[i] < rank[j] \/ rank[j] < rank[i]
      BY <1>5, <3>1
    <3> QED  BY <3>2, <3>3
  <2>3. rank \in Injection(A, 1..Cardinality(A))
    BY <2>1, <2>2, Fun_IsInj
  <2>4. /\ IsFiniteSet(1..Cardinality(A))
        /\ Cardinality(1..Cardinality(A)) = Cardinality(A)
    <3> DEFINE c == Cardinality(A)
    <3>1. c \in Nat
      BY <1>1
    <3> HIDE DEF c
    <3>2. IsFiniteSet(1..c) /\ Cardinality(1..c) = IF 1 > c THEN 0 ELSE c - 1 + 1
      BY <3>1, FS_Interval
    <3>3. IsFiniteSet(1..c) /\ Cardinality(1..c) = c
      BY <3>1, <3>2
    <3> QED  BY <3>3 DEF c
  <2>5. rank \in Surjection(A, 1..Cardinality(A))
    BY <2>3, <2>4, FS_Injection
  <2> QED  BY <2>5 DEF Surjection
<1> QED  BY <1>1, <1>4, <1>5, <1>6

\* list_remove: the result is the list of the other keys, and of two of them
\* the one that came first still does.
LEMMA UnlinkFacts ==
    ASSUME NEW s \in Lists, NEW S
    PROVE  /\ Unlink(s, S) \in Lists
           /\ Range(Unlink(s, S)) = Range(s) \ S
           /\ \A a, b \in DOMAIN Unlink(s, S) : a < b =>
                 \E i, j \in DOMAIN s : i < j /\ s[i] = Unlink(s, S)[a] /\ s[j] = Unlink(s, S)[b]
<1> DEFINE stay == {i \in DOMAIN s : s[i] \notin S}
           rank == [i \in stay |-> Cardinality({j \in stay : j <= i})]
           c == Cardinality(stay)
           at(n) == CHOOSE i \in stay : rank[i] = n
           u == [n \in 1..c |-> s[at(n)]]
<1>1. Unlink(s, S) = u
  BY DEF Unlink
<1>2. /\ s \in Seq(Keys) /\ Len(s) \in Nat /\ DOMAIN s = 1..Len(s)
      /\ \A i \in DOMAIN s : s[i] \in Keys
      /\ \A i, j \in DOMAIN s : s[i] = s[j] => i = j
  BY ListFacts
<1>3. IsFiniteSet(stay) /\ stay \in SUBSET Nat /\ stay \in SUBSET DOMAIN s
  <2>1. IsFiniteSet(1..Len(s))
    BY <1>2, FS_Interval
  <2>2. stay \in SUBSET (1..Len(s))
    BY <1>2
  <2>3. IsFiniteSet(stay)
    BY <2>1, <2>2, FS_Subset
  <2> QED  BY <1>2, <2>2, <2>3
<1>4. /\ c \in Nat
      /\ \A i \in stay : rank[i] \in 1..c
      /\ \A i, j \in stay : i < j => rank[i] < rank[j]
      /\ \A n \in 1..c : \E i \in stay : rank[i] = n
  <2> HIDE DEF stay
  <2> QED  BY <1>3, Ranks
<1>5. \A i \in stay : i \in DOMAIN s /\ i \in Nat /\ s[i] \notin S /\ s[i] \in Keys
  BY <1>2
<1>6. \A i \in DOMAIN s : s[i] \notin S => i \in stay
  OBVIOUS
<1>7. \A n \in 1..c : at(n) \in stay /\ rank[at(n)] = n
  <2> HIDE DEF rank, stay, c
  <2> QED  BY <1>4
<1>8. \A n \in 1..c : u[n] = s[at(n)]
  OBVIOUS
<1>9. DOMAIN u = 1..c
  OBVIOUS
<1>10. u \in Seq(Keys)
  <2>1. \A n \in 1..c : s[at(n)] \in Keys
    BY <1>5, <1>7
  <2>2. u \in [1..c -> Keys]
    BY <2>1
  <2> HIDE DEF c, u
  <2> QED  BY <1>4, <2>2
<1> HIDE DEF rank, stay, c, at, u
<1>11. ASSUME NEW a \in 1..c, NEW b \in 1..c, a < b
       PROVE  at(a) < at(b)
  <2>1. at(a) \in stay /\ at(b) \in stay /\ rank[at(a)] = a /\ rank[at(b)] = b
    BY <1>7
  <2>2. ~(at(b) < at(a)) /\ at(a) # at(b)
    <3>1. at(b) < at(a) => b < a
      BY <1>4, <2>1
    <3>2. at(a) # at(b)
      BY <2>1, <1>11
    <3> QED  BY <3>1, <3>2, <1>4, <1>11
  <2>3. at(a) \in Nat /\ at(b) \in Nat
    BY <2>1, <1>5
  <2> QED  BY <2>2, <2>3
<1>12. ASSUME NEW a \in DOMAIN u, NEW b \in DOMAIN u, u[a] = u[b]
       PROVE  a = b
  <2>1. at(a) = at(b)
    BY <1>2, <1>5, <1>7, <1>8, <1>9, <1>12
  <2> QED  BY <1>7, <1>9, <2>1
<1>13. u \in Lists
  BY <1>10, <1>12 DEF Lists
<1>14. Range(u) = Range(s) \ S
  <2>1. ASSUME NEW k \in Range(u) PROVE k \in Range(s) \ S
    <3>1. PICK n \in 1..c : u[n] = k
      BY <1>9, <2>1 DEF Range
    <3> QED  BY <3>1, <1>5, <1>7, <1>8 DEF Range
  <2>2. ASSUME NEW k \in Range(s) \ S PROVE k \in Range(u)
    <3>1. PICK i \in DOMAIN s : s[i] = k
      BY <2>2 DEF Range
    <3>2. i \in stay
      BY <1>6, <2>2, <3>1
    <3>3. rank[i] \in 1..c
      BY <1>4, <3>2
    <3>4. at(rank[i]) = i
      <4>1. at(rank[i]) \in stay /\ rank[at(rank[i])] = rank[i]
        BY <1>7, <3>3
      <4>2. ~(at(rank[i]) < i) /\ ~(i < at(rank[i]))
        <5>1. at(rank[i]) < i => rank[i] < rank[i]
          BY <1>4, <4>1, <3>2
        <5>2. i < at(rank[i]) => rank[i] < rank[i]
          BY <1>4, <4>1, <3>2
        <5> QED  BY <5>1, <5>2, <3>3, <1>4
      <4> QED  BY <1>5, <3>2, <4>1, <4>2
    <3>5. u[rank[i]] = k
      BY <1>8, <3>1, <3>3, <3>4
    <3> QED  BY <1>9, <3>3, <3>5 DEF Range
  <2> QED  BY <2>1, <2>2
<1>15. ASSUME NEW a \in DOMAIN u, NEW b \in DOMAIN u, a < b
       PROVE  \E i, j \in DOMAIN s : i < j /\ s[i] = u[a] /\ s[j] = u[b]
  <2>1. /\ at(a) \in DOMAIN s /\ at(b) \in DOMAIN s
        /\ at(a) < at(b) /\ s[at(a)] = u[a] /\ s[at(b)] = u[b]
    BY <1>5, <1>7, <1>8, <1>9, <1>11, <1>15
  <2> QED  BY <2>1
<1> QED  BY <1>1, <1>13, <1>14, <1>15

\* list_insert: new keys follow the others.
LEMMA LinkFacts ==
    ASSUME NEW s \in Lists, NEW t \in Lists, Range(s) \cap Range(t) = {}
    PROVE  /\ Link(s, t) \in Lists
           /\ Range(Link(s, t)) = Range(s) \cup Range(t)
           /\ Len(s) <= Len(Link(s, t))
           /\ \A i \in DOMAIN s : i \in DOMAIN Link(s, t) /\ Link(s, t)[i] = s[i]
           /\ \A i \in DOMAIN Link(s, t) : i \notin DOMAIN s => Link(s, t)[i] \in Range(t)
<1> DEFINE l == Link(s, t)
<1>1. /\ s \in Seq(Keys) /\ Len(s) \in Nat /\ DOMAIN s = 1..Len(s)
      /\ \A i, j \in DOMAIN s : s[i] = s[j] => i = j
      /\ t \in Seq(Keys) /\ Len(t) \in Nat /\ DOMAIN t = 1..Len(t)
      /\ \A i, j \in DOMAIN t : t[i] = t[j] => i = j
  BY ListFacts
<1>2. /\ l \in Seq(Keys) /\ Len(l) = Len(s) + Len(t)
      /\ \A i \in 1..Len(s) + Len(t) : l[i] = IF i <= Len(s) THEN s[i] ELSE t[i - Len(s)]
  BY <1>1, ConcatProperties DEF Link
<1> HIDE DEF l
<1>3. DOMAIN l = 1..(Len(s) + Len(t)) /\ Len(s) <= Len(l)
  BY <1>1, <1>2
<1>4. \A i \in DOMAIN s : i \in DOMAIN l /\ l[i] = s[i] /\ l[i] \in Range(s)
  BY <1>1, <1>2, <1>3 DEF Range
<1>5. \A i \in DOMAIN l : i \notin DOMAIN s =>
          i - Len(s) \in DOMAIN t /\ l[i] = t[i - Len(s)] /\ l[i] \in Range(t)
  BY <1>1, <1>2, <1>3 DEF Range
<1>6. \A i \in DOMAIN t : i + Len(s) \in DOMAIN l /\ l[i + Len(s)] = t[i]
  BY <1>1, <1>2, <1>3
<1>7. Range(l) = Range(s) \cup Range(t)
  <2>1. ASSUME NEW k \in Range(l) PROVE k \in Range(s) \cup Range(t)
    <3>1. PICK i \in DOMAIN l : l[i] = k
      BY <2>1 DEF Range
    <3> QED  BY <3>1, <1>4, <1>5
  <2>2. Range(s) \subseteq Range(l)
    BY <1>4 DEF Range
  <2>3. Range(t) \subseteq Range(l)
    BY <1>6 DEF Range
  <2> QED  BY <2>1, <2>2, <2>3
<1>8. ASSUME NEW i \in DOMAIN l, NEW j \in DOMAIN l, l[i] = l[j]
      PROVE  i = j
  <2>1. CASE i \in DOMAIN s /\ j \in DOMAIN s
    BY <2>1, <1>1, <1>4, <1>8
  <2>2. CASE i \notin DOMAIN s /\ j \notin DOMAIN s
    <3>1. i - Len(s) = j - Len(s)
      BY <2>2, <1>1, <1>5, <1>8
    <3> QED  BY <3>1, <1>1, <1>3
  <2>3. CASE ~(i \in DOMAIN s <=> j \in DOMAIN s)
    <3>1. l[i] \in Range(s) /\ l[i] \in Range(t)
      BY <2>3, <1>4, <1>5, <1>8
    <3> QED  BY <3>1
  <2> QED  BY <2>1, <2>2, <2>3
<1>9. l \in Lists
  BY <1>2, <1>8 DEF Lists
<1> QED  BY <1>3, <1>4, <1>5, <1>7, <1>9 DEF l

\* The order in which a document's keys come has each of them once.
LEMMA AnyOrder ==
    ASSUME NEW s \in SetToSeqs(Keys)
    PROVE  s \in Lists /\ Range(s) = Keys
<1> DEFINE c == Cardinality(Keys)
<1>1. s \in [1..c -> Keys] /\ \A i, j \in 1..c : i # j => s[i] # s[j]
  BY DEF SetToSeqs
<1>2. c \in Nat
  BY SlotsAssumption, FS_CardinalityType
<1>3. s \in Injection(1..c, Keys)
  BY <1>1, Fun_IsInj
<1>4. Cardinality(1..c) = Cardinality(Keys)
  <2> HIDE DEF c
  <2>1. Cardinality(1..c) = IF 1 > c THEN 0 ELSE c - 1 + 1
    BY <1>2, FS_Interval
  <2>2. Cardinality(1..c) = c
    BY <1>2, <2>1
  <2> QED  BY <2>2 DEF c
<1>5. s \in Surjection(1..c, Keys)
  BY <1>3, <1>4, SlotsAssumption, FS_Injection
<1>6. Range(s) = Keys
  BY <1>5, Fun_SurjectionProperties
<1>7. s \in Seq(Keys)
  <2> HIDE DEF c
  <2> QED  BY <1>1, <1>2
<1>8. DOMAIN s = 1..c
  BY <1>1
<1>9. s \in Lists
  BY <1>1, <1>7, <1>8 DEF Lists
<1> QED  BY <1>6, <1>9

-----------------------------------------------------------------------------
(***************************************************************************)
(* Where an iterator stands                                                *)
(***************************************************************************)

\* k is in the list s, and the keys in R are the ones before it.
Stands(s, k, R) ==
    /\ R \subseteq Range(s)
    /\ \E j \in DOMAIN s : s[j] = k /\ \A i \in DOMAIN s : s[i] \in R <=> i < j

\* json_object_iter: at the first key nothing was read.
LEMMA StandsFirst ==
    ASSUME NEW s \in Lists, s # <<>>
    PROVE  Head(s) \in Keys /\ Head(s) \in Range(s) /\ Stands(s, Head(s), {})
<1>1. s \in Seq(Keys) /\ Len(s) \in Nat /\ DOMAIN s = 1..Len(s)
  BY ListFacts
<1>2. 1 \in DOMAIN s /\ Head(s) = s[1]
  BY <1>1
<1>3. \A i \in DOMAIN s : s[i] \in {} <=> i < 1
  BY <1>1
<1>4. s[1] \in Keys /\ s[1] \in Range(s)
  BY <1>1, <1>2 DEF Range
<1> QED  BY <1>2, <1>3, <1>4 DEF Stands

\* The key that is read next was not read before.
LEMMA StandsAhead ==
    ASSUME NEW s \in Lists, NEW k, NEW R, Stands(s, k, R)
    PROVE  k \notin R /\ k \in Range(s)
<1>1. PICK j \in DOMAIN s : s[j] = k /\ \A i \in DOMAIN s : s[i] \in R <=> i < j
  BY DEF Stands
<1>2. j \in Nat
  BY ListFacts
<1> QED  BY <1>1, <1>2 DEF Range

\* What remains of the list from where the iterator stands is what was not read.
LEMMA StandsExact ==
    ASSUME NEW s \in Lists, NEW k, NEW R, Stands(s, k, R)
    PROVE  \E j \in DOMAIN s : s[j] = k /\ Range(SubSeq(s, j, Len(s))) = Range(s) \ R
<1>1. PICK j \in DOMAIN s : s[j] = k /\ \A i \in DOMAIN s : s[i] \in R <=> i < j
  BY DEF Stands
<1> DEFINE m == Len(s)
           t == SubSeq(s, j, m)
<1>2. /\ s \in Seq(Keys) /\ m \in Nat /\ DOMAIN s = 1..m
      /\ \A i \in DOMAIN s : s[i] \in Keys
  BY ListFacts
<1>3. j \in Nat /\ 1 <= j /\ j <= m
  BY <1>2
<1> HIDE DEF m
<1>4. /\ t \in Seq(Keys) /\ Len(t) = m - j + 1
      /\ \A i \in 1..m - j + 1 : t[i] = s[j + i - 1]
  <2>1. \A i \in j..m : s[i] \in Keys
    BY <1>2, <1>3
  <2>2. /\ t \in Seq(Keys) /\ Len(t) = IF j <= m THEN m - j + 1 ELSE 0
        /\ \A i \in 1..m - j + 1 : t[i] = s[j + i - 1]
    BY <1>2, <1>3, <2>1, SubSeqProperties
  <2> QED  BY <1>3, <2>2
<1> HIDE DEF t
<1>5. DOMAIN t = 1..m - j + 1
  BY <1>4
<1>6. ASSUME NEW x \in Range(t) PROVE x \in Range(s) \ R
  <2>1. PICK i \in 1..m - j + 1 : t[i] = x
    BY <1>5, <1>6 DEF Range
  <2>2. j + i - 1 \in DOMAIN s /\ ~(j + i - 1 < j)
    BY <1>2, <1>3, <2>1
  <2>3. s[j + i - 1] = x
    BY <1>4, <2>1
  <2> QED  BY <1>1, <2>2, <2>3 DEF Range
<1>7. ASSUME NEW x \in Range(s) \ R PROVE x \in Range(t)
  <2>1. PICK i \in DOMAIN s : s[i] = x
    BY <1>7 DEF Range
  <2>2. ~(i < j)
    BY <1>1, <1>7, <2>1
  <2>3. i - j + 1 \in 1..m - j + 1 /\ j + (i - j + 1) - 1 = i
    BY <1>2, <1>3, <2>2
  <2>4. t[i - j + 1] = x
    BY <1>4, <2>1, <2>3
  <2> QED  BY <1>5, <2>3, <2>4 DEF Range
<1>8. Range(t) = Range(s) \ R
  BY <1>6, <1>7
<1> QED  BY <1>1, <1>8 DEF t, m

\* Pairs that are freed, but not the one the iterator points at.
LEMMA StandsUnlink ==
    ASSUME NEW s \in Lists, NEW k, NEW R, Stands(s, k, R), NEW S, k \notin S
    PROVE  Stands(Unlink(s, S), k, R \ S)
<1> DEFINE u == Unlink(s, S)
<1>1. PICK j \in DOMAIN s : s[j] = k /\ \A i \in DOMAIN s : s[i] \in R <=> i < j
  BY DEF Stands
<1>2. /\ u \in Lists /\ Range(u) = Range(s) \ S
      /\ \A a, b \in DOMAIN u : a < b =>
            \E i, l \in DOMAIN s : i < l /\ s[i] = u[a] /\ s[l] = u[b]
  BY UnlinkFacts
<1> HIDE DEF u
<1>3. /\ DOMAIN s \subseteq Nat /\ DOMAIN u \subseteq Nat
      /\ \A i, l \in DOMAIN s : s[i] = s[l] => i = l
  BY <1>2, ListFacts
<1>4. R \ S \subseteq Range(u)
  BY <1>2 DEF Stands
<1>5. PICK b \in DOMAIN u : u[b] = k
  BY <1>1, <1>2 DEF Range
<1>6. ASSUME NEW a \in DOMAIN u PROVE u[a] \in R \ S <=> a < b
  <2>1. u[a] \notin S
    BY <1>2 DEF Range
  <2>2. CASE a < b
    <3>1. PICK i \in DOMAIN s, l \in DOMAIN s : i < l /\ s[i] = u[a] /\ s[l] = u[b]
      BY <1>2, <2>2
    <3>2. l = j
      BY <1>1, <1>3, <1>5, <3>1
    <3> QED  BY <1>1, <2>1, <2>2, <3>1, <3>2
  <2>3. CASE b < a
    <3>1. PICK i \in DOMAIN s, l \in DOMAIN s : i < l /\ s[i] = u[b] /\ s[l] = u[a]
      BY <1>2, <2>3
    <3>2. i = j
      BY <1>1, <1>3, <1>5, <3>1
    <3>3. ~(l < j) /\ ~(a < b)
      BY <1>3, <2>3, <3>1, <3>2
    <3> QED  BY <1>1, <3>1, <3>3
  <2>4. CASE a = b
    <3>1. ~(j < j) /\ ~(b < b)
      BY <1>3
    <3> QED  BY <1>1, <1>5, <2>4, <3>1
  <2> QED  BY <1>3, <2>2, <2>3, <2>4
<1> QED  BY <1>4, <1>5, <1>6 DEF Stands, u

\* Pairs that are added: they are still to come.
LEMMA StandsLink ==
    ASSUME NEW s \in Lists, NEW t \in Lists, Range(s) \cap Range(t) = {},
           NEW k, NEW R, Stands(s, k, R)
    PROVE  Stands(Link(s, t), k, R)
<1> DEFINE l == Link(s, t)
<1>1. PICK j \in DOMAIN s : s[j] = k /\ \A i \in DOMAIN s : s[i] \in R <=> i < j
  BY DEF Stands
<1>2. /\ l \in Lists /\ Range(l) = Range(s) \cup Range(t)
      /\ \A i \in DOMAIN s : i \in DOMAIN l /\ l[i] = s[i]
      /\ \A i \in DOMAIN l : i \notin DOMAIN s => l[i] \in Range(t)
  BY LinkFacts
<1> HIDE DEF l
<1>3. /\ Len(s) \in Nat /\ DOMAIN s = 1..Len(s)
      /\ Len(l) \in Nat /\ DOMAIN l = 1..Len(l)
  BY <1>2, ListFacts
<1>4. R \subseteq Range(s)
  BY DEF Stands
<1>5. ASSUME NEW i \in DOMAIN l PROVE l[i] \in R <=> i < j
  <2>1. CASE i \in DOMAIN s
    BY <1>1, <1>2, <2>1
  <2>2. CASE i \notin DOMAIN s
    <3>1. ~(i < j)
      BY <1>3, <2>2
    <3>2. l[i] \notin R
      BY <1>2, <1>4, <2>2
    <3> QED  BY <3>1, <3>2
  <2> QED  BY <2>1, <2>2
<1>6. j \in DOMAIN l /\ l[j] = k /\ R \subseteq Range(l)
  BY <1>1, <1>2, <1>4
<1> QED  BY <1>5, <1>6 DEF Stands, l

\* json_object_iter_next: the key that follows k, if there is one.
LEMMA NextKey ==
    ASSUME NEW v, order[v] \in Lists, NEW k \in Range(order[v])
    PROVE  \E j \in DOMAIN order[v] :
              /\ order[v][j] = k
              /\ ObjectIterNext(v, k) = IF j = Len(order[v]) THEN "end" ELSE order[v][j + 1]
<1> DEFINE j == CHOOSE i \in DOMAIN order[v] : order[v][i] = k
<1>1. \E i \in DOMAIN order[v] : order[v][i] = k
  BY DEF Range
<1>2. j \in DOMAIN order[v] /\ order[v][j] = k
  BY <1>1
<1>3. ObjectIterNext(v, k) = IF j = Len(order[v]) THEN "end" ELSE order[v][j + 1]
  BY DEF ObjectIterNext
<1> HIDE DEF j
<1> QED  BY <1>2, <1>3

\* ReadObjectKey moves on to the next key, having read the one it was at.
LEMMA StandsNext ==
    ASSUME NEW s \in Lists, NEW k, NEW R, NEW j \in DOMAIN s, s[j] = k, j # Len(s)
    PROVE  /\ s[j + 1] \in Keys /\ s[j + 1] \in Range(s)
           /\ Stands(s, k, R) => Stands(s, s[j + 1], R \cup {k})
<1>1. /\ Len(s) \in Nat /\ DOMAIN s = 1..Len(s) /\ \A i \in DOMAIN s : s[i] \in Keys
      /\ \A i, l \in DOMAIN s : s[i] = s[l] => i = l
  BY ListFacts
<1>2. j + 1 \in DOMAIN s
  BY <1>1
<1>3. s[j + 1] \in Keys /\ s[j + 1] \in Range(s) /\ k \in Range(s)
  BY <1>1, <1>2 DEF Range
<1>4. ASSUME Stands(s, k, R) PROVE Stands(s, s[j + 1], R \cup {k})
  <2>1. PICK l \in DOMAIN s : s[l] = k /\ \A i \in DOMAIN s : s[i] \in R <=> i < l
    BY <1>4 DEF Stands
  <2>2. l = j
    BY <1>1, <2>1
  <2>3. ASSUME NEW i \in DOMAIN s PROVE s[i] \in R \cup {k} <=> i < j + 1
    <3>1. s[i] = k <=> i = j
      BY <1>1
    <3>2. s[i] \in R <=> i < j
      BY <2>1, <2>2
    <3>3. i \in Nat /\ j \in Nat
      BY <1>1
    <3>4. (i < j \/ i = j) <=> i < j + 1
      BY <3>3
    <3> QED  BY <3>1, <3>2, <3>4
  <2>4. R \cup {k} \subseteq Range(s)
    BY <1>3, <1>4 DEF Stands
  <2> QED  BY <1>2, <2>3, <2>4 DEF Stands
<1> QED  BY <1>3, <1>4

-----------------------------------------------------------------------------
(***************************************************************************)
(* The invariant                                                           *)
(***************************************************************************)

Iterator == [object : All \cup {NoValue}, iter : Keys \cup {"end", "freed"},
             read : SUBSET Keys, misused : BOOLEAN]

\* Every hashtable's list has the keys of the hashtable, once each.
ListInv ==
    /\ order \in [All -> Lists]
    /\ \A v \in All : Range(order[v]) = DOMAIN content[v] \cap Keys

\* An iterator of the object whose list is s points into that list.  Unless it
\* was misused, it has read exactly the keys before, and it does not dangle.
IterOK(it, s) ==
    /\ it.object = NoValue => it.iter = "end"
    /\ it.iter \in Keys => it.iter \in Range(s)
    /\ it.iter \in Keys /\ ~it.misused => Stands(s, it.iter, it.read)
    /\ it.iter = "freed" => it.misused

IterInv ==
    /\ keys \in [Iterators -> Iterator]
    /\ \A i \in Iterators : IterOK(keys[i], order[keys[i].object])

KeysInv == JsonInv /\ ListInv /\ IterInv

\* Only an object has keys for slots: those of an array are numbers.
LEMMA ShapedKeys ==
    ASSUME NEW k, NEW f, Shaped(k, f)
    PROVE  /\ k = "object" => DOMAIN f \cap Keys = DOMAIN f
           /\ k # "object" => DOMAIN f \cap Keys = {}
<1>1. ASSUME k = "object" PROVE DOMAIN f \cap Keys = DOMAIN f
  <2>1. PICK S \in SUBSET Keys : f \in [S -> All]
    BY <1>1 DEF Shaped, ObjectSlots
  <2> QED  BY <2>1
<1>2. ASSUME k = "array" PROVE DOMAIN f \cap Keys = {}
  <2>1. f \in Seq(All)
    BY <1>2 DEF Shaped
  <2>2. DOMAIN f \subseteq Nat
    BY <2>1
  <2> QED  BY <2>2, SlotsAssumption
<1>3. ASSUME k # "object", k # "array" PROVE DOMAIN f \cap Keys = {}
  <2>1. f = <<>>
    BY <1>3 DEF Shaped
  <2> QED  BY <2>1, EmptySlots
<1> QED  BY <1>1, <1>2, <1>3

LEMMA KeysInitially == ASSUME KeysInit PROVE KeysInv
<1>1. JsonInv
  BY Initially DEF KeysInit
<1>2. ListInv
  <2>1. order = [v \in All |-> <<>>] /\ content = [v \in All |-> <<>>]
    BY DEF KeysInit, Init
  <2>2. order \in [All -> Lists]
    BY <2>1, EmptyList
  <2>3. \A v \in All : Range(order[v]) = {} /\ DOMAIN content[v] = {}
    BY <2>1, EmptyList, EmptySlots
  <2> QED  BY <2>2, <2>3 DEF ListInv
<1>3. IterInv
  <2>1. keys = [i \in Iterators |-> NoKeys]
    BY DEF KeysInit
  <2>2. NoKeys \in Iterator /\ NoKeys.object = NoValue /\ NoKeys.iter = "end"
    BY DEF NoKeys, Iterator
  <2>3. "end" \notin Keys
    BY KeysAssumption
  <2>4. \A i \in Iterators : IterOK(keys[i], order[keys[i].object])
    BY <2>1, <2>2, <2>3 DEF IterOK
  <2> QED  BY <2>1, <2>2, <2>4 DEF IterInv
<1> QED  BY <1>1, <1>2, <1>3 DEF KeysInv

-----------------------------------------------------------------------------
(***************************************************************************)
(* A native of Json: lists and iterators follow                            *)
(***************************************************************************)

\* The new list of v, and where an iterator is in it that stood in the old one.
LEMMA ListFollows ==
    ASSUME ListInv, JsonInv', Reorder, NEW v \in All
    PROVE  /\ order'[v] \in Lists
           /\ Range(order'[v]) = DOMAIN content'[v] \cap Keys
           /\ \A k, R : Stands(order[v], k, R) /\ k \in DOMAIN content'[v] \cap Keys
                           => Stands(order'[v], k, R \ Gone(v))
<1> DEFINE K == DOMAIN content[v] \cap Keys
           L == DOMAIN content'[v] \cap Keys
           s == order[v]
<1>1. s \in Lists /\ Range(s) = K
  BY DEF ListInv
<1>2. Gone(v) = K \ L /\ Added(v) = L \ K
  BY DEF Gone, Added
<1>3. Shaped(kind'[v], content'[v])
  BY DEF JsonInv, Shapes
<1>4. kind'[v] # "object" => L = {}
  BY <1>3, ShapedKeys
<1>5. PICK z \in SetToSeqs(Keys) :
          order' = [w \in All |->
                       IF kind'[w] # "object" THEN <<>>
                       ELSE Link(Unlink(order[w], Gone(w)), Unlink(z, Keys \ Added(w)))]
  BY DEF Reorder
<1> DEFINE u == Unlink(s, Gone(v))
           n == Unlink(z, Keys \ Added(v))
<1>6. order'[v] = IF kind'[v] # "object" THEN <<>> ELSE Link(u, n)
  BY <1>5
<1>7. CASE kind'[v] # "object"
  <2>1. order'[v] = <<>> /\ L = {}
    BY <1>4, <1>6, <1>7
  <2> QED  BY <2>1, EmptyList
<1>8. CASE kind'[v] = "object"
  <2>1. u \in Lists /\ Range(u) = Range(s) \ Gone(v)
    BY <1>1, UnlinkFacts
  <2>2. n \in Lists /\ Range(n) = Range(z) \ (Keys \ Added(v)) /\ Range(z) = Keys
    BY AnyOrder, UnlinkFacts
  <2>3. order'[v] = Link(u, n)
    BY <1>6, <1>8
  <2> HIDE DEF u, n
  <2>4. Range(u) = K \cap L /\ Range(n) = L \ K
    BY <1>1, <1>2, <2>1, <2>2
  <2>5. Range(u) \cap Range(n) = {}
    BY <2>4
  <2>6. order'[v] \in Lists /\ Range(order'[v]) = Range(u) \cup Range(n)
    BY <2>1, <2>2, <2>3, <2>5, LinkFacts
  <2>7. ASSUME NEW k, NEW R, Stands(s, k, R), k \in L
        PROVE  Stands(order'[v], k, R \ Gone(v))
    <3>1. k \notin Gone(v)
      BY <1>2, <2>7
    <3>2. Stands(u, k, R \ Gone(v))
      BY <1>1, <2>7, <3>1, StandsUnlink DEF u
    <3> QED  BY <2>1, <2>2, <2>3, <2>5, <3>2, StandsLink
  <2> QED  BY <2>4, <2>6, <2>7
<1> QED  BY <1>7, <1>8

\* What Invalidate does to the fields of an iterator.
LEMMA InvalidateFields ==
    ASSUME NEW it \in Iterator, it.object # NoValue
    PROVE  /\ Invalidate(it) \in Iterator
           /\ Invalidate(it).object = it.object
           /\ Invalidate(it).iter = IF it.iter \in Gone(it.object) THEN "freed" ELSE it.iter
           /\ Invalidate(it).read = it.read \ Gone(it.object)
           /\ Invalidate(it).misused = (it.misused \/ ~(Gone(it.object) \subseteq it.read))
<1> DEFINE G == Gone(it.object)
           m == it.misused \/ ~(G \subseteq it.read)
<1>1. Invalidate(it) = [it EXCEPT !.iter = IF it.iter \in G THEN "freed" ELSE it.iter,
                                  !.read = it.read \ G, !.misused = m]
  BY DEF Invalidate
<1>2. m \in BOOLEAN
  OBVIOUS
<1> HIDE DEF m, G
<1>3. /\ Invalidate(it) \in Iterator
      /\ Invalidate(it).object = it.object
      /\ Invalidate(it).iter = IF it.iter \in G THEN "freed" ELSE it.iter
      /\ Invalidate(it).read = it.read \ G
      /\ Invalidate(it).misused = m
  BY <1>1, <1>2 DEF Iterator
<1> QED  BY <1>3 DEF m, G

LEMMA IterFollows ==
    ASSUME ListInv, JsonInv', Reorder, NEW it \in Iterator, IterOK(it, order[it.object])
    PROVE  Invalidate(it) \in Iterator /\ IterOK(Invalidate(it), order'[Invalidate(it).object])
<1>1. CASE it.object = NoValue
  <2>1. Invalidate(it) = it /\ it.iter = "end" /\ "end" \notin Keys
    BY <1>1, KeysAssumption DEF Invalidate, IterOK
  <2> QED  BY <2>1 DEF IterOK
<1>2. CASE it.object # NoValue
  <2> DEFINE v == it.object
             new == Invalidate(it)
             L == DOMAIN content'[v] \cap Keys
  <2>1. v \in All
    BY <1>2 DEF Iterator
  <2>2. /\ new \in Iterator /\ new.object = v
        /\ new.iter = IF it.iter \in Gone(v) THEN "freed" ELSE it.iter
        /\ new.read = it.read \ Gone(v)
        /\ new.misused = (it.misused \/ ~(Gone(v) \subseteq it.read))
    BY <1>2, InvalidateFields
  <2>3. /\ order'[v] \in Lists /\ Range(order'[v]) = L
        /\ \A k, R : Stands(order[v], k, R) /\ k \in L
                        => Stands(order'[v], k, R \ Gone(v))
    BY <2>1, ListFollows
  <2>4. order[v] \in Lists /\ Range(order[v]) = DOMAIN content[v] \cap Keys
    BY <2>1 DEF ListInv
  <2>5. "freed" \notin Keys /\ "end" \notin Keys
    BY KeysAssumption
  <2>6. /\ it.iter \in Keys => it.iter \in Range(order[v])
        /\ it.iter \in Keys /\ ~it.misused => Stands(order[v], it.iter, it.read)
        /\ it.iter = "freed" => it.misused
    BY DEF IterOK
  <2>7. Gone(v) = (DOMAIN content[v] \cap Keys) \ L
    BY DEF Gone
  <2> HIDE DEF v, new, L
  <2>8. new.iter \in Keys => new.iter = it.iter /\ new.iter \in L
    BY <2>2, <2>4, <2>5, <2>6, <2>7
  <2>9. new.iter \in Keys /\ ~new.misused => Stands(order'[v], new.iter, new.read)
    BY <2>2, <2>3, <2>6, <2>8
  <2>10. new.iter = "freed" => new.misused
    <3>1. CASE it.iter = "freed"
      BY <2>2, <2>6, <3>1
    <3>2. CASE it.iter \in Gone(v) /\ ~it.misused
      <4>1. Stands(order[v], it.iter, it.read)
        BY <2>6, <2>7, <3>2
      <4>2. it.iter \notin it.read
        BY <2>4, <4>1, StandsAhead
      <4> QED  BY <2>2, <3>2, <4>2
    <3> QED  BY <2>2, <3>1, <3>2
  <2>11. new.object # NoValue
    BY <1>2, <2>2 DEF v
  <2>12. IterOK(new, order'[v])
    BY <2>3, <2>8, <2>9, <2>10, <2>11 DEF IterOK
  <2> QED  BY <2>2, <2>12 DEF new
<1> QED  BY <1>1, <1>2

LEMMA JsonNativeInv == ASSUME KeysInv, JsonNative PROVE KeysInv'
<1>1. JsonInv /\ ListInv /\ IterInv /\ Next /\ Reorder
  BY DEF KeysInv, JsonNative, Follow
<1>2. JsonInv'
  BY <1>1, Inductive
<1>3. ListInv'
  <2>1. DOMAIN order' = All /\ order' = [v \in All |-> order'[v]]
    BY <1>1 DEF Reorder
  <2>2. \A v \in All : order'[v] \in Lists /\ Range(order'[v]) = DOMAIN content'[v] \cap Keys
    BY <1>1, <1>2, ListFollows
  <2> QED  BY <2>1, <2>2 DEF ListInv
<1>4. IterInv'
  <2>1. keys' = [i \in Iterators |-> Invalidate(keys[i])]
    BY DEF JsonNative, Follow
  <2>2. \A i \in Iterators : keys[i] \in Iterator /\ IterOK(keys[i], order[keys[i].object])
    BY <1>1 DEF IterInv
  <2>3. \A i \in Iterators : keys'[i] \in Iterator /\ IterOK(keys'[i], order'[keys'[i].object])
    BY <1>1, <1>2, <2>1, <2>2, IterFollows
  <2>4. keys' \in [Iterators -> Iterator]
    BY <2>1, <2>3
  <2> QED  BY <2>3, <2>4 DEF IterInv
<1> QED  BY <1>2, <1>3, <1>4 DEF KeysInv

-----------------------------------------------------------------------------
(***************************************************************************)
(* The natives of JSONObjectKeys                                           *)
(***************************************************************************)

\* A step that changes one iterator and nothing else.
LEMMA OneIterator ==
    ASSUME KeysInv, UNCHANGED <<jvars, order>>, NEW i \in Iterators, NEW new \in Iterator,
           keys' = [keys EXCEPT ![i] = new], IterOK(new, order[new.object])
    PROVE  KeysInv'
<1>1. JsonInv /\ ListInv /\ IterInv
  BY DEF KeysInv
<1>2. UNCHANGED jvars /\ order' = order /\ content' = content
  BY DEF jvars
<1>3. JsonInv'
  BY <1>1, <1>2, Inductive
<1>4. ListInv'
  BY <1>1, <1>2 DEF ListInv
<1>5. IterInv'
  <2>1. keys \in [Iterators -> Iterator]
    BY <1>1 DEF IterInv
  <2>2. keys' \in [Iterators -> Iterator]
    BY <2>1
  <2>3. ASSUME NEW l \in Iterators PROVE IterOK(keys'[l], order'[keys'[l].object])
    <3>1. CASE l = i
      BY <1>2, <2>1, <3>1
    <3>2. CASE l # i
      <4>1. keys'[l] = keys[l]
        BY <2>1, <3>2
      <4> QED  BY <1>1, <1>2, <4>1 DEF IterInv
    <3> QED  BY <3>1, <3>2
  <2> QED  BY <2>2, <2>3 DEF IterInv
<1> QED  BY <1>3, <1>4, <1>5 DEF KeysInv

\* The fields of an iterator that is made.
LEMMA NewIterator ==
    ASSUME NEW v \in All \cup {NoValue}, NEW k \in Keys \cup {"end", "freed"}
    PROVE  [NoKeys EXCEPT !.object = v, !.iter = k]
              = [object |-> v, iter |-> k, read |-> {}, misused |-> FALSE]
<1> DEFINE e == [NoKeys EXCEPT !.object = v, !.iter = k]
<1>1. NoKeys \in Iterator /\ NoKeys.read = {} /\ NoKeys.misused = FALSE
  BY DEF NoKeys, Iterator
<1>2. e \in Iterator /\ e.object = v /\ e.iter = k /\ e.read = {} /\ e.misused = FALSE
  BY <1>1 DEF Iterator
<1> HIDE DEF e
<1>3. e = [object |-> e.object, iter |-> e.iter, read |-> e.read, misused |-> e.misused]
  BY <1>2 DEF Iterator
<1>4. e = [object |-> v, iter |-> k, read |-> {}, misused |-> FALSE]
  BY <1>2, <1>3
<1> QED  BY <1>4 DEF e

LEMMA CreateObjectKeysInv ==
    ASSUME KeysInv, NEW h \in Handles, NEW i \in Iterators, CreateObjectKeys(h, i)
    PROVE  KeysInv'
<1> DEFINE v == handle[h]
           new == [NoKeys EXCEPT !.object = v, !.iter = ObjectIter(v)]
<1>1. v \in All
  BY DEF CreateObjectKeys, Open, KeysInv, JsonInv, Vars
<1>2. order[v] \in Lists
  BY <1>1 DEF KeysInv, ListInv
<1>3. "end" \notin Keys /\ "freed" \notin Keys
  BY KeysAssumption
<1>4. ObjectIter(v) = IF order[v] = <<>> THEN "end" ELSE Head(order[v])
  BY DEF ObjectIter
<1>5. ObjectIter(v) \in Keys \cup {"end"}
  BY <1>2, <1>4, StandsFirst
<1>6. ObjectIter(v) \in Keys =>
          ObjectIter(v) \in Range(order[v]) /\ Stands(order[v], ObjectIter(v), {})
  BY <1>2, <1>3, <1>4, StandsFirst
<1>7. new = [object |-> v, iter |-> ObjectIter(v), read |-> {}, misused |-> FALSE]
  <2>1. v \in All \cup {NoValue} /\ ObjectIter(v) \in Keys \cup {"end", "freed"}
    BY <1>1, <1>5
  <2> HIDE DEF v
  <2> QED  BY <2>1, NewIterator
<1>8. keys' = [keys EXCEPT ![i] = new] /\ UNCHANGED <<jvars, order>>
  BY DEF CreateObjectKeys
<1>9. v # NoValue
  BY <1>1, ValuesAssumption DEF All
<1> HIDE DEF v, new
<1>10. /\ new \in Iterator /\ new.object = v /\ new.iter = ObjectIter(v)
       /\ new.read = {} /\ new.misused = FALSE
  BY <1>1, <1>5, <1>7 DEF Iterator
<1>11. IterOK(new, order[new.object])
  BY <1>3, <1>5, <1>6, <1>9, <1>10 DEF IterOK
<1> QED  BY <1>8, <1>10, <1>11, OneIterator

\* What Advance does to the fields of an iterator.
LEMMA AdvanceFields ==
    ASSUME NEW it \in Iterator,
           ObjectIterNext(it.object, it.iter) \in Keys \cup {"end", "freed"},
           it.read \cup {it.iter} \in SUBSET Keys
    PROVE  /\ Advance(it) \in Iterator
           /\ Advance(it).object = it.object
           /\ Advance(it).iter = ObjectIterNext(it.object, it.iter)
           /\ Advance(it).read = it.read \cup {it.iter}
           /\ Advance(it).misused = it.misused
<1> DEFINE n == ObjectIterNext(it.object, it.iter)
           R == it.read \cup {it.iter}
<1>1. Advance(it) = [it EXCEPT !.iter = n, !.read = R]
  BY DEF Advance
<1>2. n \in Keys \cup {"end", "freed"} /\ R \in SUBSET Keys
  OBVIOUS
<1> HIDE DEF n, R
<1>3. /\ Advance(it) \in Iterator /\ Advance(it).object = it.object
      /\ Advance(it).iter = n /\ Advance(it).read = R /\ Advance(it).misused = it.misused
  BY <1>1, <1>2 DEF Iterator
<1> QED  BY <1>3 DEF n, R

\* GetKey and Next on a list, whether or not the iterator was misused.
LEMMA AdvanceOK ==
    ASSUME ListInv, NEW it \in Iterator, it.object \in All, it.iter \in Keys,
           IterOK(it, order[it.object])
    PROVE  Advance(it) \in Iterator /\ IterOK(Advance(it), order[Advance(it).object])
<1> DEFINE v == it.object
           k == it.iter
           s == order[v]
           n == ObjectIterNext(v, k)
           R == it.read \cup {k}
           new == Advance(it)
<1>1. s \in Lists
  BY DEF ListInv
<1>2. k \in Range(s) /\ (~it.misused => Stands(s, k, it.read))
  BY DEF IterOK
<1>3. PICK j \in DOMAIN s : s[j] = k /\ n = IF j = Len(s) THEN "end" ELSE s[j + 1]
  BY <1>1, <1>2, NextKey
<1>4. "end" \notin Keys /\ "freed" \notin Keys /\ v # NoValue
  BY KeysAssumption, ValuesAssumption DEF All
<1>5. /\ j # Len(s) => n \in Keys /\ n \in Range(s)
      /\ j # Len(s) /\ Stands(s, k, it.read) => Stands(s, n, R)
  BY <1>1, <1>3, StandsNext
<1>6. n \in Keys \cup {"end", "freed"} /\ R \in SUBSET Keys
  <2>1. R \in SUBSET Keys
    BY DEF Iterator
  <2> HIDE DEF n
  <2> QED  BY <1>3, <1>5, <2>1
<1>7. /\ new \in Iterator /\ new.object = v /\ new.iter = n
      /\ new.read = R /\ new.misused = it.misused
  BY <1>6, AdvanceFields
<1> HIDE DEF n, R, new
<1>8. IterOK(new, s)
  BY <1>2, <1>3, <1>4, <1>5, <1>7 DEF IterOK
<1> QED  BY <1>7, <1>8 DEF new

LEMMA ReadObjectKeyInv ==
    ASSUME KeysInv, NEW i \in Iterators, ReadObjectKey(i)
    PROVE  KeysInv'
<1> DEFINE it == keys[i]
<1>1. /\ ListInv /\ it \in Iterator /\ IterOK(it, order[it.object]) /\ it.object \in All
      /\ keys \in [Iterators -> Iterator]
  BY DEF KeysInv, IterInv, ReadObjectKey, Iterator
<1>2. UNCHANGED <<jvars, order>>
  BY DEF ReadObjectKey
<1>3. CASE it.iter \in Keys /\ keys' = [keys EXCEPT ![i] = Advance(it)]
  <2>1. Advance(it) \in Iterator /\ IterOK(Advance(it), order[Advance(it).object])
    BY <1>1, <1>3, AdvanceOK
  <2> QED  BY <1>2, <1>3, <2>1, OneIterator
<1>4. ASSUME it.iter = "freed", NEW next \in {"freed", "end"},
             keys' = [keys EXCEPT ![i].iter = next]
      PROVE  KeysInv'
  <2> DEFINE new == [it EXCEPT !.iter = next]
  <2>1. keys' = [keys EXCEPT ![i] = new]
    BY <1>4
  <2>2. "end" \notin Keys /\ "freed" \notin Keys /\ it.object # NoValue
    BY <1>1, KeysAssumption, ValuesAssumption DEF All
  <2>3. it.misused
    BY <1>1, <1>4 DEF IterOK
  <2>4. /\ new \in Iterator /\ new.iter = next /\ new.object = it.object
        /\ new.misused = it.misused
    BY <1>1, <1>4 DEF Iterator
  <2>5. IterOK(new, order[new.object])
    BY <1>4, <2>2, <2>3, <2>4 DEF IterOK
  <2> HIDE DEF new
  <2> QED  BY <1>2, <2>1, <2>4, <2>5, OneIterator
<1>5. CASE UNCHANGED keys
  <2>1. keys' = [keys EXCEPT ![i] = it]
    BY <1>1, <1>5
  <2> QED  BY <1>1, <1>2, <2>1, OneIterator
<1> QED  BY <1>3, <1>4, <1>5 DEF ReadObjectKey

LEMMA KeysDestroyInv ==
    ASSUME KeysInv, NEW i \in Iterators, KeysDestroy(i)
    PROVE  KeysInv'
<1>1. keys' = [keys EXCEPT ![i] = NoKeys] /\ UNCHANGED <<jvars, order>>
  BY DEF KeysDestroy
<1>2. NoKeys \in Iterator /\ NoKeys.object = NoValue /\ NoKeys.iter = "end"
  BY DEF NoKeys, Iterator
<1>3. IterOK(NoKeys, order[NoKeys.object])
  BY <1>2, KeysAssumption DEF IterOK
<1> QED  BY <1>1, <1>2, <1>3, OneIterator

LEMMA KeysInductive == ASSUME KeysInv, [KeysNext]_kvars PROVE KeysInv'
<1>1. CASE JsonNative
  BY <1>1, JsonNativeInv
<1>2. CASE \E h \in Handles, i \in Iterators : CreateObjectKeys(h, i)
  BY <1>2, CreateObjectKeysInv
<1>3. CASE \E i \in Iterators : ReadObjectKey(i) \/ KeysDestroy(i)
  BY <1>3, ReadObjectKeyInv, KeysDestroyInv
<1>4. CASE UNCHANGED kvars
  <2>1. UNCHANGED jvars /\ order' = order /\ keys' = keys /\ content' = content
    BY <1>4 DEF kvars, jvars
  <2>2. JsonInv'
    BY <2>1, Inductive DEF KeysInv
  <2> QED  BY <2>1, <2>2 DEF KeysInv, ListInv, IterInv
<1> QED  BY <1>1, <1>2, <1>3, <1>4 DEF KeysNext

\* KeysInv holds in every reachable state.
LEMMA KeysInvariance == KeysSpec => []KeysInv
<1>1. KeysInit => KeysInv
  BY KeysInitially
<1>2. KeysInv /\ [KeysNext]_kvars => KeysInv'
  BY KeysInductive
<1> QED  BY <1>1, <1>2, PTL DEF KeysSpec

-----------------------------------------------------------------------------
(***************************************************************************)
(* Theorems                                                                *)
(***************************************************************************)

\* A hashtable's ordered_list has each of its keys once, whatever is set,
\* removed, cleared, loaded and freed, and the iterators have their type.
THEOREM KeysTypeCorrect == KeysSpec => []KeysTypeOK
<1>1. ASSUME KeysInv PROVE KeysTypeOK
  <2>1. JsonInv /\ ListInv /\ IterInv
    BY <1>1 DEF KeysInv
  <2>2. ASSUME NEW v \in All
        PROVE  /\ Range(order[v]) = IF kind[v] = "object" THEN DOMAIN content[v] ELSE {}
               /\ Len(order[v]) = Cardinality(Range(order[v]))
    <3>1. order[v] \in Lists /\ Range(order[v]) = DOMAIN content[v] \cap Keys
      BY <2>1 DEF ListInv
    <3>2. Shaped(kind[v], content[v])
      BY <2>1 DEF JsonInv, Shapes
    <3>3. Range(order[v]) = IF kind[v] = "object" THEN DOMAIN content[v] ELSE {}
      BY <3>1, <3>2, ShapedKeys
    <3> QED  BY <3>1, <3>3, ListLength
  <2> QED  BY <2>1, <2>2 DEF KeysTypeOK, IterInv, Iterator
<1> QED  BY <1>1, KeysInvariance, PTL

\* The pointer of a JSONObjectKeys dangles only if a key was removed, or the
\* object freed, before the iterator had read that key.
THEOREM SafeWalk == KeysSpec => []KeysSafe
<1>1. ASSUME KeysInv PROVE KeysSafe
  BY <1>1 DEF KeysInv, IterInv, IterOK, KeysSafe
<1> QED  BY <1>1, KeysInvariance, PTL

\* Until a key is removed before it was read, ReadObjectKey still has to give
\* exactly the keys of the object that were not read: none twice, none missed.
THEOREM ExactWalk == KeysSpec => []KeysExact
<1>1. ASSUME KeysInv PROVE KeysExact
  <2>1. SUFFICES ASSUME NEW i \in Iterators, keys[i].iter \in Keys, ~keys[i].misused
                 PROVE  LET s == order[keys[i].object]
                        IN /\ \E j \in DOMAIN s :
                                 /\ s[j] = keys[i].iter
                                 /\ Range(SubSeq(s, j, Len(s))) = Range(s) \ keys[i].read
                           /\ keys[i].read \subseteq Range(s)
    BY DEF KeysExact
  <2>2. keys[i] \in Iterator /\ IterOK(keys[i], order[keys[i].object])
    BY <1>1 DEF KeysInv, IterInv
  <2>3. keys[i].object \in All
    BY <2>1, <2>2, KeysAssumption DEF IterOK, Iterator
  <2>4. order[keys[i].object] \in Lists
    BY <1>1, <2>3 DEF KeysInv, ListInv
  <2>5. Stands(order[keys[i].object], keys[i].iter, keys[i].read)
    BY <2>1, <2>2 DEF IterOK
  <2> QED  BY <2>4, <2>5, StandsExact DEF Stands
<1> QED  BY <1>1, KeysInvariance, PTL
=============================================================================
