----------------------------- MODULE JsonProofs -----------------------------
(***************************************************************************)
(* Proofs about Json: reference counting is exact for every set of values, *)
(* handles and keys and arrays of any length, so that no handle and no     *)
(* slot ever refers to freed memory.                                       *)
(*                                                                         *)
(* The proof counts.  A native changes the slots of one container, one     *)
(* handle and some pending releases; the lemmas of the first part say by   *)
(* how much each change moves the number of slots and handles of a value.  *)
(***************************************************************************)
EXTENDS Json, FiniteSetTheorems, FunctionTheorems, SequenceTheorems, TLAPS

Kinds == {"free", "scalar", "object", "array"}
ObjectSlots == UNION {[S -> All] : S \in SUBSET Keys}
Slots == ObjectSlots \cup Seq(All)

\* 1 for the value itself.
Is(x, v) == IF x = v THEN 1 ELSE 0

\* How many slots of f, and how many in S, hold x.
Count(f, x) == Cardinality(Holding(f, DOMAIN f, x))
CountIn(f, S, x) == Cardinality(Holding(f, S, x))

\* HandlesTo and SlotsTo, of handles and contents that are given.
HandlesOf(hd, x) == {h \in Handles : hd[h] = x}
SlotsOf(ct, x) == UNION {{w} \X Holding(ct[w], DOMAIN ct[w], x) : w \in All}

-----------------------------------------------------------------------------
(***************************************************************************)
(* The slots of one container                                              *)
(***************************************************************************)

\* <<>> is an object and an array without slots.
LEMMA EmptySlots == <<>> \in ObjectSlots /\ <<>> \in Seq(All) /\ DOMAIN <<>> = {}
<1>1. <<>> \in [{} -> All]
  OBVIOUS
<1>2. {} \in SUBSET Keys
  OBVIOUS
<1>3. <<>> \in ObjectSlots
  BY <1>1, <1>2 DEF ObjectSlots
<1> QED  BY <1>3

\* A container has finitely many slots, and each holds a value.
LEMMA SlotsFinite ==
    ASSUME NEW f \in Slots
    PROVE  /\ IsFiniteSet(DOMAIN f)
           /\ f = [s \in DOMAIN f |-> f[s]]
           /\ \A s \in DOMAIN f : f[s] \in All
<1>1. CASE f \in ObjectSlots
  <2>1. PICK S \in SUBSET Keys : f \in [S -> All]
    BY <1>1 DEF ObjectSlots
  <2>2. IsFiniteSet(S)
    BY SlotsAssumption, FS_Subset
  <2> QED  BY <2>1, <2>2
<1>2. CASE f \in Seq(All)
  <2>1. DOMAIN f = 1..Len(f) /\ Len(f) \in Nat /\ \A s \in 1..Len(f) : f[s] \in All
    BY <1>2
  <2>2. IsFiniteSet(1..Len(f))
    BY <2>1, FS_Interval
  <2>3. f = [s \in DOMAIN f |-> f[s]]
    BY <1>2
  <2> QED  BY <2>1, <2>2, <2>3
<1> QED  BY <1>1, <1>2 DEF Slots

\* The slots in a finite set that hold x are finitely many, and are those of
\* its two halves.
LEMMA HoldingFinite ==
    ASSUME NEW f, NEW S, IsFiniteSet(S), NEW x
    PROVE  IsFiniteSet(Holding(f, S, x)) /\ CountIn(f, S, x) \in Nat
<1>1. Holding(f, S, x) \in SUBSET S
  BY DEF Holding
<1>2. IsFiniteSet(Holding(f, S, x))
  BY <1>1, FS_Subset
<1> QED  BY <1>2, FS_CardinalityType DEF CountIn

LEMMA CountSplit ==
    ASSUME NEW f, NEW S, IsFiniteSet(S), NEW D, NEW E, S = D \cup E, D \cap E = {}, NEW x
    PROVE  CountIn(f, S, x) = CountIn(f, D, x) + CountIn(f, E, x)
<1> DEFINE A == Holding(f, D, x)
           B == Holding(f, E, x)
<1>1. Holding(f, S, x) = A \cup B /\ A \cap B = {}
  BY DEF Holding
<1>2. IsFiniteSet(D) /\ IsFiniteSet(E)
  BY FS_Subset
<1>3. IsFiniteSet(A) /\ IsFiniteSet(B)
  BY <1>2, HoldingFinite
<1> HIDE DEF A, B
<1>4. Cardinality(A \cup B) = Cardinality(A) + Cardinality(B) - Cardinality(A \cap B)
  BY <1>3, FS_Union
<1>5. Cardinality(A \cap B) = 0 /\ Cardinality(A) \in Nat /\ Cardinality(B) \in Nat
  BY <1>1, <1>3, FS_EmptySet, FS_CardinalityType
<1>6. Cardinality(A \cup B) = Cardinality(A) + Cardinality(B)
  BY <1>4, <1>5
<1> QED  BY <1>1, <1>6 DEF A, B, CountIn

\* hashtable_set, array_set and array_append: one slot more for v, and one less
\* for what the slot held before.
LEMMA CountWith ==
    ASSUME NEW f \in Slots, NEW k, NEW v, NEW x, NEW D, D = DOMAIN f \cap {k}
    PROVE  Count(With(f, k, v), x) + CountIn(f, D, x) = Count(f, x) + Is(x, v)
<1> DEFINE E == DOMAIN f \ {k}
           A == Holding(f, E, x)
           g == With(f, k, v)
<1>1. /\ IsFiniteSet(DOMAIN f) /\ IsFiniteSet(E) /\ IsFiniteSet(D)
      /\ DOMAIN f = E \cup D /\ E \cap D = {}
  BY SlotsFinite, FS_RemoveElement, FS_Subset
<1>2. k \notin A /\ Holding(g, DOMAIN g, x) = IF x = v THEN A \cup {k} ELSE A
  BY DEF With, Holding
<1> HIDE DEF E
<1>3. IsFiniteSet(A)
  BY <1>1, HoldingFinite
<1>4. CountIn(f, DOMAIN f, x) = CountIn(f, E, x) + CountIn(f, D, x)
  BY <1>1, CountSplit
<1>5. CountIn(f, D, x) \in Nat
  BY <1>1, HoldingFinite
<1> HIDE DEF A, g
<1>6. Cardinality(A) \in Nat /\ Cardinality(A \cup {k}) = Cardinality(A) + 1
  BY <1>2, <1>3, FS_AddElement, FS_CardinalityType
<1>7. Count(g, x) = Cardinality(A) + Is(x, v)
  BY <1>2, <1>6 DEF Count, Is
<1>8. Count(f, x) = Cardinality(A) + CountIn(f, D, x)
  BY <1>4 DEF Count, CountIn, A
<1>9. Count(g, x) + CountIn(f, D, x) = Count(f, x) + Is(x, v)
  BY <1>5, <1>6, <1>7, <1>8 DEF Is
<1> QED  BY <1>9 DEF g

\* hashtable_del.
LEMMA CountRestrict ==
    ASSUME NEW f \in Slots, NEW k \in DOMAIN f, NEW x, NEW D, D = {k},
           NEW g, g = Restrict(f, DOMAIN f \ {k})
    PROVE  Count(g, x) + CountIn(f, D, x) = Count(f, x)
<1> DEFINE E == DOMAIN f \ {k}
<1>1. Holding(g, DOMAIN g, x) = Holding(f, E, x)
  BY DEF Restrict, Holding
<1>2. IsFiniteSet(DOMAIN f) /\ DOMAIN f = E \cup D /\ E \cap D = {}
  BY SlotsFinite
<1> HIDE DEF E
<1>3. CountIn(f, DOMAIN f, x) = CountIn(f, E, x) + CountIn(f, D, x)
  BY <1>2, CountSplit
<1> QED  BY <1>1, <1>3 DEF Count, CountIn

\* array_move: what came after the slot that is removed has moved down by one.
LEMMA CountRemoveAt ==
    ASSUME NEW f \in Seq(All), NEW i \in DOMAIN f, NEW x, NEW D, D = {i}
    PROVE  /\ RemoveAt(f, i) \in Seq(All)
           /\ Count(RemoveAt(f, i), x) + CountIn(f, D, x) = Count(f, x)
<1> DEFINE g == RemoveAt(f, i)
           n == Len(f)
           up == [j \in Holding(g, DOMAIN g, x) |-> IF j < i THEN j ELSE j + 1]
<1>1. DOMAIN f = 1..n /\ n \in Nat /\ i \in 1..n
  BY DEF n
<1>2. /\ g \in Seq(All) /\ Len(g) = n - 1 /\ DOMAIN g = 1..(n - 1)
      /\ \A j \in 1..(n - 1) : g[j] = IF j < i THEN f[j] ELSE f[j + 1]
  <2>1. /\ SubSeq(f, 1, i - 1) \in Seq(All) /\ Len(SubSeq(f, 1, i - 1)) = i - 1
        /\ \A j \in 1..(i - 1) : SubSeq(f, 1, i - 1)[j] = f[j]
    BY <1>1, SubSeqProperties
  <2>2. /\ SubSeq(f, i + 1, n) \in Seq(All) /\ Len(SubSeq(f, i + 1, n)) = n - i
        /\ \A j \in 1..(n - i) : SubSeq(f, i + 1, n)[j] = f[i + j]
    BY <1>1, SubSeqProperties
  <2> DEFINE a == SubSeq(f, 1, i - 1)
             b == SubSeq(f, i + 1, n)
  <2>3. g = a \o b
    BY DEF RemoveAt
  <2> HIDE DEF a, b, g, n
  <2>4. g \in Seq(All) /\ Len(g) = n - 1
    BY <1>1, <2>1, <2>2, <2>3 DEF a, b
  <2>5. ASSUME NEW j \in 1..(n - 1)
        PROVE  g[j] = IF j < i THEN f[j] ELSE f[j + 1]
    <3>1. CASE j < i
      BY <1>1, <2>1, <2>2, <2>3, <2>5, <3>1 DEF a, b
    <3>2. CASE j >= i
      <4>0. a \in Seq(All) /\ b \in Seq(All) /\ Len(a) = i - 1 /\ Len(b) = n - i
        BY <2>1, <2>2 DEF a, b
      <4>1. g[j] = b[j - (i - 1)] /\ j - (i - 1) \in 1..(n - i)
        BY <1>1, <2>3, <2>5, <3>2, <4>0
      <4>2. i + (j - (i - 1)) = j + 1
        BY <1>1
      <4> QED  BY <1>1, <2>2, <3>2, <4>1, <4>2 DEF b
    <3> QED  BY <1>1, <3>1, <3>2
  <2> QED  BY <2>4, <2>5
<1> HIDE DEF g, n
<1> DEFINE A == Holding(g, DOMAIN g, x)
           B == Holding(f, DOMAIN f \ {i}, x)
<1>3. IsFiniteSet(DOMAIN f) /\ IsFiniteSet(DOMAIN g)
  BY <1>1, <1>2, FS_Interval
<1>4. IsFiniteSet(A)
  BY <1>3, HoldingFinite
<1>5. up \in [A -> B]
  BY <1>1, <1>2 DEF Holding
<1>6. \A j, l \in A : up[j] = up[l] => j = l
  BY <1>1, <1>2 DEF Holding
<1>7. ASSUME NEW l \in B PROVE \E j \in A : up[j] = l
  <2>1. l \in 1..n /\ l # i /\ f[l] = x
    BY <1>1 DEF Holding
  <2>2. CASE l < i
    <3>1. l \in A
      BY <1>1, <1>2, <2>1, <2>2 DEF Holding
    <3> QED  BY <2>2, <3>1
  <2>3. CASE l > i
    <3>1. l - 1 \in A /\ ~(l - 1 < i) /\ (l - 1) + 1 = l
      BY <1>1, <1>2, <2>1, <2>3 DEF Holding
    <3> QED  BY <3>1
  <2> QED  BY <1>1, <2>1, <2>2, <2>3
<1> HIDE DEF up
<1>8. up \in Bijection(A, B)
  BY <1>5, <1>6, <1>7 DEF Bijection, Injection, Surjection, IsInjective
<1>9. Cardinality(B) = Cardinality(A)
  BY <1>4, <1>8, FS_Bijection DEF ExistsBijection
<1> DEFINE E == DOMAIN f \ {i}
<1>10. DOMAIN f = E \cup D /\ E \cap D = {}
  BY <1>1
<1> HIDE DEF E
<1>11. CountIn(f, DOMAIN f, x) = CountIn(f, E, x) + CountIn(f, D, x)
  BY <1>3, <1>10, CountSplit
<1>12. Count(f, x) = Cardinality(B) + CountIn(f, D, x)
  BY <1>11 DEF Count, CountIn, E
<1> QED  BY <1>2, <1>9, <1>12 DEF Count, g

-----------------------------------------------------------------------------
(***************************************************************************)
(* All slots, and all handles                                              *)
(***************************************************************************)

\* What contents are: the singletons have no slots.
Contents == {ct \in [All -> Slots] : \A w \in Singletons : ct[w] = <<>>}

\* The slots outside of c that hold x.
SlotsElsewhere(ct, c, x) == {p \in SlotsOf(ct, x) : p[1] # c}

LEMMA SlotsOfElement ==
    ASSUME NEW ct, NEW x, NEW p
    PROVE  p \in SlotsOf(ct, x)
              <=> \E w \in All : \E s \in DOMAIN ct[w] : p = <<w, s>> /\ ct[w][s] = x
BY DEF SlotsOf, Holding

LEMMA SlotsOfFinite ==
    ASSUME NEW ct \in Contents, NEW x
    PROVE  IsFiniteSet(SlotsOf(ct, x)) /\ Cardinality(SlotsOf(ct, x)) \in Nat
<1> DEFINE F == [w \in Values |-> {w} \X DOMAIN ct[w]]
           R == {F[w] : w \in Values}
<1>1. F \in Surjection(Values, R)
  BY DEF Surjection
<1>2. IsFiniteSet(R)
  BY <1>1, FS_Surjection, ValuesAssumption
<1>3. ASSUME NEW T \in R PROVE IsFiniteSet(T)
  <2>1. PICK w \in Values : T = {w} \X DOMAIN ct[w]
    OBVIOUS
  <2>2. ct[w] \in Slots
    BY <2>1 DEF Contents, All
  <2>3. IsFiniteSet(DOMAIN ct[w]) /\ IsFiniteSet({w})
    BY <2>2, SlotsFinite, FS_Singleton
  <2> QED  BY <2>1, <2>3, FS_Product
<1>4. IsFiniteSet(UNION R)
  BY <1>2, <1>3, FS_UNION
<1>5. SlotsOf(ct, x) \subseteq UNION R
  <2>1. SUFFICES ASSUME NEW p \in SlotsOf(ct, x) PROVE \E T \in R : p \in T
    OBVIOUS
  <2>2. PICK w \in All : \E s \in DOMAIN ct[w] : p = <<w, s>>
    BY SlotsOfElement
  <2>3. w \in Values
    BY <2>2, EmptySlots DEF Contents, All
  <2>4. F[w] \in R /\ p \in F[w]
    BY <2>2, <2>3
  <2> QED  BY <2>4
<1>6. IsFiniteSet(SlotsOf(ct, x))
  BY <1>4, <1>5, FS_Subset
<1> QED  BY <1>6, FS_CardinalityType

LEMMA SlotsOfSplit ==
    ASSUME NEW ct \in Contents, NEW x, NEW c \in All
    PROVE  /\ Cardinality(SlotsOf(ct, x))
                 = Cardinality(SlotsElsewhere(ct, c, x)) + Count(ct[c], x)
           /\ Cardinality(SlotsElsewhere(ct, c, x)) \in Nat /\ Count(ct[c], x) \in Nat
<1> DEFINE R == SlotsElsewhere(ct, c, x)
           H == Holding(ct[c], DOMAIN ct[c], x)
           Q == {c} \X H
<1>1. SlotsOf(ct, x) = R \cup Q /\ R \cap Q = {}
  <2>1. Q \subseteq SlotsOf(ct, x) /\ \A p \in Q : p[1] = c
    BY SlotsOfElement DEF Holding
  <2>2. ASSUME NEW p \in SlotsOf(ct, x), p[1] = c PROVE p \in Q
    BY <2>2, SlotsOfElement DEF Holding
  <2> QED  BY <2>1, <2>2 DEF SlotsElsewhere
<1>2. IsFiniteSet(R)
  BY SlotsOfFinite, FS_Subset DEF SlotsElsewhere
<1>3. IsFiniteSet(H)
  <2>1. ct[c] \in Slots
    BY DEF Contents
  <2>2. IsFiniteSet(DOMAIN ct[c])
    BY <2>1, SlotsFinite
  <2> QED  BY <2>2, HoldingFinite
<1> HIDE DEF R, H
<1>4. IsFiniteSet(Q) /\ Cardinality(Q) = Cardinality(H) /\ Cardinality(H) \in Nat
  <2>1. IsFiniteSet({c}) /\ Cardinality({c}) = 1
    BY FS_Singleton
  <2>2. IsFiniteSet(Q) /\ Cardinality(Q) = 1 * Cardinality(H)
    BY <1>3, <2>1, FS_Product
  <2>3. Cardinality(H) \in Nat
    BY <1>3, FS_CardinalityType
  <2> QED  BY <2>2, <2>3
<1> HIDE DEF Q
<1>5. Cardinality(R \cup Q) = Cardinality(R) + Cardinality(Q) - Cardinality(R \cap Q)
  BY <1>2, <1>4, FS_Union
<1>6. Cardinality(R \cap Q) = 0 /\ Cardinality(R) \in Nat
  BY <1>1, <1>2, FS_EmptySet, FS_CardinalityType
<1>7. Cardinality(R \cup Q) = Cardinality(R) + Cardinality(H)
  BY <1>4, <1>5, <1>6
<1> QED  BY <1>1, <1>4, <1>6, <1>7 DEF R, H, Count

LEMMA SlotsElsewhereElement ==
    ASSUME NEW ct, NEW c, NEW x, NEW p
    PROVE  p \in SlotsElsewhere(ct, c, x)
              <=> \E w \in All : /\ w # c
                                /\ \E s \in DOMAIN ct[w] : p = <<w, s>> /\ ct[w][s] = x
<1>1. p \in SlotsElsewhere(ct, c, x) <=> p \in SlotsOf(ct, x) /\ p[1] # c
  BY DEF SlotsElsewhere
<1>2. p \in SlotsOf(ct, x)
         <=> \E w \in All : \E s \in DOMAIN ct[w] : p = <<w, s>> /\ ct[w][s] = x
  BY SlotsOfElement
<1>3. \A w, s : p = <<w, s>> => p[1] = w
  OBVIOUS
<1> QED  BY <1>1, <1>2, <1>3

LEMMA SlotsElsewhereSame ==
    ASSUME NEW ct, NEW ct2, NEW c, NEW x, \A w \in All : w # c => ct2[w] = ct[w]
    PROVE  SlotsElsewhere(ct2, c, x) = SlotsElsewhere(ct, c, x)
<1>1. ASSUME NEW p
      PROVE  p \in SlotsElsewhere(ct2, c, x) <=> p \in SlotsElsewhere(ct, c, x)
  <2>1. p \in SlotsElsewhere(ct, c, x)
           <=> \E w \in All : /\ w # c
                             /\ \E s \in DOMAIN ct[w] : p = <<w, s>> /\ ct[w][s] = x
    BY SlotsElsewhereElement
  <2>2. p \in SlotsElsewhere(ct2, c, x)
           <=> \E w \in All : /\ w # c
                             /\ \E s \in DOMAIN ct2[w] : p = <<w, s>> /\ ct2[w][s] = x
    BY SlotsElsewhereElement
  <2> QED  BY <2>1, <2>2
<1> QED  BY <1>1 DEF SlotsElsewhere

\* When one container changes, the number of slots that hold x changes by what
\* changes there.
LEMMA SlotsOfChange ==
    ASSUME NEW ct \in Contents, NEW ct2 \in Contents, NEW c \in Values, NEW g,
           ct2[c] = g, \A w \in All : w # c => ct2[w] = ct[w], NEW x
    PROVE  /\ Cardinality(SlotsOf(ct2, x)) + Count(ct[c], x)
                 = Cardinality(SlotsOf(ct, x)) + Count(g, x)
           /\ Cardinality(SlotsOf(ct2, x)) \in Nat /\ Cardinality(SlotsOf(ct, x)) \in Nat
           /\ Count(ct[c], x) \in Nat /\ Count(g, x) \in Nat
<1>1. c \in All
  BY DEF All
<1>2. SlotsElsewhere(ct2, c, x) = SlotsElsewhere(ct, c, x)
  BY SlotsElsewhereSame
<1>3. /\ Cardinality(SlotsOf(ct, x)) = Cardinality(SlotsElsewhere(ct, c, x)) + Count(ct[c], x)
      /\ Cardinality(SlotsElsewhere(ct, c, x)) \in Nat /\ Count(ct[c], x) \in Nat
  BY <1>1, SlotsOfSplit
<1>4. /\ Cardinality(SlotsOf(ct2, x)) = Cardinality(SlotsElsewhere(ct2, c, x)) + Count(ct2[c], x)
      /\ Count(ct2[c], x) \in Nat
  BY <1>1, SlotsOfSplit
<1> QED  BY <1>1, <1>2, <1>3, <1>4

LEMMA HandlesOfFinite ==
    ASSUME NEW hd, NEW x
    PROVE  IsFiniteSet(HandlesOf(hd, x)) /\ Cardinality(HandlesOf(hd, x)) \in Nat
<1>1. IsFiniteSet(HandlesOf(hd, x))
  BY HandlesAssumption, FS_Subset DEF HandlesOf
<1> QED  BY <1>1, FS_CardinalityType

\* A handle that is opened is one more for its value.
LEMMA HandleOpens ==
    ASSUME NEW hd \in [Handles -> All \cup {NoValue}], NEW h \in Handles, hd[h] = NoValue,
           NEW v \in All, NEW hd2, hd2 = [hd EXCEPT ![h] = v], NEW x \in Values
    PROVE  Cardinality(HandlesOf(hd2, x)) = Cardinality(HandlesOf(hd, x)) + Is(x, v)
<1>1. x # NoValue
  BY ValuesAssumption
<1>2. h \notin HandlesOf(hd, x)
  BY <1>1 DEF HandlesOf
<1>3. HandlesOf(hd2, x) = IF x = v THEN HandlesOf(hd, x) \cup {h} ELSE HandlesOf(hd, x)
  BY <1>1 DEF HandlesOf
<1>4. Cardinality(HandlesOf(hd, x) \cup {h}) = Cardinality(HandlesOf(hd, x)) + 1
  BY <1>2, HandlesOfFinite, FS_AddElement
<1> QED  BY <1>3, <1>4, HandlesOfFinite DEF Is

\* And one that is closed is one less.
LEMMA HandleCloses ==
    ASSUME NEW hd \in [Handles -> All \cup {NoValue}], NEW h \in Handles, NEW hd2,
           hd2 = [hd EXCEPT ![h] = NoValue], NEW x \in Values
    PROVE  Cardinality(HandlesOf(hd2, x)) + Is(x, hd[h]) = Cardinality(HandlesOf(hd, x))
<1>1. x # NoValue
  BY ValuesAssumption
<1> DEFINE A == HandlesOf(hd, x)
           B == A \ {h}
<1>2. HandlesOf(hd2, x) = B
  BY <1>1 DEF HandlesOf
<1>3. h \in A <=> x = hd[h]
  BY DEF HandlesOf
<1>4. IsFiniteSet(A) /\ Cardinality(A) \in Nat
  BY HandlesOfFinite
<1> HIDE DEF A
<1>5. Cardinality(B) = IF h \in A THEN Cardinality(A) - 1 ELSE Cardinality(A)
  BY <1>4, FS_RemoveElement
<1> HIDE DEF B
<1>6. Cardinality(B) + Is(x, hd[h]) = Cardinality(A)
  BY <1>3, <1>4, <1>5 DEF Is
<1> QED  BY <1>2, <1>6 DEF A

-----------------------------------------------------------------------------
(***************************************************************************)
(* The invariant                                                           *)
(***************************************************************************)

Vars ==
    /\ kind \in [All -> Kinds]
    /\ refs \in [Values -> Nat]
    /\ content \in [All -> Slots]
    /\ handle \in [Handles -> All \cup {NoValue}]
    /\ drops \in [All -> Nat]

\* An object's slots are keys, an array's are numbers, others have none.
Shaped(k, f) ==
    /\ f \in Slots
    /\ k = "object" => f \in ObjectSlots
    /\ k = "array" => f \in Seq(All)
    /\ k \notin {"object", "array"} => f = <<>>

Shapes == \A v \in All : Shaped(kind[v], content[v])
SingletonsScalar == \A v \in Singletons : kind[v] = "scalar"

\* Memory is free when nothing is counted for it.
FreeExact == \A v \in Values : kind[v] = "free" <=> refs[v] = 0

\* RefExact, of the counts of the lemmas above.
Counted ==
    \A x \in Values :
        refs[x] = Cardinality(HandlesOf(handle, x)) + Cardinality(SlotsOf(content, x)) + drops[x]

JsonInv == Vars /\ Shapes /\ SingletonsScalar /\ FreeExact /\ Counted

LEMMA ContentsOf == ASSUME JsonInv PROVE content \in Contents
<1>1. ASSUME NEW w \in Singletons PROVE content[w] = <<>>
  <2>1. w \in All /\ kind[w] = "scalar"
    BY DEF JsonInv, SingletonsScalar, All
  <2> QED  BY <2>1 DEF JsonInv, Shapes, Shaped
<1> QED  BY <1>1 DEF JsonInv, Vars, Contents

\* The counts of the state are numbers.
LEMMA CountsNat ==
    ASSUME JsonInv, NEW x \in Values
    PROVE  /\ Cardinality(HandlesOf(handle, x)) \in Nat
           /\ Cardinality(SlotsOf(content, x)) \in Nat
           /\ drops[x] \in Nat /\ refs[x] \in Nat
           /\ x \in All /\ x \notin Singletons /\ x # NoValue
<1>1. content \in Contents
  BY ContentsOf
<1>2. Cardinality(SlotsOf(content, x)) \in Nat
  BY <1>1, SlotsOfFinite
<1>3. x \in All /\ x \notin Singletons /\ x # NoValue
  BY ValuesAssumption DEF All
<1> QED  BY <1>2, <1>3, HandlesOfFinite DEF JsonInv, Vars

\* What a handle or a slot refers to is allocated.
LEMMA HandleCounts ==
    ASSUME JsonInv, NEW x \in Values, NEW h \in Handles, handle[h] = x
    PROVE  refs[x] > 0 /\ kind[x] # "free"
<1>1. h \in HandlesOf(handle, x)
  BY DEF HandlesOf
<1>2. Cardinality(HandlesOf(handle, x)) # 0
  BY <1>1, HandlesOfFinite, FS_EmptySet
<1>3. refs[x] > 0
  BY <1>2, CountsNat DEF JsonInv, Counted
<1> QED  BY <1>3 DEF JsonInv, FreeExact

LEMMA SlotCounts ==
    ASSUME JsonInv, NEW x \in Values, NEW w \in All, NEW s \in DOMAIN content[w],
           content[w][s] = x
    PROVE  refs[x] > 0 /\ kind[x] # "free"
<1>1. <<w, s>> \in SlotsOf(content, x)
  BY SlotsOfElement
<1>2. content \in Contents
  BY ContentsOf
<1>3. IsFiniteSet(SlotsOf(content, x))
  BY <1>2, SlotsOfFinite
<1>4. Cardinality(SlotsOf(content, x)) # 0
  BY <1>1, <1>3, FS_EmptySet
<1>5. refs[x] > 0
  BY <1>4, CountsNat DEF JsonInv, Counted
<1> QED  BY <1>5 DEF JsonInv, FreeExact

LEMMA Initially == ASSUME Init PROVE JsonInv
<1>1. Vars /\ Shapes /\ SingletonsScalar /\ FreeExact
  BY EmptySlots, ValuesAssumption
     DEF Init, Vars, Shapes, Shaped, SingletonsScalar, FreeExact, Kinds, Slots, All
<1>2. ASSUME NEW x \in Values
      PROVE  /\ HandlesOf(handle, x) = {} /\ SlotsOf(content, x) = {}
             /\ refs[x] = 0 /\ drops[x] = 0
  <2>1. HandlesOf(handle, x) = {}
    BY ValuesAssumption DEF Init, HandlesOf
  <2>2. \A w \in All : DOMAIN content[w] = {}
    BY EmptySlots DEF Init
  <2>3. SlotsOf(content, x) = {}
    BY <2>2 DEF SlotsOf, Holding
  <2> QED  BY <2>1, <2>3 DEF Init, All
<1>3. Counted
  BY <1>2, FS_EmptySet DEF Counted
<1> QED  BY <1>1, <1>3 DEF JsonInv

-----------------------------------------------------------------------------
(***************************************************************************)
(* What the parts of the natives do to the counts                          *)
(***************************************************************************)

\* Values are made, and none is freed.
KindGrows ==
    \A w \in All : \/ kind'[w] = kind[w]
                   \/ kind[w] = "free" /\ kind'[w] = "scalar"

Stored(v) == FromHandle(v) \/ Fresh(v) \/ Constant(v)

\* The three ways to a value that a setter stores: one reference more for it.
LEMMA StoredEffect ==
    ASSUME JsonInv, NEW v \in All, Stored(v)
    PROVE  /\ kind' \in [All -> Kinds] /\ refs' \in [Values -> Nat]
           /\ KindGrows /\ SingletonsScalar' /\ FreeExact'
           /\ \A x \in Values : refs'[x] = refs[x] + Is(x, v)
<1> USE DEF JsonInv, Vars, Kinds, All, SingletonsScalar, FreeExact
<1>1. CASE FromHandle(v)
  <2>1. PICK g \in Handles : handle[g] = v
    BY <1>1 DEF FromHandle, Open
  <2>2. v \in Values => refs[v] > 0 /\ kind[v] # "free"
    BY <2>1, HandleCounts
  <2>3. \A x \in Values : refs'[x] = refs[x] + Is(x, v)
    BY <1>1, ValuesAssumption DEF FromHandle, Incref, Is
  <2>4. refs' \in [Values -> Nat] /\ kind' = kind
    BY <1>1 DEF FromHandle, Incref
  <2>5. FreeExact'
    BY <2>2, <2>3, <2>4 DEF Is
  <2> QED  BY <2>3, <2>4, <2>5 DEF KindGrows
<1>2. CASE Fresh(v)
  <2>1. v \in Values /\ kind[v] = "free" /\ refs[v] = 0
    BY <1>2 DEF Fresh, Free
  <2>2. kind' = [kind EXCEPT ![v] = "scalar"] /\ refs' = [refs EXCEPT ![v] = 1]
    BY <1>2 DEF Fresh
  <2>3. \A x \in Values : refs'[x] = refs[x] + Is(x, v)
    BY <2>1, <2>2 DEF Is
  <2>4. SingletonsScalar' /\ KindGrows
    BY <2>1, <2>2, ValuesAssumption DEF KindGrows
  <2>5. FreeExact'
    BY <2>1, <2>2
  <2> QED  BY <2>1, <2>2, <2>3, <2>4, <2>5
<1>3. CASE Constant(v)
  <2>1. v \in Singletons /\ UNCHANGED <<kind, refs>>
    BY <1>3 DEF Constant
  <2>2. \A x \in Values : refs'[x] = refs[x] + Is(x, v)
    BY <2>1, ValuesAssumption DEF Is
  <2> QED  BY <2>1, <2>2 DEF KindGrows
<1> QED  BY <1>1, <1>2, <1>3 DEF Stored

\* CreateHandleEx: the reference of v is a handle's or is owed.
LEMMA PublishEffect ==
    ASSUME JsonInv, NEW v \in All, Publish(v)
    PROVE  /\ handle' \in [Handles -> All \cup {NoValue}] /\ drops' \in [All -> Nat]
           /\ \A x \in Values :
                 /\ Cardinality(HandlesOf(handle', x)) + drops'[x]
                       = Cardinality(HandlesOf(handle, x)) + drops[x] + Is(x, v)
                 /\ Cardinality(HandlesOf(handle', x)) \in Nat
<1>1. handle \in [Handles -> All \cup {NoValue}] /\ drops \in [All -> Nat]
  BY DEF JsonInv, Vars
<1>2. CASE \E h \in Handles \ Open : handle' = [handle EXCEPT ![h] = v] /\ drops' = drops
  <2>1. PICK h \in Handles : handle[h] = NoValue /\ handle' = [handle EXCEPT ![h] = v]
    BY <1>2 DEF Open
  <2>2. ASSUME NEW x \in Values
        PROVE  Cardinality(HandlesOf(handle', x)) = Cardinality(HandlesOf(handle, x)) + Is(x, v)
    <3> DEFINE hd2 == [handle EXCEPT ![h] = v]
    <3>1. Cardinality(HandlesOf(hd2, x)) = Cardinality(HandlesOf(handle, x)) + Is(x, v)
      BY <1>1, <2>1, HandleOpens
    <3> QED  BY <2>1, <3>1
  <2>3. handle' \in [Handles -> All \cup {NoValue}]
    BY <1>1, <2>1
  <2>4. ASSUME NEW x \in Values
        PROVE  /\ Cardinality(HandlesOf(handle', x)) + drops'[x]
                     = Cardinality(HandlesOf(handle, x)) + drops[x] + Is(x, v)
               /\ Cardinality(HandlesOf(handle', x)) \in Nat
    <3>1. Cardinality(HandlesOf(handle, x)) \in Nat /\ drops[x] \in Nat /\ drops' = drops
      BY <1>2, CountsNat
    <3> QED  BY <2>2, <3>1 DEF Is
  <2> QED  BY <1>1, <1>2, <2>3, <2>4
<1>3. CASE drops' = [drops EXCEPT ![v] = @ + 1] /\ handle' = handle
  <2>1. drops' \in [All -> Nat] /\ handle' \in [Handles -> All \cup {NoValue}]
    BY <1>1, <1>3
  <2>2. \A x \in Values : drops'[x] = drops[x] + Is(x, v)
    BY <1>1, <1>3 DEF Is, All
  <2> QED  BY <1>3, <2>1, <2>2, CountsNat DEF Is
<1> QED  BY <1>2, <1>3 DEF Publish

\* The references of the slots in S of f are owed.
LEMMA DropEffect ==
    ASSUME JsonInv, NEW f \in Slots, NEW S \in SUBSET DOMAIN f, DropSlots(f, S)
    PROVE  /\ drops' \in [All -> Nat]
           /\ \A x \in All : drops'[x] = drops[x] + CountIn(f, S, x) /\ CountIn(f, S, x) \in Nat
<1>1. IsFiniteSet(S)
  BY SlotsFinite, FS_Subset
<1>2. \A x \in All : CountIn(f, S, x) \in Nat
  BY <1>1, HoldingFinite
<1>3. drops' = [x \in All |-> drops[x] + CountIn(f, S, x)]
  BY DEF DropSlots, CountIn
<1> QED  BY <1>2, <1>3 DEF JsonInv, Vars

\* One container changes.
LEMMA ContentEffect ==
    ASSUME JsonInv, NEW c \in Values, NEW g \in Slots, content' = [content EXCEPT ![c] = g]
    PROVE  /\ content' \in [All -> Slots]
           /\ content'[c] = g /\ \A w \in All : w # c => content'[w] = content[w]
           /\ \A x \in Values :
                 /\ Cardinality(SlotsOf(content', x)) + Count(content[c], x)
                       = Cardinality(SlotsOf(content, x)) + Count(g, x)
                 /\ Cardinality(SlotsOf(content', x)) \in Nat
                 /\ Count(content[c], x) \in Nat /\ Count(g, x) \in Nat
<1>1. content \in Contents /\ c \in All
  BY ContentsOf DEF All
<1>2. content' \in Contents /\ content'[c] = g /\ \A w \in All : w # c => content'[w] = content[w]
  <2>1. content \in [All -> Slots] /\ c \notin Singletons
    BY <1>1, ValuesAssumption DEF Contents
  <2>2. /\ content' \in [All -> Slots] /\ content'[c] = g
        /\ \A w \in All : w # c => content'[w] = content[w]
    BY <1>1, <2>1
  <2>3. \A w \in Singletons : content'[w] = <<>>
    BY <1>1, <2>1, <2>2 DEF Contents, All
  <2> QED  BY <2>2, <2>3 DEF Contents
<1>3. SUFFICES ASSUME NEW ct2, ct2 \in Contents, ct2[c] = g,
                      \A w \in All : w # c => ct2[w] = content[w], NEW x \in Values
               PROVE  /\ Cardinality(SlotsOf(ct2, x)) + Count(content[c], x)
                            = Cardinality(SlotsOf(content, x)) + Count(g, x)
                      /\ Cardinality(SlotsOf(ct2, x)) \in Nat
                      /\ Count(content[c], x) \in Nat /\ Count(g, x) \in Nat
  BY <1>2 DEF Contents
<1> QED  BY <1>1, <1>3, SlotsOfChange

\* The kinds of the other containers and what they hold.
LEMMA ShapesKept ==
    ASSUME JsonInv, NEW c \in All, NEW g \in Slots, KindGrows,
           content' \in [All -> Slots], content'[c] = g,
           \A w \in All : w # c => content'[w] = content[w], Shaped(kind'[c], g)
    PROVE  Shapes'
<1>1. ASSUME NEW w \in All, w # c PROVE Shaped(kind'[w], content'[w])
  <2>1. Shaped(kind[w], content[w]) /\ content'[w] = content[w]
    BY <1>1 DEF JsonInv, Shapes
  <2>2. kind'[w] = kind[w] \/ (kind[w] = "free" /\ kind'[w] = "scalar")
    BY DEF KindGrows
  <2> QED  BY <2>1, <2>2 DEF Shaped
<1> QED  BY <1>1 DEF Shapes

-----------------------------------------------------------------------------
(***************************************************************************)
(* Every step preserves the invariant                                      *)
(***************************************************************************)

\* A native that changes one container: what is counted changes as much as what
\* the slots hold and what is owed.
LEMMA ContainerInv ==
    ASSUME JsonInv, NEW c \in Values, NEW g \in Slots,
           kind' \in [All -> Kinds], refs' \in [Values -> Nat],
           KindGrows, SingletonsScalar', FreeExact', Shaped(kind'[c], g),
           content' = [content EXCEPT ![c] = g], handle' = handle, drops' \in [All -> Nat],
           \A x \in Values : refs'[x] + Count(content[c], x) + drops[x]
                                = refs[x] + Count(g, x) + drops'[x]
    PROVE  JsonInv'
<1>1. /\ content' \in [All -> Slots] /\ content'[c] = g
      /\ \A w \in All : w # c => content'[w] = content[w]
  BY ContentEffect
<1>2. c \in All
  BY DEF All
<1>3. Shapes'
  BY <1>1, <1>2, ShapesKept
<1>4. Vars'
  BY <1>1 DEF JsonInv, Vars
<1>5. ASSUME NEW x \in Values
      PROVE  refs'[x] = Cardinality(HandlesOf(handle', x)) + Cardinality(SlotsOf(content', x))
                           + drops'[x]
  <2>1. /\ Cardinality(SlotsOf(content', x)) + Count(content[c], x)
              = Cardinality(SlotsOf(content, x)) + Count(g, x)
        /\ Cardinality(SlotsOf(content', x)) \in Nat
        /\ Count(content[c], x) \in Nat /\ Count(g, x) \in Nat
    BY ContentEffect
  <2>2. refs[x] = Cardinality(HandlesOf(handle, x)) + Cardinality(SlotsOf(content, x)) + drops[x]
    BY DEF JsonInv, Counted
  <2>3. /\ Cardinality(HandlesOf(handle, x)) \in Nat /\ Cardinality(SlotsOf(content, x)) \in Nat
        /\ drops[x] \in Nat /\ x \in All
    BY CountsNat
  <2>4. drops'[x] \in Nat /\ refs'[x] \in Nat
    BY <2>3
  <2>5. refs'[x] + Count(content[c], x) + drops[x] = refs[x] + Count(g, x) + drops'[x]
    OBVIOUS
  <2>6. HandlesOf(handle', x) = HandlesOf(handle, x)
    OBVIOUS
  <2> HIDE DEF JsonInv
  <2> QED  BY <2>1, <2>2, <2>3, <2>4, <2>5, <2>6
<1> QED  BY <1>3, <1>4, <1>5 DEF JsonInv, Counted

\* The setters and PushArray*.
LEMMA StoreInv ==
    ASSUME JsonInv, NEW c \in Values, NEW v \in All, Stored(v), kind[c] # "free",
           NEW g \in Slots, Shaped(kind[c], g),
           content' = [content EXCEPT ![c] = g], handle' = handle, drops' \in [All -> Nat],
           \A x \in Values : Count(g, x) + drops'[x] = Count(content[c], x) + Is(x, v) + drops[x]
    PROVE  JsonInv'
<1>1. /\ kind' \in [All -> Kinds] /\ refs' \in [Values -> Nat]
      /\ KindGrows /\ SingletonsScalar' /\ FreeExact'
      /\ \A x \in Values : refs'[x] = refs[x] + Is(x, v)
  BY StoredEffect
<1>2. kind'[c] = kind[c]
  BY <1>1 DEF KindGrows, All
<1>3. ASSUME NEW x \in Values
      PROVE  refs'[x] + Count(content[c], x) + drops[x] = refs[x] + Count(g, x) + drops'[x]
  <2>1. Count(content[c], x) \in Nat /\ Count(g, x) \in Nat
    BY ContentEffect
  <2>2. drops[x] \in Nat /\ refs[x] \in Nat /\ x \in All
    BY CountsNat
  <2>3. drops'[x] \in Nat
    BY <2>2
  <2>4. Count(g, x) + drops'[x] = Count(content[c], x) + Is(x, v) + drops[x]
    OBVIOUS
  <2>5. Is(x, v) \in Nat
    BY DEF Is
  <2> QED  BY <1>1, <2>1, <2>2, <2>3, <2>4, <2>5
<1> QED  BY <1>1, <1>2, <1>3, ContainerInv

\* RemoveFrom* and Clear*.
LEMMA RemoveInv ==
    ASSUME JsonInv, NEW c \in Values, NEW g \in Slots, Shaped(kind[c], g),
           UNCHANGED <<kind, refs, handle>>,
           content' = [content EXCEPT ![c] = g], drops' \in [All -> Nat],
           \A x \in Values : Count(g, x) + drops'[x] = Count(content[c], x) + drops[x]
    PROVE  JsonInv'
<1>1. /\ kind' \in [All -> Kinds] /\ refs' \in [Values -> Nat]
      /\ KindGrows /\ SingletonsScalar' /\ FreeExact' /\ kind'[c] = kind[c]
  BY DEF JsonInv, Vars, KindGrows, SingletonsScalar, FreeExact
<1>2. ASSUME NEW x \in Values
      PROVE  refs'[x] + Count(content[c], x) + drops[x] = refs[x] + Count(g, x) + drops'[x]
  <2>1. Count(content[c], x) \in Nat /\ Count(g, x) \in Nat
    BY ContentEffect
  <2>2. drops[x] \in Nat /\ refs[x] \in Nat /\ x \in All
    BY CountsNat
  <2>3. drops'[x] \in Nat
    BY <2>2
  <2>4. Count(g, x) + drops'[x] = Count(content[c], x) + drops[x]
    OBVIOUS
  <2> QED  BY <2>1, <2>2, <2>3, <2>4
<1> QED  BY <1>1, <1>2, ContainerInv

\* The container a native is given.
LEMMA Container ==
    ASSUME JsonInv, NEW h \in Open, kind[handle[h]] \in {"object", "array"}
    PROVE  /\ handle[h] \in Values /\ handle[h] \in All
           /\ content[handle[h]] \in Slots
           /\ kind[handle[h]] = "object" => content[handle[h]] \in ObjectSlots
           /\ kind[handle[h]] = "array" => content[handle[h]] \in Seq(All)
<1>1. handle[h] \in All
  BY DEF Open, JsonInv, Vars
<1>2. handle[h] \in Values
  BY <1>1 DEF JsonInv, SingletonsScalar, All
<1> QED  BY <1>1, <1>2 DEF JsonInv, Shapes, Shaped

\* The slots after a store: of an object, of an array in place, at its end.
LEMMA WithSlots ==
    ASSUME NEW f, NEW k, NEW v \in All
    PROVE  /\ f \in ObjectSlots /\ k \in Keys => With(f, k, v) \in ObjectSlots
           /\ f \in Seq(All) /\ k \in 1..(Len(f) + 1) => With(f, k, v) \in Seq(All)
           /\ f \in Seq(All) /\ k \in DOMAIN f => With(f, k, v) = ReplaceAt(f, k, v)
           /\ f \in Seq(All) /\ k = Len(f) + 1 => With(f, k, v) = Append(f, v)
<1>1. ASSUME f \in ObjectSlots, k \in Keys PROVE With(f, k, v) \in ObjectSlots
  <2>1. PICK S \in SUBSET Keys : f \in [S -> All]
    BY <1>1 DEF ObjectSlots
  <2>2. With(f, k, v) \in [S \cup {k} -> All] /\ S \cup {k} \in SUBSET Keys
    BY <1>1, <2>1 DEF With
  <2> QED  BY <2>2 DEF ObjectSlots
<1>2. ASSUME f \in Seq(All), k \in 1..(Len(f) + 1)
      PROVE  With(f, k, v) \in Seq(All)
  <2> DEFINE n == IF k = Len(f) + 1 THEN k ELSE Len(f)
  <2>1. n \in Nat /\ DOMAIN f \cup {k} = 1..n /\ DOMAIN f = 1..Len(f)
    BY <1>2
  <2>2. With(f, k, v) \in [1..n -> All]
    BY <1>2, <2>1 DEF With
  <2> HIDE DEF n
  <2> QED  BY <2>1, <2>2
<1>3. ASSUME f \in Seq(All), k \in DOMAIN f PROVE With(f, k, v) = ReplaceAt(f, k, v)
  BY <1>3 DEF With, ReplaceAt
<1>4. ASSUME f \in Seq(All), k = Len(f) + 1 PROVE With(f, k, v) = Append(f, v)
  <2>1. Len(f) \in Nat /\ DOMAIN f = 1..Len(f) /\ DOMAIN f \cup {k} = 1..(Len(f) + 1)
    BY <1>4
  <2>2. DOMAIN Append(f, v) = 1..(Len(f) + 1) /\ Append(f, v) \in Seq(All)
    BY <1>4, <2>1
  <2>3. \A j \in 1..(Len(f) + 1) : Append(f, v)[j] = IF j = k THEN v ELSE f[j]
    BY <1>4, <2>1
  <2>4. Append(f, v) = [j \in 1..(Len(f) + 1) |-> Append(f, v)[j]]
    <3> DEFINE a == Append(f, v)
    <3>1. a \in Slots /\ DOMAIN a = 1..(Len(f) + 1)
      BY <2>2 DEF Slots
    <3> HIDE DEF a
    <3>2. a = [j \in 1..(Len(f) + 1) |-> a[j]]
      BY <3>1, SlotsFinite
    <3> QED  BY <3>2 DEF a
  <2> QED  BY <2>1, <2>3, <2>4 DEF With
<1> QED  BY <1>1, <1>2, <1>3, <1>4

LEMMA ObjectSetInv ==
    ASSUME JsonInv, NEW h \in Open, NEW k \in Keys, NEW v \in All, Stored(v), ObjectSet(h, k, v)
    PROVE  JsonInv'
<1> DEFINE c == handle[h]
           f == content[c]
           g == With(f, k, v)
           D == DOMAIN f \cap {k}
<1>1. kind[c] = "object" /\ content' = [content EXCEPT ![c] = g] /\ handle' = handle
  BY DEF ObjectSet
<1>2. c \in Values /\ f \in Slots /\ f \in ObjectSlots
  BY <1>1, Container
<1>3. g \in ObjectSlots
  BY <1>2, WithSlots
<1>4. g \in Slots /\ Shaped(kind[c], g)
  BY <1>1, <1>3 DEF Shaped, Slots
<1>5. DropSlots(f, D) /\ D \in SUBSET DOMAIN f
  BY DEF ObjectSet
<1> HIDE DEF c, f, D
<1>6. /\ drops' \in [All -> Nat]
      /\ \A x \in All : drops'[x] = drops[x] + CountIn(f, D, x) /\ CountIn(f, D, x) \in Nat
  BY <1>2, <1>5, DropEffect
<1>7. ASSUME NEW x \in Values
      PROVE  Count(g, x) + drops'[x] = Count(f, x) + Is(x, v) + drops[x]
  <2>1. Count(g, x) + CountIn(f, D, x) = Count(f, x) + Is(x, v)
    BY <1>2, CountWith DEF D
  <2>2. drops'[x] = drops[x] + CountIn(f, D, x) /\ CountIn(f, D, x) \in Nat
    BY <1>6 DEF All
  <2>3. drops[x] \in Nat
    BY CountsNat
  <2>4. Count(g, x) \in Nat /\ Count(f, x) \in Nat
    BY <1>1, <1>2, <1>4, ContentEffect DEF f
  <2> HIDE DEF g
  <2> QED  BY <2>1, <2>2, <2>3, <2>4 DEF Is
<1> HIDE DEF g
<1> QED  BY <1>1, <1>2, <1>4, <1>6, <1>7, StoreInv DEF f

LEMMA ArraySetInv ==
    ASSUME JsonInv, NEW h \in Open, NEW i, NEW v \in All, Stored(v), ArraySet(h, i, v)
    PROVE  JsonInv'
<1> DEFINE c == handle[h]
           f == content[c]
           g == With(f, i, v)
           D == {i}
<1>1. kind[c] = "array" /\ handle' = handle /\ i \in DOMAIN f
  BY DEF ArraySet
<1>2. c \in Values /\ f \in Slots /\ f \in Seq(All)
  BY <1>1, Container
<1>3. g \in Seq(All) /\ g = ReplaceAt(f, i, v)
  <2>1. i \in 1..(Len(f) + 1)
    BY <1>1, <1>2
  <2> QED  BY <1>1, <1>2, <2>1, WithSlots
<1>4. content' = [content EXCEPT ![c] = g]
  BY <1>3 DEF ArraySet
<1>5. g \in Slots /\ Shaped(kind[c], g)
  BY <1>1, <1>3 DEF Shaped, Slots
<1>6. DropSlots(f, D) /\ D \in SUBSET DOMAIN f
  BY <1>1 DEF ArraySet
<1>7. D = DOMAIN f \cap {i}
  BY <1>1
<1> HIDE DEF c, f, D
<1>8. /\ drops' \in [All -> Nat]
      /\ \A x \in All : drops'[x] = drops[x] + CountIn(f, D, x) /\ CountIn(f, D, x) \in Nat
  BY <1>2, <1>6, DropEffect
<1>9. ASSUME NEW x \in Values
      PROVE  Count(g, x) + drops'[x] = Count(f, x) + Is(x, v) + drops[x]
  <2>1. Count(g, x) + CountIn(f, D, x) = Count(f, x) + Is(x, v)
    BY <1>2, <1>7, CountWith
  <2>2. drops'[x] = drops[x] + CountIn(f, D, x) /\ CountIn(f, D, x) \in Nat
    BY <1>8 DEF All
  <2>3. drops[x] \in Nat
    BY CountsNat
  <2>4. Count(g, x) \in Nat /\ Count(f, x) \in Nat
    BY <1>2, <1>4, <1>5, ContentEffect DEF f
  <2> HIDE DEF g
  <2> QED  BY <2>1, <2>2, <2>3, <2>4 DEF Is
<1> HIDE DEF g
<1> QED  BY <1>1, <1>2, <1>4, <1>5, <1>8, <1>9, StoreInv DEF f

LEMMA ArrayAppendInv ==
    ASSUME JsonInv, NEW h \in Open, NEW v \in All, Stored(v), ArrayAppend(h, v)
    PROVE  JsonInv'
<1> DEFINE c == handle[h]
           f == content[c]
           k == Len(f) + 1
           g == With(f, k, v)
           D == DOMAIN f \cap {k}
<1>1. kind[c] = "array" /\ handle' = handle /\ drops' = drops
  BY DEF ArrayAppend
<1>2. c \in Values /\ f \in Slots /\ f \in Seq(All)
  BY <1>1, Container
<1>3. g \in Seq(All) /\ g = Append(f, v)
  <2>1. k \in 1..(Len(f) + 1)
    BY <1>2
  <2> QED  BY <1>2, <2>1, WithSlots
<1>4. content' = [content EXCEPT ![c] = g]
  BY <1>3 DEF ArrayAppend
<1>5. g \in Slots /\ Shaped(kind[c], g)
  BY <1>1, <1>3 DEF Shaped, Slots
<1>6. D = {}
  BY <1>2
<1>7. drops' \in [All -> Nat]
  BY <1>1 DEF JsonInv, Vars
<1> HIDE DEF c, f, k
<1>8. ASSUME NEW x \in Values
      PROVE  Count(g, x) + drops'[x] = Count(f, x) + Is(x, v) + drops[x]
  <2>1. Count(g, x) + CountIn(f, D, x) = Count(f, x) + Is(x, v)
    BY <1>2, CountWith
  <2>2. Holding(f, D, x) = {}
    BY <1>6 DEF Holding
  <2>3. CountIn(f, D, x) = 0
    BY <2>2, FS_EmptySet DEF CountIn
  <2>4. drops[x] \in Nat
    BY CountsNat
  <2>5. Count(g, x) \in Nat /\ Count(f, x) \in Nat
    BY <1>2, <1>4, <1>5, ContentEffect DEF f
  <2> HIDE DEF g, D
  <2> QED  BY <1>1, <2>1, <2>3, <2>4, <2>5 DEF Is
<1> HIDE DEF g
<1> QED  BY <1>1, <1>2, <1>4, <1>5, <1>7, <1>8, StoreInv DEF f

LEMMA RemoveFromObjectInv ==
    ASSUME JsonInv, NEW h \in Open, NEW k \in Keys, RemoveFromObject(h, k)
    PROVE  JsonInv'
<1> DEFINE c == handle[h]
           f == content[c]
           g == Restrict(f, DOMAIN f \ {k})
           D == {k}
<1>1. /\ kind[c] = "object" /\ content' = [content EXCEPT ![c] = g] /\ k \in DOMAIN f
      /\ UNCHANGED <<kind, refs, handle>>
  BY DEF RemoveFromObject
<1>2. c \in Values /\ f \in Slots /\ f \in ObjectSlots
  BY <1>1, Container
<1>3. g \in ObjectSlots
  <2>1. PICK S \in SUBSET Keys : f \in [S -> All]
    BY <1>2 DEF ObjectSlots
  <2>2. g \in [S \ {k} -> All] /\ S \ {k} \in SUBSET Keys
    BY <2>1 DEF Restrict
  <2> QED  BY <2>2 DEF ObjectSlots
<1>4. g \in Slots /\ Shaped(kind[c], g)
  BY <1>1, <1>3 DEF Shaped, Slots
<1>5. DropSlots(f, D) /\ D \in SUBSET DOMAIN f
  BY <1>1 DEF RemoveFromObject
<1> HIDE DEF c, f, D
<1>6. /\ drops' \in [All -> Nat]
      /\ \A x \in All : drops'[x] = drops[x] + CountIn(f, D, x) /\ CountIn(f, D, x) \in Nat
  BY <1>2, <1>5, DropEffect
<1>7. ASSUME NEW x \in Values
      PROVE  Count(g, x) + drops'[x] = Count(f, x) + drops[x]
  <2>1. Count(g, x) + CountIn(f, D, x) = Count(f, x)
    <3>1. g = Restrict(f, DOMAIN f \ {k}) /\ D = {k}
      BY DEF D
    <3> HIDE DEF g
    <3> QED  BY <1>1, <1>2, <3>1, CountRestrict
  <2>2. drops'[x] = drops[x] + CountIn(f, D, x) /\ CountIn(f, D, x) \in Nat
    BY <1>6 DEF All
  <2>3. drops[x] \in Nat
    BY CountsNat
  <2>4. Count(g, x) \in Nat /\ Count(f, x) \in Nat
    BY <1>1, <1>2, <1>4, ContentEffect DEF f
  <2> HIDE DEF g
  <2> QED  BY <2>1, <2>2, <2>3, <2>4
<1> HIDE DEF g
<1> QED  BY <1>1, <1>2, <1>4, <1>6, <1>7, RemoveInv DEF f

LEMMA RemoveFromArrayInv ==
    ASSUME JsonInv, NEW h \in Open, NEW i, RemoveFromArray(h, i)
    PROVE  JsonInv'
<1> DEFINE c == handle[h]
           f == content[c]
           g == RemoveAt(f, i)
           D == {i}
<1>1. /\ kind[c] = "array" /\ content' = [content EXCEPT ![c] = g] /\ i \in DOMAIN f
      /\ UNCHANGED <<kind, refs, handle>>
  BY DEF RemoveFromArray
<1>2. c \in Values /\ f \in Slots /\ f \in Seq(All)
  BY <1>1, Container
<1>3. DropSlots(f, D) /\ D \in SUBSET DOMAIN f
  BY <1>1 DEF RemoveFromArray
<1> HIDE DEF c, f
<1>4. g \in Seq(All) /\ \A x : Count(g, x) + CountIn(f, D, x) = Count(f, x)
  BY <1>1, <1>2, CountRemoveAt
<1>5. g \in Slots /\ Shaped(kind[c], g)
  BY <1>1, <1>4 DEF Shaped, Slots
<1> HIDE DEF D
<1>6. /\ drops' \in [All -> Nat]
      /\ \A x \in All : drops'[x] = drops[x] + CountIn(f, D, x) /\ CountIn(f, D, x) \in Nat
  BY <1>2, <1>3, DropEffect
<1>7. ASSUME NEW x \in Values
      PROVE  Count(g, x) + drops'[x] = Count(f, x) + drops[x]
  <2>1. drops'[x] = drops[x] + CountIn(f, D, x) /\ CountIn(f, D, x) \in Nat
    BY <1>6 DEF All
  <2>2. drops[x] \in Nat
    BY CountsNat
  <2>3. Count(g, x) \in Nat /\ Count(f, x) \in Nat
    BY <1>1, <1>2, <1>5, ContentEffect DEF f
  <2> HIDE DEF g
  <2> QED  BY <1>4, <2>1, <2>2, <2>3
<1> HIDE DEF g
<1> QED  BY <1>1, <1>2, <1>5, <1>6, <1>7, RemoveInv DEF f

\* A container without slots holds nothing.
LEMMA EmptyCount == ASSUME NEW x PROVE Count(<<>>, x) = 0
<1>1. Holding(<<>>, DOMAIN <<>>, x) = {}
  BY EmptySlots DEF Holding
<1> QED  BY <1>1, FS_EmptySet DEF Count

LEMMA ClearInv ==
    ASSUME JsonInv, NEW h \in Open, NEW k \in {"object", "array"}, Clear(h, k)
    PROVE  JsonInv'
<1> DEFINE c == handle[h]
           f == content[c]
           g == <<>>
           D == DOMAIN f
<1>1. /\ kind[c] = k /\ content' = [content EXCEPT ![c] = g]
      /\ UNCHANGED <<kind, refs, handle>>
  BY DEF Clear
<1>2. c \in Values /\ f \in Slots
  BY <1>1, Container
<1>3. DropSlots(f, D) /\ D \in SUBSET DOMAIN f
  BY DEF Clear
<1>4. g \in Slots /\ Shaped(kind[c], g)
  BY <1>1, EmptySlots DEF Shaped, Slots
<1>5. \A x : Count(g, x) = 0
  BY EmptyCount
<1> HIDE DEF c, f
<1>6. /\ drops' \in [All -> Nat]
      /\ \A x \in All : drops'[x] = drops[x] + CountIn(f, D, x)
  BY <1>2, <1>3, DropEffect
<1> HIDE DEF g
<1>7. ASSUME NEW x \in Values
      PROVE  Count(g, x) + drops'[x] = Count(f, x) + drops[x]
  <2>1. drops'[x] = drops[x] + Count(f, x)
    BY <1>6 DEF All, Count, CountIn
  <2>2. drops[x] \in Nat
    BY CountsNat
  <2>3. Count(g, x) = 0 /\ Count(f, x) \in Nat
    BY <1>1, <1>2, <1>4, <1>5, ContentEffect DEF f
  <2> QED  BY <2>1, <2>2, <2>3
<1> QED  BY <1>1, <1>2, <1>4, <1>6, <1>7, RemoveInv DEF f

\* A native that changes handles or what is owed, and no slot.
LEMMA HandleInv ==
    ASSUME JsonInv, Vars', content' = content, Shapes', SingletonsScalar', FreeExact',
           \A x \in Values :
              refs'[x] + Cardinality(HandlesOf(handle, x)) + drops[x]
                 = refs[x] + Cardinality(HandlesOf(handle', x)) + drops'[x]
    PROVE  JsonInv'
<1>1. ASSUME NEW x \in Values
      PROVE  refs'[x] = Cardinality(HandlesOf(handle', x)) + Cardinality(SlotsOf(content', x))
                           + drops'[x]
  <2>1. refs[x] = Cardinality(HandlesOf(handle, x)) + Cardinality(SlotsOf(content, x)) + drops[x]
    BY DEF JsonInv, Counted
  <2>2. /\ Cardinality(HandlesOf(handle, x)) \in Nat /\ Cardinality(SlotsOf(content, x)) \in Nat
        /\ drops[x] \in Nat /\ x \in All
    BY CountsNat
  <2>3. Cardinality(HandlesOf(handle', x)) \in Nat
    BY HandlesOfFinite
  <2>4. drops'[x] \in Nat /\ refs'[x] \in Nat
    BY <2>2 DEF Vars
  <2>5. refs'[x] + Cardinality(HandlesOf(handle, x)) + drops[x]
           = refs[x] + Cardinality(HandlesOf(handle', x)) + drops'[x]
    OBVIOUS
  <2>6. SlotsOf(content', x) = SlotsOf(content, x)
    OBVIOUS
  <2> QED  BY <2>1, <2>2, <2>3, <2>4, <2>5, <2>6
<1> QED  BY <1>1 DEF JsonInv, Counted

LEMMA CreateInv ==
    ASSUME JsonInv, NEW k \in {"object", "array"}, Create(k)
    PROVE  JsonInv'
<1>1. PICK v \in Free : /\ kind' = [kind EXCEPT ![v] = k] /\ refs' = [refs EXCEPT ![v] = 1]
                        /\ Publish(v) /\ content' = content
  BY DEF Create
<1>2. v \in Values /\ v \in All /\ kind[v] = "free" /\ refs[v] = 0
  BY DEF Free, All, JsonInv, FreeExact
<1>3. /\ handle' \in [Handles -> All \cup {NoValue}] /\ drops' \in [All -> Nat]
      /\ \A x \in Values : Cardinality(HandlesOf(handle', x)) + drops'[x]
                              = Cardinality(HandlesOf(handle, x)) + drops[x] + Is(x, v)
  BY <1>1, <1>2, PublishEffect
<1>4. Vars'
  BY <1>1, <1>2, <1>3 DEF JsonInv, Vars, Kinds
<1>5. SingletonsScalar' /\ FreeExact'
  BY <1>1, <1>2, ValuesAssumption DEF JsonInv, Vars, SingletonsScalar, FreeExact, All
<1>6. content[v] = <<>>
  BY <1>2 DEF JsonInv, Shapes, Shaped
<1>7. Shapes'
  <2>1. ASSUME NEW w \in All PROVE Shaped(kind'[w], content'[w])
    <3>1. CASE w = v
      BY <1>1, <1>2, <1>6, <3>1, EmptySlots DEF JsonInv, Vars, Shaped, Slots
    <3>2. CASE w # v
      BY <1>1, <3>2 DEF JsonInv, Vars, Shapes
    <3> QED  BY <3>1, <3>2
  <2> QED  BY <2>1 DEF Shapes
<1>8. ASSUME NEW x \in Values
      PROVE  refs'[x] + Cardinality(HandlesOf(handle, x)) + drops[x]
                = refs[x] + Cardinality(HandlesOf(handle', x)) + drops'[x]
  <2>1. refs'[x] = refs[x] + Is(x, v)
    BY <1>1, <1>2 DEF JsonInv, Vars, Is
  <2>2. /\ Cardinality(HandlesOf(handle, x)) \in Nat /\ drops[x] \in Nat /\ refs[x] \in Nat
        /\ x \in All
    BY CountsNat
  <2>3. Cardinality(HandlesOf(handle', x)) \in Nat /\ drops'[x] \in Nat
    BY <1>3, <2>2, HandlesOfFinite
  <2> QED  BY <1>3, <2>1, <2>2, <2>3 DEF Is
<1> QED  BY <1>1, <1>4, <1>5, <1>7, <1>8, HandleInv

LEMMA LoadSingletonInv == ASSUME JsonInv, LoadSingleton PROVE JsonInv'
<1>1. PICK v \in Singletons : Publish(v) /\ UNCHANGED <<kind, refs, content>>
  BY DEF LoadSingleton
<1>2. v \in All
  BY DEF All
<1>3. /\ handle' \in [Handles -> All \cup {NoValue}] /\ drops' \in [All -> Nat]
      /\ \A x \in Values : Cardinality(HandlesOf(handle', x)) + drops'[x]
                              = Cardinality(HandlesOf(handle, x)) + drops[x] + Is(x, v)
  BY <1>1, <1>2, PublishEffect
<1>4. Vars' /\ Shapes' /\ SingletonsScalar' /\ FreeExact'
  BY <1>1, <1>3 DEF JsonInv, Vars, Shapes, SingletonsScalar, FreeExact
<1>5. ASSUME NEW x \in Values
      PROVE  refs'[x] + Cardinality(HandlesOf(handle, x)) + drops[x]
                = refs[x] + Cardinality(HandlesOf(handle', x)) + drops'[x]
  <2>1. refs'[x] = refs[x] /\ Is(x, v) = 0
    BY <1>1, ValuesAssumption DEF Is
  <2>2. /\ Cardinality(HandlesOf(handle, x)) \in Nat /\ drops[x] \in Nat /\ refs[x] \in Nat
        /\ x \in All
    BY CountsNat
  <2>3. Cardinality(HandlesOf(handle', x)) \in Nat /\ drops'[x] \in Nat
    BY <1>3, <2>2, HandlesOfFinite
  <2> QED  BY <1>3, <2>1, <2>2, <2>3
<1> QED  BY <1>1, <1>4, <1>5, HandleInv

LEMMA GetValueInv == ASSUME JsonInv, NEW k, GetValue(k) PROVE JsonInv'
<1>1. PICK h \in Open : \E s \in DOMAIN content[handle[h]] :
            /\ Incref(content[handle[h]][s])
            /\ \E g \in Handles \ Open : handle' = [handle EXCEPT ![g] = content[handle[h]][s]]
  BY DEF GetValue
<1>2. PICK s \in DOMAIN content[handle[h]] :
            /\ Incref(content[handle[h]][s])
            /\ \E g \in Handles \ Open : handle' = [handle EXCEPT ![g] = content[handle[h]][s]]
  BY <1>1
<1> DEFINE v == content[handle[h]][s]
<1>3. handle[h] \in All
  BY DEF JsonInv, Vars, Open
<1>4. v \in All
  <2>1. content[handle[h]] \in Slots
    BY <1>3 DEF JsonInv, Vars
  <2> QED  BY <2>1, SlotsFinite
<1>5. v \in Values => refs[v] > 0 /\ kind[v] # "free"
  BY <1>3, SlotCounts
<1>6. UNCHANGED <<kind, content, drops>> /\ Incref(v)
  BY <1>2 DEF GetValue
<1>7. PICK g \in Handles : handle[g] = NoValue /\ handle' = [handle EXCEPT ![g] = v]
  BY <1>2 DEF Open
<1> HIDE DEF v
<1>8. refs' \in [Values -> Nat] /\ \A x \in Values : refs'[x] = refs[x] + Is(x, v)
  BY <1>4, <1>6, ValuesAssumption DEF Incref, Is, JsonInv, Vars, All
<1>9. Vars' /\ Shapes' /\ SingletonsScalar'
  BY <1>4, <1>6, <1>7, <1>8 DEF JsonInv, Vars, Shapes, SingletonsScalar
<1>10. FreeExact'
  BY <1>5, <1>6, <1>8 DEF JsonInv, Vars, FreeExact, Is
<1>11. ASSUME NEW x \in Values
       PROVE  refs'[x] + Cardinality(HandlesOf(handle, x)) + drops[x]
                 = refs[x] + Cardinality(HandlesOf(handle', x)) + drops'[x]
  <2> DEFINE hd2 == [handle EXCEPT ![g] = v]
  <2>1. Cardinality(HandlesOf(hd2, x)) = Cardinality(HandlesOf(handle, x)) + Is(x, v)
    BY <1>4, <1>7, HandleOpens DEF JsonInv, Vars
  <2>2. Cardinality(HandlesOf(handle', x)) = Cardinality(HandlesOf(handle, x)) + Is(x, v)
    BY <1>7, <2>1
  <2>3. /\ Cardinality(HandlesOf(handle, x)) \in Nat /\ drops[x] \in Nat /\ refs[x] \in Nat
    BY CountsNat
  <2> HIDE DEF hd2
  <2> QED  BY <1>6, <1>8, <2>2, <2>3 DEF Is
<1> QED  BY <1>6, <1>9, <1>10, <1>11, HandleInv

LEMMA OnHandleDestroyInv ==
    ASSUME JsonInv, NEW h \in Handles, OnHandleDestroy(h)
    PROVE  JsonInv'
<1> DEFINE v == handle[h]
<1>1. /\ v \in All /\ handle' = [handle EXCEPT ![h] = NoValue]
      /\ drops' = [drops EXCEPT ![v] = @ + 1] /\ UNCHANGED <<kind, refs, content>>
  BY DEF OnHandleDestroy, Open, JsonInv, Vars
<1>2. Vars' /\ Shapes' /\ SingletonsScalar' /\ FreeExact'
  BY <1>1 DEF JsonInv, Vars, Shapes, SingletonsScalar, FreeExact
<1>3. ASSUME NEW x \in Values
      PROVE  refs'[x] + Cardinality(HandlesOf(handle, x)) + drops[x]
                = refs[x] + Cardinality(HandlesOf(handle', x)) + drops'[x]
  <2> DEFINE hd2 == [handle EXCEPT ![h] = NoValue]
  <2>1. Cardinality(HandlesOf(hd2, x)) + Is(x, v) = Cardinality(HandlesOf(handle, x))
    BY HandleCloses DEF JsonInv, Vars
  <2>2. Cardinality(HandlesOf(handle', x)) + Is(x, v) = Cardinality(HandlesOf(handle, x))
    BY <1>1, <2>1
  <2>3. /\ Cardinality(HandlesOf(handle, x)) \in Nat /\ drops[x] \in Nat /\ refs[x] \in Nat
        /\ Cardinality(HandlesOf(handle', x)) \in Nat /\ x \in All
    BY CountsNat, HandlesOfFinite
  <2>4. drops'[x] = drops[x] + Is(x, v)
    BY <1>1, <2>3 DEF JsonInv, Vars, Is
  <2> HIDE DEF hd2, v
  <2> QED  BY <1>1, <2>2, <2>3, <2>4 DEF Is
<1> QED  BY <1>1, <1>2, <1>3, HandleInv

LEMMA DecrefInv == ASSUME JsonInv, NEW v \in All, Decref(v) PROVE JsonInv'
<1>0. drops[v] \in Nat /\ drops[v] > 0 /\ handle' = handle
  BY DEF Decref, JsonInv, Vars
<1>1. CASE /\ v \in Singletons /\ drops' = [drops EXCEPT ![v] = @ - 1]
           /\ UNCHANGED <<kind, refs, content>>
  <2>1. Vars' /\ Shapes' /\ SingletonsScalar' /\ FreeExact'
    BY <1>0, <1>1 DEF JsonInv, Vars, Shapes, SingletonsScalar, FreeExact
  <2>2. \A x \in Values : drops'[x] = drops[x]
    BY <1>1, ValuesAssumption DEF JsonInv, Vars, All
  <2>3. \A x \in Values : refs'[x] + Cardinality(HandlesOf(handle, x)) + drops[x]
                            = refs[x] + Cardinality(HandlesOf(handle', x)) + drops'[x]
    BY <1>0, <1>1, <2>2
  <2> QED  BY <1>1, <2>1, <2>3, HandleInv
<1>2. CASE /\ v \in Values /\ refs[v] > 1 /\ refs' = [refs EXCEPT ![v] = @ - 1]
           /\ drops' = [drops EXCEPT ![v] = @ - 1] /\ UNCHANGED <<kind, content>>
  <2>1. refs' \in [Values -> Nat] /\ \A x \in Values : refs'[x] = refs[x] - Is(x, v)
    BY <1>2 DEF JsonInv, Vars, Is
  <2>2. Vars' /\ Shapes' /\ SingletonsScalar'
    BY <1>0, <1>2, <2>1 DEF JsonInv, Vars, Shapes, SingletonsScalar
  <2>3. FreeExact'
    BY <1>2 DEF JsonInv, Vars, FreeExact
  <2>4. ASSUME NEW x \in Values
        PROVE  refs'[x] + Cardinality(HandlesOf(handle, x)) + drops[x]
                  = refs[x] + Cardinality(HandlesOf(handle', x)) + drops'[x]
    <3>1. Cardinality(HandlesOf(handle, x)) \in Nat /\ drops[x] \in Nat /\ refs[x] \in Nat /\ x \in All
      BY CountsNat
    <3>2. drops'[x] = drops[x] - Is(x, v)
      BY <1>2, <3>1 DEF JsonInv, Vars, Is
    <3> QED  BY <1>0, <2>1, <3>1, <3>2 DEF Is
  <2> QED  BY <1>2, <2>2, <2>3, <2>4, HandleInv
<1>3. CASE /\ v \in Values /\ refs[v] = 1 /\ refs' = [refs EXCEPT ![v] = 0]
           /\ kind' = [kind EXCEPT ![v] = "free"] /\ content' = [content EXCEPT ![v] = <<>>]
           /\ drops' = Released(v)
  <2> DEFINE g == <<>>
             f == content[v]
  <2>1. g \in Slots /\ f \in Slots /\ \A x : Count(g, x) = 0
    BY EmptySlots, EmptyCount DEF Slots, JsonInv, Vars
  <2>2. v \in Values /\ content' = [content EXCEPT ![v] = g]
    BY <1>3
  <2>3. /\ content' \in [All -> Slots] /\ content'[v] = g
        /\ \A w \in All : w # v => content'[w] = content[w]
        /\ \A x \in Values :
              /\ Cardinality(SlotsOf(content', x)) + Count(f, x)
                    = Cardinality(SlotsOf(content, x)) + Count(g, x)
              /\ Cardinality(SlotsOf(content', x)) \in Nat /\ Count(f, x) \in Nat
    BY <2>1, <2>2, ContentEffect
  <2>4. Shapes'
    <3>1. kind' \in [All -> Kinds] /\ kind'[v] = "free" /\ \A w \in All : w # v => kind'[w] = kind[w]
      BY <1>3 DEF JsonInv, Vars, Kinds
    <3>2. Shaped(kind'[v], g)
      BY <2>1, <3>1 DEF Shaped
    <3>3. ASSUME NEW w \in All, w # v PROVE Shaped(kind'[w], content'[w])
      BY <2>3, <3>1, <3>3 DEF JsonInv, Shapes
    <3> QED  BY <2>3, <3>2, <3>3 DEF Shapes
  <2>5. \A w \in All : Count(f, w) \in Nat
    <3>1. IsFiniteSet(DOMAIN f)
      BY <2>1, SlotsFinite
    <3> HIDE DEF f
    <3> QED  BY <3>1, HoldingFinite DEF Count, CountIn
  <2> HIDE DEF g
  <2>6. drops' = [w \in All |-> (IF w = v THEN drops[w] - 1 ELSE drops[w]) + Count(f, w)]
    BY <1>3 DEF Released, Count
  <2> HIDE DEF f
  <2>7. drops' \in [All -> Nat] /\ \A x \in Values : drops'[x] = drops[x] - Is(x, v) + Count(f, x)
    BY <1>0, <2>5, <2>6 DEF JsonInv, Vars, Is, All
  <2>8. refs' \in [Values -> Nat] /\ \A x \in Values : refs'[x] = refs[x] - Is(x, v)
    BY <1>3 DEF JsonInv, Vars, Is
  <2>9. Vars'
    BY <1>0, <1>3, <2>3, <2>7, <2>8 DEF JsonInv, Vars, Kinds
  <2>10. SingletonsScalar' /\ FreeExact'
    BY <1>3, ValuesAssumption DEF JsonInv, Vars, SingletonsScalar, FreeExact, All
  <2>11. ASSUME NEW x \in Values
         PROVE  refs'[x] = Cardinality(HandlesOf(handle', x)) + Cardinality(SlotsOf(content', x))
                              + drops'[x]
    <3>1. refs[x] = Cardinality(HandlesOf(handle, x)) + Cardinality(SlotsOf(content, x)) + drops[x]
      BY DEF JsonInv, Counted
    <3>2. /\ Cardinality(HandlesOf(handle, x)) \in Nat /\ Cardinality(SlotsOf(content, x)) \in Nat
          /\ drops[x] \in Nat
      BY CountsNat
    <3>3. Cardinality(SlotsOf(content', x)) + Count(f, x) = Cardinality(SlotsOf(content, x))
      BY <2>1, <2>3, <3>2
    <3>4. HandlesOf(handle', x) = HandlesOf(handle, x)
      BY <1>0
    <3>5. /\ Cardinality(SlotsOf(content', x)) \in Nat /\ Count(f, x) \in Nat
          /\ drops'[x] = drops[x] - Is(x, v) + Count(f, x) /\ refs'[x] = refs[x] - Is(x, v)
      BY <2>3, <2>7, <2>8
    <3> QED  BY <3>1, <3>2, <3>3, <3>4, <3>5 DEF Is
  <2> QED  BY <2>4, <2>9, <2>10, <2>11 DEF JsonInv, Counted
<1> QED  BY <1>1, <1>2, <1>3 DEF Decref

\* The values of a document that is read are its own: each is in one slot.
LEMMA OwnSlots ==
    ASSUME NEW f \in Slots, NEW x \in Values,
           \A s, t \in DOMAIN f : f[s] = f[t] => s = t \/ f[s] \in Singletons
    PROVE  Count(f, x) = IF x \in Range(f) THEN 1 ELSE 0
<1> DEFINE H == Holding(f, DOMAIN f, x)
<1>1. x \notin Singletons
  BY ValuesAssumption
<1>2. CASE x \in Range(f)
  <2>1. PICK s \in DOMAIN f : f[s] = x
    BY <1>2 DEF Range
  <2>2. H = {s}
    BY <1>1, <2>1 DEF Holding
  <2> HIDE DEF H
  <2>3. Cardinality(H) = 1
    BY <2>2, FS_Singleton
  <2> QED  BY <1>2, <2>3 DEF Count, H
<1>3. CASE x \notin Range(f)
  <2>1. H = {}
    BY <1>3 DEF Range, Holding
  <2> HIDE DEF H
  <2>2. Cardinality(H) = 0
    BY <2>1, FS_EmptySet
  <2> QED  BY <1>3, <2>2 DEF Count, H
<1> QED  BY <1>2, <1>3

LEMMA LoadInv == ASSUME JsonInv, Load PROVE JsonInv'
<1>1. PICK r \in Free, S \in (SUBSET Keys) \cup {1..n : n \in 0..MaxLen} :
            \E f \in [S -> (Free \ {r}) \cup Singletons] :
               /\ \A s, t \in S : f[s] = f[t] => s = t \/ f[s] \in Singletons
               /\ \E k \in {"object", "array", "scalar"} :
                     /\ S # {} => k = IF S \subseteq Keys THEN "object" ELSE "array"
                     /\ kind' = [v \in All |-> IF v = r THEN k
                                               ELSE IF v \in Range(f) THEN "scalar"
                                               ELSE kind[v]]
               /\ refs' = [v \in Values |-> IF v \in Range(f) \cup {r} THEN 1 ELSE refs[v]]
               /\ content' = [content EXCEPT ![r] = f]
               /\ Publish(r)
  BY DEF Load
<1>2. PICK f \in [S -> (Free \ {r}) \cup Singletons] :
            /\ \A s, t \in S : f[s] = f[t] => s = t \/ f[s] \in Singletons
            /\ \E k \in {"object", "array", "scalar"} :
                  /\ S # {} => k = IF S \subseteq Keys THEN "object" ELSE "array"
                  /\ kind' = [v \in All |-> IF v = r THEN k
                                            ELSE IF v \in Range(f) THEN "scalar"
                                            ELSE kind[v]]
            /\ refs' = [v \in Values |-> IF v \in Range(f) \cup {r} THEN 1 ELSE refs[v]]
            /\ content' = [content EXCEPT ![r] = f]
            /\ Publish(r)
  BY <1>1
<1>3. PICK k \in {"object", "array", "scalar"} :
            /\ S # {} => k = IF S \subseteq Keys THEN "object" ELSE "array"
            /\ kind' = [v \in All |-> IF v = r THEN k
                                      ELSE IF v \in Range(f) THEN "scalar"
                                      ELSE kind[v]]
  BY <1>2
<1>4. r \in Values /\ r \in All /\ kind[r] = "free" /\ refs[r] = 0 /\ content[r] = <<>>
  BY DEF Free, All, JsonInv, FreeExact, Shapes, Shaped
<1>5. f \in [S -> All] /\ DOMAIN f = S
  BY DEF Free, All
<1>6. f \in Slots /\ Shaped(k, f)
  <2>1. CASE S = {}
    <3>1. f = <<>>
      BY <1>5, <2>1
    <3> QED  BY <3>1, EmptySlots DEF Shaped, Slots
  <2>2. CASE S # {} /\ S \in SUBSET Keys
    <3>1. f \in ObjectSlots /\ k = "object"
      BY <1>3, <1>5, <2>2 DEF ObjectSlots
    <3> QED  BY <3>1 DEF Shaped, Slots
  <2>3. CASE S # {} /\ \E n \in 0..MaxLen : S = 1..n
    <3>1. PICK n \in 0..MaxLen : S = 1..n
      BY <2>3
    <3>2. n \in Nat /\ 1 \in S /\ 1 \notin Keys
      BY <2>3, <3>1, SlotsAssumption
    <3>3. f \in Seq(All) /\ k = "array"
      BY <1>3, <1>5, <2>3, <3>1, <3>2
    <3> QED  BY <3>3 DEF Shaped, Slots
  <2> QED  BY <2>1, <2>2, <2>3
<1>7. \A x \in Range(f) : x # r /\ (x \in Singletons \/ (x \in Free /\ x \in Values))
  BY <1>4, ValuesAssumption DEF Range, Free
<1>8. /\ content' \in [All -> Slots] /\ content'[r] = f
      /\ \A w \in All : w # r => content'[w] = content[w]
      /\ \A x \in Values :
            /\ Cardinality(SlotsOf(content', x)) + Count(content[r], x)
                  = Cardinality(SlotsOf(content, x)) + Count(f, x)
            /\ Cardinality(SlotsOf(content', x)) \in Nat /\ Count(f, x) \in Nat
  BY <1>2, <1>4, <1>6, ContentEffect
<1>9. /\ handle' \in [Handles -> All \cup {NoValue}] /\ drops' \in [All -> Nat]
      /\ \A x \in Values :
            /\ Cardinality(HandlesOf(handle', x)) + drops'[x]
                  = Cardinality(HandlesOf(handle, x)) + drops[x] + Is(x, r)
            /\ Cardinality(HandlesOf(handle', x)) \in Nat
  BY <1>2, <1>4, PublishEffect
<1>10. /\ kind' \in [All -> Kinds] /\ refs' \in [Values -> Nat]
  BY <1>2, <1>3 DEF JsonInv, Vars, Kinds
<1>11. Vars'
  BY <1>8, <1>9, <1>10 DEF Vars
<1>12. SingletonsScalar'
  BY <1>3, <1>4, ValuesAssumption DEF JsonInv, SingletonsScalar, All
<1>13. FreeExact'
  <2>1. ASSUME NEW x \in Values PROVE kind'[x] = "free" <=> refs'[x] = 0
    <3>1. x \in All /\ (kind[x] = "free" <=> refs[x] = 0)
      BY DEF All, JsonInv, FreeExact
    <3> QED  BY <1>2, <1>3, <3>1
  <2> QED  BY <2>1 DEF FreeExact
<1>14. Shapes'
  <2>1. ASSUME NEW w \in All, w # r PROVE Shaped(kind'[w], content'[w])
    <3>1. Shaped(kind[w], content[w]) /\ content'[w] = content[w]
      BY <1>8, <2>1 DEF JsonInv, Shapes
    <3>2. CASE w \in Range(f)
      <4>1. kind'[w] = "scalar" /\ kind[w] \in {"free", "scalar"}
        BY <1>3, <1>7, <2>1, <3>2 DEF Free, JsonInv, SingletonsScalar
      <4> QED  BY <3>1, <4>1 DEF Shaped
    <3>3. CASE w \notin Range(f)
      <4>1. kind'[w] = kind[w]
        BY <1>3, <2>1, <3>3
      <4> QED  BY <3>1, <4>1
    <3> QED  BY <3>2, <3>3
  <2>2. Shaped(kind'[r], content'[r])
    BY <1>3, <1>4, <1>6, <1>8
  <2> QED  BY <2>1, <2>2 DEF Shapes
<1>15. ASSUME NEW x \in Values
       PROVE  refs'[x] = Cardinality(HandlesOf(handle', x)) + Cardinality(SlotsOf(content', x))
                            + drops'[x]
  <2>1. refs[x] = Cardinality(HandlesOf(handle, x)) + Cardinality(SlotsOf(content, x)) + drops[x]
    BY DEF JsonInv, Counted
  <2>2. /\ Cardinality(HandlesOf(handle, x)) \in Nat /\ Cardinality(SlotsOf(content, x)) \in Nat
        /\ drops[x] \in Nat /\ x \in All
    BY CountsNat
  <2>3. Count(f, x) = IF x \in Range(f) THEN 1 ELSE 0
    BY <1>2, <1>5, <1>6, OwnSlots
  <2>4. Cardinality(SlotsOf(content', x)) = Cardinality(SlotsOf(content, x)) + Count(f, x)
    BY <1>4, <1>8, <2>2, EmptyCount
  <2>5. refs'[x] = refs[x] + Is(x, r) + Count(f, x)
    <3>1. CASE x = r
      BY <1>2, <1>4, <1>7, <2>3, <3>1 DEF Is
    <3>2. CASE x # r /\ x \in Range(f)
      <4>1. refs[x] = 0
        BY <1>7, <3>2, ValuesAssumption DEF Free, JsonInv, FreeExact
      <4> QED  BY <1>2, <2>3, <3>2, <4>1 DEF Is
    <3>3. CASE x # r /\ x \notin Range(f)
      BY <1>2, <2>3, <3>3 DEF Is, JsonInv, Vars
    <3> QED  BY <3>1, <3>2, <3>3
  <2>6. drops'[x] \in Nat
    BY <1>9, <2>2
  <2>7. /\ Cardinality(HandlesOf(handle', x)) + drops'[x]
              = Cardinality(HandlesOf(handle, x)) + drops[x] + Is(x, r)
        /\ Cardinality(HandlesOf(handle', x)) \in Nat /\ Count(f, x) \in Nat
    BY <1>8, <1>9
  <2>8. Is(x, r) \in Nat
    BY DEF Is
  <2>9. refs'[x] = Cardinality(HandlesOf(handle, x)) + drops[x] + Is(x, r)
                      + Cardinality(SlotsOf(content', x))
    BY <2>1, <2>2, <2>4, <2>5, <2>7, <2>8
  <2> QED  BY <1>8, <2>6, <2>7, <2>9
<1> QED  BY <1>11, <1>12, <1>13, <1>14, <1>15 DEF JsonInv, Counted

LEMMA ObjectNativesInv == ASSUME JsonInv, NEW h \in Open, ObjectNatives(h) PROVE JsonInv'
<1>1. CASE \E k \in Keys : RemoveFromObject(h, k)
  BY <1>1, RemoveFromObjectInv
<1>2. CASE ClearObject(h)
  BY <1>2, ClearInv DEF ClearObject
<1>3. CASE \E k \in Keys : \E v \in All : Stored(v) /\ ObjectSet(h, k, v)
  BY <1>3, ObjectSetInv
<1> QED  BY <1>1, <1>2, <1>3
         DEF ObjectNatives, SetObjectValue, SetObjectBoolValue, SetObjectNumberValue,
             SetObjectNullValue, SetObjectStringValue, Stored

LEMMA ArrayNativesInv == ASSUME JsonInv, NEW h \in Open, ArrayNatives(h) PROVE JsonInv'
<1>1. CASE \E i \in 1..MaxLen : RemoveFromArray(h, i)
  BY <1>1, RemoveFromArrayInv
<1>2. CASE ClearArray(h)
  BY <1>2, ClearInv DEF ClearArray
<1>3. CASE \E i \in 1..MaxLen : \E v \in All : Stored(v) /\ ArraySet(h, i, v)
  BY <1>3, ArraySetInv
<1>4. CASE \E v \in All : Stored(v) /\ ArrayAppend(h, v)
  BY <1>4, ArrayAppendInv
<1> QED  BY <1>1, <1>2, <1>3, <1>4
         DEF ArrayNatives, SetArrayValue, SetArrayBoolValue, SetArrayNumberValue,
             SetArrayNullValue, SetArrayStringValue, PushArrayValue, PushArrayBoolValue,
             PushArrayNumberValue, PushArrayNullValue, PushArrayStringValue, Stored

LEMMA Inductive == ASSUME JsonInv, [Next]_jvars PROVE JsonInv'
<1>1. CASE CreateObject \/ CreateArray
  BY <1>1, CreateInv DEF CreateObject, CreateArray
<1>2. CASE FromString \/ FromFile
  BY <1>2, LoadInv, LoadSingletonInv DEF FromString, FromFile
<1>3. CASE GetObjectValue \/ GetArrayValue
  BY <1>3, GetValueInv DEF GetObjectValue, GetArrayValue
<1>4. CASE \E h \in Open : ObjectNatives(h) \/ ArrayNatives(h)
  BY <1>4, ObjectNativesInv, ArrayNativesInv
<1>5. CASE \E h \in Handles : OnHandleDestroy(h)
  BY <1>5, OnHandleDestroyInv
<1>6. CASE \E v \in All : Decref(v)
  BY <1>6, DecrefInv
<1>7. CASE UNCHANGED jvars
  BY <1>7 DEF jvars, JsonInv, Vars, Shapes, SingletonsScalar, FreeExact, Counted
<1> QED  BY <1>1, <1>2, <1>3, <1>4, <1>5, <1>6, <1>7 DEF Next

\* JsonInv holds in every reachable state.
LEMMA Invariance == Spec => []JsonInv
<1>1. Init => JsonInv
  BY Initially
<1>2. JsonInv /\ [Next]_jvars => JsonInv'
  BY Inductive
<1> QED  BY <1>1, <1>2, PTL DEF Spec

-----------------------------------------------------------------------------
(***************************************************************************)
(* Theorems                                                                *)
(***************************************************************************)

\* Every variable has its type: an object keeps keys, an array stays without a
\* gap whatever is set, pushed and removed, and freed memory has no slots.
THEOREM TypeCorrect == Spec => []TypeOK
<1>1. JsonInv => TypeOK
  <2>1. SUFFICES ASSUME JsonInv PROVE TypeOK
    OBVIOUS
  <2>2. ASSUME NEW v \in All
        PROVE  CASE kind[v] = "object" -> IsObject(content[v])
                 [] kind[v] = "array"  -> IsArray(content[v])
                 [] OTHER              -> content[v] = <<>>
    <3> DEFINE f == content[v]
    <3>1. Shaped(kind[v], f)
      BY <2>1 DEF JsonInv, Shapes
    <3>2. CASE kind[v] = "object"
      <4>1. PICK S \in SUBSET Keys : f \in [S -> All]
        BY <3>1, <3>2 DEF Shaped, ObjectSlots
      <4>2. IsObject(f)
        BY <4>1 DEF IsObject
      <4> QED  BY <3>2, <4>2
    <3>3. CASE kind[v] = "array"
      <4>1. /\ Len(f) \in Nat /\ DOMAIN f = 1..Len(f) /\ \A s \in DOMAIN f : f[s] \in All
        BY <3>1, <3>3 DEF Shaped
      <4> HIDE DEF f
      <4>2. Cardinality(1..Len(f)) = Len(f)
        <5>1. Cardinality(1..Len(f)) = IF 1 <= Len(f) THEN Len(f) - 1 + 1 ELSE 0
          BY <4>1, FS_Interval
        <5> QED  BY <4>1, <5>1
      <4>3. IsArray(f)
        BY <4>1, <4>2 DEF IsArray
      <4> QED  BY <3>3, <4>3 DEF f
    <3>4. CASE kind[v] \notin {"object", "array"}
      BY <3>1, <3>4 DEF Shaped
    <3> QED  BY <3>2, <3>3, <3>4
  <2>3. /\ kind \in [All -> {"free", "scalar", "object", "array"}]
        /\ refs \in [Values -> Nat] /\ DOMAIN content = All
        /\ handle \in [Handles -> All \cup {NoValue}] /\ drops \in [All -> Nat]
    BY <2>1 DEF JsonInv, Vars, Kinds
  <2> QED  BY <2>2, <2>3 DEF TypeOK
<1> QED  BY <1>1, Invariance, PTL

\* Every reference is counted exactly once, on every path of every native and
\* in the middle of a cascade of json_decref.
THEOREM RefsExact == Spec => []RefExact
<1>1. JsonInv => RefExact
  BY DEF JsonInv, Counted, RefExact, HandlesTo, HandlesOf, SlotsTo, SlotsOf
<1> QED  BY <1>1, Invariance, PTL

\* No handle, slot or pending json_decref refers to memory that was freed.
THEOREM NeverFreed == Spec => []NoFreedReference
<1>1. ASSUME JsonInv, NEW v \in Free
      PROVE  HandlesTo(v) = {} /\ SlotsTo(v) = {} /\ drops[v] = 0
  <2>1. v \in Values /\ refs[v] = 0
    BY <1>1 DEF Free, JsonInv, FreeExact
  <2>2. \A h \in Handles : handle[h] # v
    BY <1>1, <2>1, HandleCounts
  <2>3. \A w \in All : \A s \in DOMAIN content[w] : content[w][s] # v
    BY <1>1, <2>1, SlotCounts
  <2>4. drops[v] = 0
    BY <1>1, <2>1, CountsNat DEF JsonInv, Counted
  <2> QED  BY <2>2, <2>3, <2>4 DEF HandlesTo, SlotsTo, Holding
<1>2. JsonInv => NoFreedReference
  BY <1>1 DEF NoFreedReference
<1> QED  BY <1>2, Invariance, PTL

\* Closing the last handle frees the whole document: when no native is running,
\* an allocated value that no plugin can get at any more is in a slot of another
\* such value, so all that leaks is what contains itself (json_object_set_new and
\* json_array_set_new refuse only a container that is stored in itself).
THEOREM Leaks == Spec => []OnlyCyclesLeak
<1>1. ASSUME JsonInv, Quiet, NEW v \in Garbage
      PROVE  \E w \in Garbage : v \in Range(content[w])
  <2>1. /\ v \in Values /\ v \in All /\ kind[v] # "free"
        /\ \E S \in SUBSET All : Closed(S) /\ v \notin S
    BY <1>1 DEF Garbage, Free, All
  <2>2. PICK S \in SUBSET All : Closed(S) /\ v \notin S
    BY <2>1
  <2>3. refs[v] # 0 /\ drops[v] = 0
    BY <1>1, <2>1 DEF JsonInv, FreeExact, Quiet
  <2>4. v # NoValue
    BY <2>1, ValuesAssumption
  <2>5. HandlesOf(handle, v) = {}
    BY <2>2, <2>4 DEF Closed, Open, HandlesOf
  <2>6. Cardinality(HandlesOf(handle, v)) = 0
    BY <2>5, FS_EmptySet
  <2>7. SlotsOf(content, v) # {}
    <3>1. refs[v] = Cardinality(HandlesOf(handle, v)) + Cardinality(SlotsOf(content, v)) + drops[v]
      BY <1>1, <2>1 DEF JsonInv, Counted
    <3>2. Cardinality({}) = 0
      BY FS_EmptySet
    <3> QED  BY <2>3, <2>6, <3>1, <3>2
  <2>8. PICK w \in All : \E s \in DOMAIN content[w] : content[w][s] = v
    BY <2>7, SlotsOfElement
  <2>9. w \notin S
    BY <2>2, <2>8 DEF Closed
  <2>10. content[w] # <<>>
    BY <2>8, EmptySlots
  <2>11. kind[w] \in {"object", "array"}
    BY <1>1, <2>10 DEF JsonInv, Shapes, Shaped
  <2>12. w \in Values \ Free
    BY <1>1, <2>11 DEF JsonInv, SingletonsScalar, All, Free
  <2>13. w \in Garbage
    BY <2>2, <2>9, <2>12 DEF Garbage
  <2>14. v \in Range(content[w])
    BY <2>8 DEF Range
  <2> QED  BY <2>13, <2>14
<1>2. JsonInv => OnlyCyclesLeak
  BY <1>1 DEF OnlyCyclesLeak
<1> QED  BY <1>2, Invariance, PTL

-----------------------------------------------------------------------------
(***************************************************************************)
(* A cascade has less to do after every step                               *)
(***************************************************************************)

\* Work, of contents and owed releases that are given.
WorkOf(ct, d) ==
    UNION {{<<"slot", v, s>> : s \in DOMAIN ct[v]}
               \cup {<<"release", v, n>> : n \in 1..d[v]} : v \in All}

LEMMA WorkElement ==
    ASSUME NEW ct, NEW d, NEW x
    PROVE  x \in WorkOf(ct, d)
              <=> \E w \in All : \/ \E s \in DOMAIN ct[w] : x = <<"slot", w, s>>
                                 \/ \E n \in 1..d[w] : x = <<"release", w, n>>
  BY DEF WorkOf

LEMMA WorkFinite ==
    ASSUME NEW ct \in [All -> Slots], NEW d \in [All -> Nat]
    PROVE  IsFiniteSet(WorkOf(ct, d))
<1> DEFINE A(v) == {<<"slot", v, s>> : s \in DOMAIN ct[v]}
           B(v) == {<<"release", v, n>> : n \in 1..d[v]}
           F == [v \in All |-> A(v) \cup B(v)]
           R == {F[v] : v \in All}
<1>1. ASSUME NEW v \in All PROVE IsFiniteSet(A(v) \cup B(v))
  <2>1. ct[v] \in Slots /\ d[v] \in Nat
    OBVIOUS
  <2>2. IsFiniteSet(DOMAIN ct[v]) /\ IsFiniteSet(1..d[v])
    BY <2>1, SlotsFinite, FS_Interval
  <2> DEFINE f == [s \in DOMAIN ct[v] |-> <<"slot", v, s>>]
             g == [n \in 1..d[v] |-> <<"release", v, n>>]
  <2>3. f \in Surjection(DOMAIN ct[v], A(v)) /\ g \in Surjection(1..d[v], B(v))
    BY DEF Surjection
  <2>4. IsFiniteSet(A(v)) /\ IsFiniteSet(B(v))
    BY <2>2, <2>3, FS_Surjection
  <2> HIDE DEF A, B
  <2> QED  BY <2>4, FS_Union
<1>2. IsFiniteSet(All)
  BY ValuesAssumption, FS_Union DEF All
<1>3. WorkOf(ct, d) = UNION R
  BY DEF WorkOf
<1> HIDE DEF A, B
<1>4. F \in Surjection(All, R)
  BY DEF Surjection
<1>5. IsFiniteSet(R)
  BY <1>2, <1>4, FS_Surjection
<1>6. \A T \in R : IsFiniteSet(T)
  BY <1>1
<1> HIDE DEF R
<1>7. IsFiniteSet(UNION R)
  BY <1>5, <1>6, FS_UNION
<1> QED  BY <1>3, <1>7

\* A set whose elements can be told apart by elements of T other than x is
\* smaller than T.
LEMMA Smaller ==
    ASSUME NEW S, NEW T, IsFiniteSet(T), NEW x \in T, NEW f \in Injection(S, T \ {x})
    PROVE  Cardinality(S) < Cardinality(T)
<1>1. IsFiniteSet(T \ {x}) /\ Cardinality(T \ {x}) = Cardinality(T) - 1
  BY FS_RemoveElement
<1>2. IsFiniteSet(S) /\ Cardinality(S) <= Cardinality(T \ {x})
  BY <1>1, FS_Injection
<1>3. Cardinality(S) \in Nat /\ Cardinality(T) \in Nat
  BY <1>2, FS_CardinalityType
<1> QED  BY <1>1, <1>2, <1>3

\* One release fewer, and the slots of v become releases of what they hold: the
\* n-th new release of w stands for the n-th slot that held it.
LEMMA WorkShrinks ==
    ASSUME NEW ct \in [All -> Slots], NEW d \in [All -> Nat], NEW v \in All, d[v] > 0,
           NEW ct2 \in [All -> Slots], NEW d2 \in [All -> Nat],
           \A w \in All : w # v => ct2[w] = ct[w],
           \/ ct2[v] = ct[v] /\ \A w \in All : d2[w] = d[w] - Is(w, v)
           \/ ct2[v] = <<>> /\ \A w \in All : d2[w] = d[w] - Is(w, v) + Count(ct[v], w)
    PROVE  Cardinality(WorkOf(ct2, d2)) < Cardinality(WorkOf(ct, d))
<1> DEFINE W == WorkOf(ct, d)
           W2 == WorkOf(ct2, d2)
           x == <<"release", v, d[v]>>
           rest(w) == d[w] - Is(w, v)
<1>1. IsFiniteSet(W)
  BY WorkFinite
<1>2. d[v] \in Nat /\ \A w \in All : d[w] \in Nat /\ rest(w) \in Nat /\ rest(w) <= d[w]
  BY DEF Is
<1>3. x \in W
  <2>1. d[v] \in 1..d[v]
    BY <1>2
  <2> QED  BY <2>1, WorkElement
<1>4. ASSUME NEW w \in All, NEW n \in 1..rest(w)
      PROVE  <<"release", w, n>> \in W \ {x}
  <2>1. n \in 1..d[w] /\ (w = v => n # d[v])
    BY <1>2 DEF Is
  <2>2. <<"release", w, n>> \in W
    BY <2>1, WorkElement
  <2> QED  BY <2>1, <2>2
<1>5. ASSUME NEW w \in All, NEW s \in DOMAIN ct[w]
      PROVE  <<"slot", w, s>> \in W \ {x}
  <2>1. <<"slot", w, s>> \in W
    BY WorkElement
  <2> QED  BY <2>1
<1>6. CASE ct2[v] = ct[v] /\ \A w \in All : d2[w] = rest(w)
  <2>1. W2 \subseteq W \ {x}
    <3> SUFFICES ASSUME NEW y \in W2 PROVE y \in W \ {x}
      OBVIOUS
    <3>1. PICK w \in All : \/ \E s \in DOMAIN ct2[w] : y = <<"slot", w, s>>
                           \/ \E n \in 1..d2[w] : y = <<"release", w, n>>
      BY WorkElement
    <3>2. ct2[w] = ct[w] /\ d2[w] = rest(w)
      BY <1>6
    <3> HIDE DEF x, W, rest
    <3> QED  BY <1>4, <1>5, <3>1, <3>2
  <2> DEFINE f == [y \in W2 |-> y]
  <2>2. f \in Injection(W2, W \ {x})
    <3> HIDE DEF W, W2, x
    <3>1. f \in [W2 -> W \ {x}] /\ \A a, b \in W2 : f[a] = f[b] => a = b
      BY <2>1
    <3> HIDE DEF f
    <3> QED  BY <3>1, Fun_IsInj
  <2> HIDE DEF W, W2, x, f
  <2>3. Cardinality(W2) < Cardinality(W)
    BY <1>1, <1>3, <2>2, Smaller
  <2> QED  BY <2>3 DEF W, W2
<1>7. CASE ct2[v] = <<>> /\ \A w \in All : d2[w] = rest(w) + Count(ct[v], w)
  <2> DEFINE held(w) == Holding(ct[v], DOMAIN ct[v], w)
             c(w) == Count(ct[v], w)
             slot == [w \in All |-> CHOOSE g \in [1..c(w) -> held(w)] :
                                       \A m, n \in 1..c(w) : g[m] = g[n] => m = n]
             to(w, n) == IF n <= rest(w) THEN <<"release", w, n>>
                         ELSE <<"slot", v, slot[w][n - rest(w)]>>
             kept(y) == \E w \in All : w # v /\ \E s \in DOMAIN ct[w] : y = <<"slot", w, s>>
             owed(y) == \E w \in All : \E n \in 1..d2[w] : y = <<"release", w, n>>
             f == [y \in W2 |-> IF y[1] = "slot" THEN y ELSE to(y[2], y[3])]
  <2>1. ASSUME NEW w \in All
        PROVE  /\ c(w) \in Nat
               /\ slot[w] \in [1..c(w) -> held(w)]
               /\ \A m, n \in 1..c(w) : slot[w][m] = slot[w][n] => m = n
    <3>1. IsFiniteSet(DOMAIN ct[v])
      BY SlotsFinite
    <3>2. IsFiniteSet(held(w))
      BY <3>1, HoldingFinite
    <3>3. c(w) = Cardinality(held(w))
      BY DEF Count
    <3> HIDE DEF held, c
    <3>4. c(w) \in Nat /\ ExistsBijection(1..c(w), held(w))
      BY <3>2, <3>3, FS_CardinalityType
    <3>5. \E g \in [1..c(w) -> held(w)] : \A m, n \in 1..c(w) : g[m] = g[n] => m = n
      BY <3>4, Fun_BijectionProperties DEF ExistsBijection
    <3> QED  BY <3>4, <3>5
  <2>2. \A w \in All : \A s \in held(w) : s \in DOMAIN ct[v] /\ ct[v][s] = w
    BY DEF Holding
  <2> HIDE DEF held, c, slot, rest
  <2>3. ASSUME NEW w \in All, NEW n \in 1..d2[w], ~(n <= rest(w))
        PROVE  n - rest(w) \in 1..c(w) /\ slot[w][n - rest(w)] \in held(w)
    <3>1. d2[w] = rest(w) + c(w)
      BY <1>7 DEF c
    <3>2. n - rest(w) \in 1..c(w)
      BY <1>2, <2>1, <2>3, <3>1
    <3> QED  BY <2>1, <3>2
  <2>4. ASSUME NEW y \in W2
        PROVE  kept(y) \/ owed(y)
    <3>1. PICK w \in All : \/ \E s \in DOMAIN ct2[w] : y = <<"slot", w, s>>
                           \/ \E n \in 1..d2[w] : y = <<"release", w, n>>
      BY WorkElement
    <3>2. w = v => DOMAIN ct2[w] = {}
      BY <1>7, EmptySlots
    <3>3. w # v => ct2[w] = ct[w]
      OBVIOUS
    <3> QED  BY <3>1, <3>2, <3>3
  <2> HIDE DEF W, W2
  <2>5. ASSUME NEW w \in All, NEW s \in DOMAIN ct[w], w # v, <<"slot", w, s>> \in W2
        PROVE  f[<<"slot", w, s>>] = <<"slot", w, s>>
    BY <2>5
  <2>6. ASSUME NEW w \in All, NEW n \in 1..d2[w], <<"release", w, n>> \in W2
        PROVE  f[<<"release", w, n>>] = to(w, n)
    BY <2>6
  <2>7. ASSUME NEW w \in All, NEW n \in 1..d2[w] PROVE to(w, n) \in W \ {x}
    <3>1. CASE n <= rest(w)
      <4>1. n \in 1..rest(w)
        BY <1>2, <2>1, <3>1
      <4> HIDE DEF x
      <4> QED  BY <1>4, <3>1, <4>1
    <3>2. CASE ~(n <= rest(w))
      <4>1. slot[w][n - rest(w)] \in DOMAIN ct[v]
        BY <2>2, <2>3, <3>2
      <4> HIDE DEF x
      <4> QED  BY <1>5, <3>2, <4>1
    <3> QED  BY <3>1, <3>2
  <2> HIDE DEF f, to, x
  <2>8. ASSUME NEW y \in W2 PROVE f[y] \in W \ {x}
    BY <1>5, <2>4, <2>5, <2>6, <2>7
  <2>9. ASSUME NEW w \in All, NEW n \in 1..d2[w], NEW u \in All, NEW m \in 1..d2[u],
               to(w, n) = to(u, m)
        PROVE  w = u /\ n = m
    <3>1. CASE n <= rest(w) \/ m <= rest(u)
      <4>1. n <= rest(w) /\ m <= rest(u)
        BY <2>9, <3>1 DEF to
      <4> QED  BY <2>9, <4>1 DEF to
    <3>2. CASE ~(n <= rest(w)) /\ ~(m <= rest(u))
      <4>1. slot[w][n - rest(w)] = slot[u][m - rest(u)]
        BY <2>9, <3>2 DEF to
      <4>2. w = u
        BY <2>2, <2>3, <3>2, <4>1
      <4>3. n - rest(w) = m - rest(w)
        BY <2>1, <2>3, <3>2, <4>1, <4>2
      <4>4. n \in Nat /\ m \in Nat /\ rest(w) \in Nat
        BY <1>2, <4>2
      <4> QED  BY <4>2, <4>3, <4>4
    <3> QED  BY <3>1, <3>2
  <2>10. ASSUME NEW w \in All, NEW n \in 1..d2[w], NEW u \in All, u # v, NEW s
         PROVE  to(w, n) # <<"slot", u, s>>
    BY <2>10 DEF to
  <2>11. ASSUME NEW y \in W2, NEW z \in W2, f[y] = f[z] PROVE y = z
    <3>1. CASE kept(y) /\ kept(z)
      BY <2>5, <2>11, <3>1
    <3>2. ASSUME NEW a \in W2, NEW b \in W2, kept(a), owed(b) PROVE f[a] # f[b]
      <4>1. PICK u \in All : u # v /\ \E s \in DOMAIN ct[u] : a = <<"slot", u, s>>
        BY <3>2
      <4>2. PICK s \in DOMAIN ct[u] : a = <<"slot", u, s>>
        BY <4>1
      <4>3. PICK w \in All : \E n \in 1..d2[w] : b = <<"release", w, n>>
        BY <3>2
      <4>4. PICK n \in 1..d2[w] : b = <<"release", w, n>>
        BY <4>3
      <4>5. f[a] = <<"slot", u, s>> /\ f[b] = to(w, n)
        BY <2>5, <2>6, <4>1, <4>2, <4>4
      <4>6. to(w, n) # <<"slot", u, s>>
        BY <2>10, <4>1
      <4> QED  BY <4>5, <4>6
    <3>3. CASE ~(kept(y) <=> kept(z))
      BY <2>4, <2>11, <3>2, <3>3
    <3>4. CASE owed(y) /\ owed(z)
      BY <2>6, <2>9, <2>11, <3>4
    <3> QED  BY <2>4, <3>1, <3>2, <3>3, <3>4
  <2>12. f \in Injection(W2, W \ {x})
    <3>1. f \in [W2 -> W \ {x}]
      BY <2>8 DEF f
    <3> QED  BY <2>11, <3>1, Fun_IsInj
  <2>13. Cardinality(W2) < Cardinality(W)
    BY <1>1, <1>3, <2>12, Smaller
  <2> QED  BY <2>13 DEF W, W2
<1> QED  BY <1>6, <1>7

\* Every native that starts, starts when no cascade is under way.
LEMMA BusyStep ==
    ASSUME Next, ~Quiet
    PROVE  \E v \in All : Decref(v)
<1>1. ~(CreateObject \/ CreateArray \/ FromString \/ FromFile \/ GetObjectValue \/ GetArrayValue)
  BY DEF CreateObject, CreateArray, Create, FromString, FromFile, Load, LoadSingleton,
         GetObjectValue, GetArrayValue, GetValue
<1>2. ASSUME NEW h PROVE ~ObjectNatives(h)
  BY DEF ObjectNatives, SetObjectValue, SetObjectBoolValue, SetObjectNumberValue,
         SetObjectNullValue, SetObjectStringValue, ObjectSet, RemoveFromObject, ClearObject, Clear
<1>3. ASSUME NEW h PROVE ~ArrayNatives(h)
  BY DEF ArrayNatives, SetArrayValue, SetArrayBoolValue, SetArrayNumberValue,
         SetArrayNullValue, SetArrayStringValue, ArraySet, RemoveFromArray, ClearArray, Clear,
         PushArrayValue, PushArrayBoolValue, PushArrayNumberValue, PushArrayNullValue,
         PushArrayStringValue, ArrayAppend
<1>4. ASSUME NEW h PROVE ~OnHandleDestroy(h)
  BY DEF OnHandleDestroy
<1> QED  BY <1>1, <1>2, <1>3, <1>4 DEF Next

\* While a native runs, every step leaves less to release: json_decref and
\* json_delete end, also when values contain each other.
THEOREM CascadesShrink == Spec => CascadeShrinks
<1>1. ASSUME JsonInv, JsonInv', NEW v \in All, Decref(v)
      PROVE  Cardinality(Work') < Cardinality(Work)
  <2>1. /\ content \in [All -> Slots] /\ drops \in [All -> Nat]
        /\ content' \in [All -> Slots] /\ drops' \in [All -> Nat] /\ drops[v] > 0
    BY <1>1 DEF JsonInv, Vars, Decref
  <2>2. CASE content' = content /\ drops' = [drops EXCEPT ![v] = @ - 1]
    <3>1. \A w \in All : drops'[w] = drops[w] - Is(w, v)
      BY <2>1, <2>2 DEF Is
    <3>2. Cardinality(WorkOf(content', drops')) < Cardinality(WorkOf(content, drops))
      BY <2>1, <2>2, <3>1, WorkShrinks
    <3> QED  BY <3>2 DEF Work, WorkOf
  <2>3. CASE content' = [content EXCEPT ![v] = <<>>] /\ drops' = Released(v)
    <3>1. \A w \in All : w # v => content'[w] = content[w]
      BY <2>1, <2>3
    <3>2. content'[v] = <<>>
      BY <2>1, <2>3
    <3>3. \A w \in All : drops'[w] = drops[w] - Is(w, v) + Count(content[v], w)
      <4> SUFFICES ASSUME NEW w \in All
                   PROVE  drops'[w] = drops[w] - Is(w, v) + Count(content[v], w)
        OBVIOUS
      <4>1. drops'[w] = (IF w = v THEN drops[w] - 1 ELSE drops[w]) + Count(content[v], w)
        BY <2>3 DEF Released, Count
      <4>2. drops[w] - Is(w, v) = IF w = v THEN drops[w] - 1 ELSE drops[w]
        BY <2>1 DEF Is
      <4> QED  BY <4>1, <4>2
    <3>4. Cardinality(WorkOf(content', drops')) < Cardinality(WorkOf(content, drops))
      BY <2>1, <3>1, <3>2, <3>3, WorkShrinks
    <3> QED  BY <3>4 DEF Work, WorkOf
  <2> QED  BY <1>1, <2>2, <2>3 DEF Decref
<1>2. JsonInv /\ [Next]_jvars => [~Quiet => Cardinality(Work') < Cardinality(Work)]_jvars
  BY <1>1, BusyStep, Inductive
<1> QED  BY <1>2, Invariance, PTL DEF Spec, CascadeShrinks
=============================================================================
