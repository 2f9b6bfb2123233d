-------------------------- MODULE SseParserProofs --------------------------
(***************************************************************************)
(* However the body is cut into chunks, the parser decodes what the body   *)
(* says: for any bodies, limits and cuts.                                  *)
(***************************************************************************)
EXTENDS SseParser, SequenceTheorems, FiniteSetTheorems, WellFoundedInduction, TLAPS

(* A set of numbers that is not empty has a least one.                     *)
LEMMA LeastElement ==
  ASSUME NEW S \in SUBSET Nat, S # {}
  PROVE  \E x \in S : \A y \in S : x <= y
<1>. DEFINE Less == {p \in Nat \X Nat : p[1] < p[2]}
<1>1. IsWellFoundedOn(Less, Nat)
  BY NatLessThanWellFounded, Zenon DEF OpToRel
<1>2. PICK x \in S : \A y \in S : ~ (<<y, x>> \in Less)
  BY <1>1, WFMin
<1>3. \A y \in S : x \in Nat /\ y \in Nat /\ (y < x => <<y, x>> \in Less)
  OBVIOUS
<1>. HIDE DEF Less
<1>4. \A y \in S : ~ (y < x)
  BY <1>2, <1>3
<1>. QED  BY <1>3, <1>4

(* Zero is in S and S is closed under the successor: S holds all numbers.  *)
LEMMA SetInduction ==
  ASSUME NEW S, 0 \in S, \A n \in Nat : n \in S => n + 1 \in S
  PROVE  \A n \in Nat : n \in S
<1>. SUFFICES ASSUME Nat \ S # {} PROVE FALSE
  OBVIOUS
<1>1. PICK x \in Nat \ S : \A y \in Nat \ S : x <= y
  BY LeastElement
<1>2. x - 1 \in Nat /\ x - 1 \in S /\ (x - 1) + 1 = x
  BY <1>1
<1>. QED  BY <1>1, <1>2

---------------------------------------------------------------------------
(* Counting: how many members of A are at most p, and which is the i-th. *)

Upto(A, p) == {j \in A : j <= p}

Count(A, p) == Cardinality(Upto(A, p))

Nth(A, i) == CHOOSE a \in A : Count(A, a) = i

LEMMA CountFinite ==
  ASSUME NEW A \in SUBSET (Nat \ {0}), NEW p \in Nat
  PROVE  IsFiniteSet(Upto(A, p)) /\ Count(A, p) \in Nat
<1>1. Upto(A, p) \in SUBSET Nat /\ \A j \in Upto(A, p) : j <= p
  BY DEF Upto
<1>2. IsFiniteSet(Upto(A, p))
  BY <1>1, FS_BoundedSetOfNaturals
<1>. QED  BY <1>2, FS_CardinalityType DEF Count

LEMMA CountZero == ASSUME NEW A \in SUBSET (Nat \ {0}) PROVE Count(A, 0) = 0
<1>1. \A j \in A : j \in Nat /\ j # 0
  OBVIOUS
<1>2. Upto(A, 0) = {}
  <2>1. \A j \in A : ~(j <= 0)
    BY <1>1
  <2>. QED  BY <2>1 DEF Upto
<1>. QED  BY <1>2, FS_EmptySet DEF Count

LEMMA CountNext ==
  ASSUME NEW A \in SUBSET (Nat \ {0}), NEW p \in Nat
  PROVE  Count(A, p + 1) = IF p + 1 \in A THEN Count(A, p) + 1 ELSE Count(A, p)
<1>1. Upto(A, p + 1) = IF p + 1 \in A THEN Upto(A, p) \cup {p + 1} ELSE Upto(A, p)
  <2>1. \A j \in A : j \in Nat
    OBVIOUS
  <2>2. \A j \in A : j <= p + 1 <=> j <= p \/ j = p + 1
    BY <2>1
  <2>. QED  BY <2>2 DEF Upto
<1>2. p + 1 \notin Upto(A, p)
  BY DEF Upto
<1>3. Cardinality(Upto(A, p) \cup {p + 1}) = Cardinality(Upto(A, p)) + 1
  BY <1>2, CountFinite, FS_AddElement
<1>. QED  BY <1>1, <1>3 DEF Count

LEMMA CountGrows ==
  ASSUME NEW A \in SUBSET (Nat \ {0}), NEW p \in Nat, NEW q \in Nat, p <= q
  PROVE  Count(A, p) <= Count(A, q)
<1>1. Upto(A, p) \in SUBSET Upto(A, q)
  <2>1. \A j \in A : j <= p => j <= q
    OBVIOUS
  <2>. QED  BY <2>1 DEF Upto
<1>2. Cardinality(Upto(A, p)) <= Cardinality(Upto(A, q))
  BY <1>1, CountFinite, FS_Subset
<1>. QED  BY <1>2 DEF Count

LEMMA CountSame ==
  ASSUME NEW A \in SUBSET (Nat \ {0}), NEW p \in Nat, NEW q \in Nat, p <= q,
         \A j \in A : ~(p < j /\ j <= q)
  PROVE  Count(A, q) = Count(A, p)
<1>1. Upto(A, p) = Upto(A, q)
  <2>1. \A j \in A : j <= p <=> j <= q
    OBVIOUS
  <2>. QED  BY <2>1 DEF Upto
<1>. QED  BY <1>1 DEF Count

(* A member counts. *)
LEMMA CountMember ==
  ASSUME NEW A \in SUBSET (Nat \ {0}), NEW p \in Nat, NEW a \in A, p < a
  PROVE  Count(A, p) < Count(A, a) /\ Count(A, a) = Count(A, a - 1) + 1
<1>1. a \in Nat /\ a - 1 \in Nat /\ (a - 1) + 1 = a /\ p <= a - 1
  OBVIOUS
<1>2. Count(A, a) = Count(A, a - 1) + 1
  BY <1>1, CountNext
<1>3. Count(A, p) <= Count(A, a - 1)
  BY <1>1, CountGrows
<1>4. Count(A, p) \in Nat /\ Count(A, a - 1) \in Nat
  BY <1>1, CountFinite
<1>. QED  BY <1>2, <1>3, <1>4

LEMMA NthOfMember ==
  ASSUME NEW A \in SUBSET (Nat \ {0}), NEW a \in A
  PROVE  Nth(A, Count(A, a)) = a /\ \A e \in A : Count(A, e) = Count(A, a) => e = a
<1>1. ASSUME NEW e \in A, Count(A, e) = Count(A, a), e # a
      PROVE  FALSE
  <2>1. a \in Nat /\ e \in Nat /\ Count(A, a) \in Nat /\ Count(A, e) \in Nat
    BY CountFinite
  <2>2. CASE e < a
    BY <1>1, <2>1, <2>2, CountMember
  <2>3. CASE a < e
    BY <1>1, <2>1, <2>3, CountMember
  <2>. QED  BY <1>1, <2>1, <2>2, <2>3
<1>2. \E e \in A : Count(A, e) = Count(A, a)
  OBVIOUS
<1>3. Nth(A, Count(A, a)) \in A /\ Count(A, Nth(A, Count(A, a))) = Count(A, a)
  BY <1>2 DEF Nth
<1>. QED  BY <1>1, <1>3

LEMMA NthFacts ==
  ASSUME NEW A \in SUBSET (Nat \ {0}), NEW p \in Nat, NEW i \in 1 .. Count(A, p)
  PROVE  Nth(A, i) \in A /\ Nth(A, i) <= p /\ Count(A, Nth(A, i)) = i
<1>. DEFINE D == {q \in Nat : \A j \in 1 .. Count(A, q) : \E a \in A : a <= q /\ Count(A, a) = j}
<1>1. 0 \in D
  BY CountZero
<1>2. ASSUME NEW q \in Nat, q \in D
      PROVE  q + 1 \in D
  <2>. SUFFICES ASSUME NEW j \in 1 .. Count(A, q + 1)
                PROVE  \E a \in A : a <= q + 1 /\ Count(A, a) = j
    OBVIOUS
  <2>1. Count(A, q) \in Nat
    BY CountFinite
  <2>2. Count(A, q + 1) = IF q + 1 \in A THEN Count(A, q) + 1 ELSE Count(A, q)
    BY CountNext
  <2>3. CASE j \in 1 .. Count(A, q)
    <3>1. PICK a \in A : a <= q /\ Count(A, a) = j
      BY <1>2, <2>3
    <3>. QED  BY <3>1
  <2>4. CASE j \notin 1 .. Count(A, q)
    <3>1. q + 1 \in A /\ j = Count(A, q) + 1
      BY <2>1, <2>2, <2>4
    <3>. QED  BY <2>2, <3>1
  <2>. QED  BY <2>3, <2>4
<1>. HIDE DEF D
<1>3. p \in D
  BY <1>1, <1>2, SetInduction
<1>4. PICK a \in A : a <= p /\ Count(A, a) = i
  BY <1>3 DEF D
<1>5. Nth(A, i) = a
  BY <1>4, NthOfMember
<1>. QED  BY <1>4, <1>5

(* The i-th, counted in A alone.                                           *)
NthOf(A, i) == CHOOSE a \in A : Cardinality({j \in A : j <= a}) = i

(* The i-th of those up to p is the i-th of all.                           *)
LEMMA NthOfPart ==
  ASSUME NEW A \in SUBSET (Nat \ {0}), NEW p \in Nat, NEW i \in 1 .. Count(A, p),
         NEW B, B = Upto(A, p)
  PROVE  NthOf(B, i) = Nth(A, i)
<1>1. Nth(A, i) \in A /\ Nth(A, i) <= p /\ Count(A, Nth(A, i)) = i
  BY NthFacts
<1>2. ASSUME NEW e \in B
      PROVE  {j \in B : j <= e} = Upto(A, e)
  <2>1. e \in A /\ e <= p
    BY DEF Upto
  <2>2. \A j \in A : j <= e => j <= p
    BY <2>1
  <2>. QED  BY <2>2 DEF Upto
<1>3. \A e \in B : Cardinality({j \in B : j <= e}) = Count(A, e) /\ e \in A
  BY <1>2 DEF Count, Upto
<1>4. Nth(A, i) \in B
  BY <1>1 DEF Upto
<1>5. \E e \in B : Cardinality({j \in B : j <= e}) = i
  BY <1>1, <1>3, <1>4
<1>. DEFINE c == CHOOSE e \in B : Cardinality({j \in B : j <= e}) = i
<1>6. c \in B /\ Cardinality({j \in B : j <= c}) = i
  BY <1>5
<1>. HIDE DEF c
<1>7. c \in A /\ Count(A, c) = i
  BY <1>3, <1>6
<1>8. c = Nth(A, i)
  BY <1>1, <1>7, NthOfMember
<1>. QED  BY <1>8 DEF c, NthOf
---------------------------------------------------------------------------
(* What a sequence of lines leaves behind, line by line. *)

Contribution(ls, j) ==
  IF IsField(ls[j], <<"data">>) THEN Value(ls[j]) \o <<"LF">> ELSE <<>>

(* The recursion of DataOf: f collects the lines i .. k.                   *)
Collects(f, ls, i, k) ==
  f = [j \in i - 1 .. k |-> IF j = i - 1 THEN <<>> ELSE f[j - 1] \o Contribution(ls, j)]

LEMMA DataOfCollects ==
  ASSUME NEW ls, NEW i, NEW k
  PROVE  DataOf(ls, i, k) = (CHOOSE f : Collects(f, ls, i, k))[k]
BY Zenon DEF DataOf, Collects, Contribution

LEMMA CollectorExists ==
  ASSUME NEW ls, NEW i \in Nat \ {0}, NEW k \in Nat, i - 1 <= k
  PROVE  \E f : Collects(f, ls, i, k)
<1>. DEFINE a == i - 1
            D == {n \in Nat : \E f : Collects(f, ls, i, a + n)}
<1>1. a \in Nat /\ k - a \in Nat /\ a + (k - a) = k
  OBVIOUS
<1>2. 0 \in D
  <2>. DEFINE f == [j \in a .. a |-> <<>>]
  <2>1. \A j \in a .. a : j = a
    BY <1>1
  <2>2. a + 0 = a
    BY <1>1
  <2>3. f = [j \in a .. a |-> IF j = a THEN <<>> ELSE f[j - 1] \o Contribution(ls, j)]
    BY <2>1, Zenon
  <2>. QED  BY <2>2, <2>3 DEF Collects
<1>3. ASSUME NEW n \in Nat, n \in D
      PROVE  n + 1 \in D
  <2>1. PICK f : Collects(f, ls, i, a + n)
    BY <1>3
  <2>. DEFINE m == a + n
              g == [j \in a .. m + 1 |-> IF j = m + 1 THEN f[m] \o Contribution(ls, m + 1)
                                         ELSE f[j]]
  <2>2. m \in Nat /\ a <= m /\ a + (n + 1) = m + 1
    BY <1>1
  <2>3. \A j \in a .. m : f[j] = IF j = a THEN <<>> ELSE f[j - 1] \o Contribution(ls, j)
    BY <2>1 DEF Collects
  <2>. HIDE DEF m, a
  <2>4. ASSUME NEW j \in a .. m + 1
        PROVE  g[j] = IF j = a THEN <<>> ELSE g[j - 1] \o Contribution(ls, j)
    <3>1. CASE j = m + 1
      <4>1. j # a /\ j - 1 = m /\ m \in a .. m + 1 /\ m # m + 1
        BY <1>1, <2>2, <3>1
      <4>2. g[m] = f[m] /\ g[j] = f[m] \o Contribution(ls, m + 1)
        BY <3>1, <4>1
      <4>. QED  BY <3>1, <4>1, <4>2
    <3>2. CASE j # m + 1
      <4>1. j \in a .. m /\ (j # a => j - 1 \in a .. m + 1 /\ j - 1 # m + 1)
        BY <1>1, <2>2, <3>2
      <4>2. g[j] = f[j] /\ (j # a => g[j - 1] = f[j - 1])
        BY <3>2, <4>1
      <4>. QED  BY <2>3, <4>1, <4>2
    <3>. QED  BY <3>1, <3>2
  <2>5. g = [j \in a .. m + 1 |-> g[j]]
    OBVIOUS
  <2>. HIDE DEF g
  <2>6. g = [j \in a .. m + 1 |-> IF j = a THEN <<>> ELSE g[j - 1] \o Contribution(ls, j)]
    BY <2>4, <2>5
  <2>7. Collects(g, ls, i, m + 1)
    BY <2>6, Zenon DEF Collects, a
  <2>. QED  BY <2>2, <2>7
<1>. HIDE DEF D
<1>4. k - a \in D
  BY <1>1, <1>2, <1>3, SetInduction
<1>. QED  BY <1>1, <1>4 DEF D

(* Collectors agree where both are defined.                                *)
LEMMA CollectorsAgree ==
  ASSUME NEW ls, NEW i \in Nat \ {0}, NEW k \in Nat, NEW l \in Nat, NEW f, NEW g,
         Collects(f, ls, i, k), Collects(g, ls, i, l), NEW m \in i - 1 .. k, m <= l
  PROVE  f[m] = g[m]
<1>. DEFINE a == i - 1
            D == {n \in Nat : a + n <= m => f[a + n] = g[a + n]}
<1>1. a \in Nat /\ m - a \in Nat /\ a + (m - a) = m /\ m \in Nat /\ m <= k
  OBVIOUS
<1>2. /\ \A j \in a .. k : f[j] = IF j = a THEN <<>> ELSE f[j - 1] \o Contribution(ls, j)
      /\ \A j \in a .. l : g[j] = IF j = a THEN <<>> ELSE g[j - 1] \o Contribution(ls, j)
  BY DEF Collects
<1>. HIDE DEF a
<1>3. 0 \in D
  BY <1>1, <1>2
<1>4. ASSUME NEW n \in Nat, n \in D
      PROVE  n + 1 \in D
  <2>. SUFFICES ASSUME a + (n + 1) <= m
                PROVE  f[a + (n + 1)] = g[a + (n + 1)]
    OBVIOUS
  <2>. DEFINE j == a + (n + 1)
  <2>1. /\ j \in a .. k /\ j \in a .. l /\ j # a /\ j - 1 = a + n /\ a + n <= m
    BY <1>1
  <2>2. f[a + n] = g[a + n]
    BY <1>4, <2>1
  <2>. HIDE DEF j
  <2>3. f[j] = g[j]
    BY <1>2, <2>1, <2>2
  <2>. QED  BY <2>3 DEF j
<1>. HIDE DEF D
<1>5. m - a \in D
  BY <1>1, <1>3, <1>4, SetInduction
<1>. QED  BY <1>1, <1>5 DEF D

LEMMA DataOfStep ==
  ASSUME NEW ls, NEW i \in Nat \ {0}
  PROVE  /\ DataOf(ls, i, i - 1) = <<>>
         /\ \A k \in Nat : i - 1 <= k =>
              DataOf(ls, i, k + 1) = DataOf(ls, i, k) \o Contribution(ls, k + 1)
<1>. DEFINE F(k) == CHOOSE f : Collects(f, ls, i, k)
<1>1. i - 1 \in Nat
  OBVIOUS
<1>2. ASSUME NEW k \in Nat, i - 1 <= k
      PROVE  Collects(F(k), ls, i, k)
  BY <1>2, CollectorExists, Zenon
<1>3. \A k \in Nat : DataOf(ls, i, k) = F(k)[k]
  BY DataOfCollects
<1>. HIDE DEF F
<1>4. DataOf(ls, i, i - 1) = <<>>
  <2>1. Collects(F(i - 1), ls, i, i - 1)
    BY <1>1, <1>2
  <2>2. i - 1 \in i - 1 .. i - 1
    BY <1>1
  <2>3. F(i - 1)[i - 1] = <<>>
    BY <2>1, <2>2 DEF Collects
  <2>. QED  BY <1>1, <1>3, <2>3
<1>5. ASSUME NEW k \in Nat, i - 1 <= k
      PROVE  DataOf(ls, i, k + 1) = DataOf(ls, i, k) \o Contribution(ls, k + 1)
  <2>1. /\ k + 1 \in Nat /\ i - 1 <= k + 1 /\ k + 1 \in i - 1 .. k + 1 /\ k + 1 # i - 1
        /\ (k + 1) - 1 = k /\ k \in i - 1 .. k + 1 /\ k <= k
    BY <1>1, <1>5
  <2>2. Collects(F(k), ls, i, k) /\ Collects(F(k + 1), ls, i, k + 1)
    BY <1>2, <1>5, <2>1
  <2>3. F(k + 1)[k + 1] = F(k + 1)[k] \o Contribution(ls, k + 1)
    BY <2>1, <2>2 DEF Collects
  <2>4. F(k + 1)[k] = F(k)[k]
    BY <2>1, <2>2, CollectorsAgree
  <2>. QED  BY <1>3, <2>1, <2>3, <2>4
<1>. QED  BY <1>4, <1>5

LEMMA BlockStartFacts ==
  ASSUME NEW ls, NEW k \in Nat
  PROVE  /\ BlockStart(ls, k + 1) \in 0 .. k
         /\ BlockStart(ls, 1) = 0
         /\ BlockStart(ls, (k + 1) + 1) = IF ls[k + 1] = <<>> THEN k + 1 ELSE BlockStart(ls, k + 1)
<1>. DEFINE Blank(n) == {j \in 1 .. n - 1 : ls[j] = <<>>} \cup {0}
            D == {n \in Nat : BlockStart(ls, n + 1) \in 0 .. n}
<1>0. \A n \in Nat : BlockStart(ls, n) = CHOOSE j \in Blank(n) : \A i \in Blank(n) : i <= j
  BY DEF BlockStart
<1>1. BlockStart(ls, 1) = 0
  <2>1. Blank(1) = {0}
    OBVIOUS
  <2>. HIDE DEF Blank
  <2>. QED  BY <1>0, <2>1
<1>2. ASSUME NEW n \in Nat
      PROVE  BlockStart(ls, (n + 1) + 1) = IF ls[n + 1] = <<>> THEN n + 1 ELSE BlockStart(ls, n + 1)
  <2>1. ((n + 1) + 1) - 1 = n + 1 /\ (n + 1) - 1 = n /\ n + 1 \in Nat /\ (n + 1) + 1 \in Nat
    OBVIOUS
  <2>2. 1 .. n + 1 = (1 .. n) \cup {n + 1}
    OBVIOUS
  <2>3. CASE ls[n + 1] = <<>>
    <3>1. n + 1 \in Blank((n + 1) + 1) /\ \A i \in Blank((n + 1) + 1) : i \in Nat /\ i <= n + 1
      BY <2>1, <2>3
    <3>. HIDE DEF Blank
    <3>2. \A j \in Blank((n + 1) + 1) :
             (\A i \in Blank((n + 1) + 1) : i <= j) <=> j = n + 1
      BY <3>1
    <3>. QED  BY <1>0, <2>1, <2>3, <3>1, <3>2
  <2>4. CASE ls[n + 1] # <<>>
    <3>1. Blank((n + 1) + 1) = Blank(n + 1)
      BY <2>1, <2>2, <2>4
    <3>. HIDE DEF Blank
    <3>. QED  BY <1>0, <2>1, <2>4, <3>1
  <2>. QED  BY <2>3, <2>4
<1>. HIDE DEF Blank
<1>3. 0 \in D
  BY <1>1
<1>4. ASSUME NEW n \in Nat, n \in D
      PROVE  n + 1 \in D
  BY <1>2, <1>4
<1>. HIDE DEF D
<1>5. k \in D
  BY <1>3, <1>4, SetInduction
<1>. QED  BY <1>1, <1>2, <1>5 DEF D

(* The three fields behind the first k lines.                              *)
DataAfter(ls, k) == DataOf(ls, BlockStart(ls, k + 1) + 1, k)

TypeAfter(ls, k) ==
  LastOf(ls, {j \in BlockStart(ls, k + 1) + 1 .. k : IsField(ls[j], <<"event">>)}, <<>>)

IdAfter(ls, k) ==
  LastOf(ls, {j \in 1 .. k : IsField(ls[j], <<"id">>) /\ ~Has(Value(ls[j]), "NUL")}, <<>>)

LEMMA DataAfterStep ==
  ASSUME NEW ls, NEW k \in Nat
  PROVE  /\ DataAfter(ls, 0) = <<>>
         /\ DataAfter(ls, k + 1) = IF ls[k + 1] = <<>> THEN <<>>
                                   ELSE DataAfter(ls, k) \o Contribution(ls, k + 1)
<1>. DEFINE s == BlockStart(ls, k + 1)
<1>1. /\ s \in Nat /\ s <= k /\ BlockStart(ls, 1) = 0
      /\ BlockStart(ls, (k + 1) + 1) = IF ls[k + 1] = <<>> THEN k + 1 ELSE s
  <2>1. /\ s \in 0 .. k /\ BlockStart(ls, 1) = 0
        /\ BlockStart(ls, (k + 1) + 1) = IF ls[k + 1] = <<>> THEN k + 1 ELSE s
    BY BlockStartFacts, Zenon
  <2>2. s \in Nat /\ s <= k
    BY <2>1
  <2>. QED  BY <2>1, <2>2, Zenon
<1>2. DataAfter(ls, 0) = <<>>
  <2>1. 0 + 1 = 1 /\ 1 \in Nat \ {0} /\ 1 - 1 = 0
    OBVIOUS
  <2>. QED  BY <1>1, <2>1, DataOfStep DEF DataAfter
<1>3. CASE ls[k + 1] = <<>>
  <2>1. (k + 1) + 1 \in Nat \ {0} /\ ((k + 1) + 1) - 1 = k + 1
    OBVIOUS
  <2>. HIDE DEF s
  <2>2. DataOf(ls, (k + 1) + 1, k + 1) = <<>>
    BY <2>1, DataOfStep
  <2>. QED  BY <1>1, <1>2, <1>3, <2>2 DEF DataAfter
<1>4. CASE ls[k + 1] # <<>>
  <2>1. s + 1 \in Nat \ {0} /\ (s + 1) - 1 <= k
    BY <1>1
  <2>. HIDE DEF s
  <2>2. DataOf(ls, s + 1, k + 1) = DataOf(ls, s + 1, k) \o Contribution(ls, k + 1)
    BY <2>1, DataOfStep
  <2>. QED  BY <1>1, <1>2, <1>4, <2>2 DEF DataAfter, s
<1>. QED  BY <1>3, <1>4

LEMMA TypeAfterStep ==
  ASSUME NEW ls, NEW k \in Nat
  PROVE  /\ TypeAfter(ls, 0) = <<>>
         /\ TypeAfter(ls, k + 1) = IF ls[k + 1] = <<>> THEN <<>>
                                   ELSE IF IsField(ls[k + 1], <<"event">>) THEN Value(ls[k + 1])
                                   ELSE TypeAfter(ls, k)
<1>. DEFINE s == BlockStart(ls, k + 1)
            E(lo, hi) == {j \in lo .. hi : IsField(ls[j], <<"event">>)}
<1>0. \A n \in Nat : TypeAfter(ls, n) = LastOf(ls, E(BlockStart(ls, n + 1) + 1, n), <<>>)
  BY DEF TypeAfter
<1>1. /\ s \in Nat /\ s <= k /\ BlockStart(ls, 1) = 0
      /\ BlockStart(ls, (k + 1) + 1) = IF ls[k + 1] = <<>> THEN k + 1 ELSE s
  <2>1. /\ s \in 0 .. k /\ BlockStart(ls, 1) = 0
        /\ BlockStart(ls, (k + 1) + 1) = IF ls[k + 1] = <<>> THEN k + 1 ELSE s
    BY BlockStartFacts, Zenon
  <2>2. s \in Nat /\ s <= k
    BY <2>1
  <2>. QED  BY <2>1, <2>2, Zenon
<1>2. TypeAfter(ls, 0) = <<>>
  <2>1. E(0 + 1, 0) = {}
    OBVIOUS
  <2>2. BlockStart(ls, 0 + 1) = 0
    BY <1>1
  <2>. HIDE DEF E
  <2>. QED  BY <1>0, <2>1, <2>2 DEF LastOf
<1>. HIDE DEF s
<1>3. s + 1 .. k + 1 = (s + 1 .. k) \cup {k + 1}
  BY <1>1
<1>4. CASE ls[k + 1] = <<>>
  <2>1. E((k + 1) + 1, k + 1) = {}
    OBVIOUS
  <2>. HIDE DEF E
  <2>2. TypeAfter(ls, k + 1) = LastOf(ls, E((k + 1) + 1, k + 1), <<>>)
    BY <1>0, <1>1, <1>4
  <2>. QED  BY <1>2, <1>4, <2>1, <2>2 DEF LastOf
<1>5. CASE ls[k + 1] # <<>>
  <2>1. /\ TypeAfter(ls, k + 1) = LastOf(ls, E(s + 1, k + 1), <<>>)
        /\ TypeAfter(ls, k) = LastOf(ls, E(s + 1, k), <<>>)
    <3>. HIDE DEF E
    <3>1. BlockStart(ls, (k + 1) + 1) = s /\ BlockStart(ls, k + 1) = s /\ k + 1 \in Nat
      BY <1>1, <1>5 DEF s
    <3>. QED  BY <1>0, <3>1
  <2>2. CASE IsField(ls[k + 1], <<"event">>)
    <3>1. k + 1 \in E(s + 1, k + 1) /\ \A j \in E(s + 1, k + 1) : j \in Nat /\ j <= k + 1
      BY <1>1, <2>2
    <3>. HIDE DEF E
    <3>2. \A j \in E(s + 1, k + 1) : (\A l \in E(s + 1, k + 1) : l <= j) <=> j = k + 1
      BY <3>1
    <3>3. (CHOOSE j \in E(s + 1, k + 1) : \A l \in E(s + 1, k + 1) : l <= j) = k + 1
      BY <3>1, <3>2
    <3>4. E(s + 1, k + 1) # {}
      BY <3>1
    <3>. QED  BY <1>2, <1>5, <2>1, <2>2, <3>3, <3>4 DEF LastOf
  <2>3. CASE ~IsField(ls[k + 1], <<"event">>)
    <3>1. E(s + 1, k + 1) = E(s + 1, k)
      BY <1>3, <2>3
    <3>. HIDE DEF E
    <3>. QED  BY <1>2, <1>5, <2>1, <2>3, <3>1
  <2>. QED  BY <2>2, <2>3
<1>. QED  BY <1>4, <1>5

LEMMA IdAfterStep ==
  ASSUME NEW ls, NEW k \in Nat
  PROVE  /\ IdAfter(ls, 0) = <<>>
         /\ IdAfter(ls, k + 1) = IF IsField(ls[k + 1], <<"id">>) /\ ~Has(Value(ls[k + 1]), "NUL")
                                 THEN Value(ls[k + 1]) ELSE IdAfter(ls, k)
<1>. DEFINE E(hi) == {j \in 1 .. hi : IsField(ls[j], <<"id">>) /\ ~Has(Value(ls[j]), "NUL")}
<1>0. \A n \in Nat : IdAfter(ls, n) = LastOf(ls, E(n), <<>>)
  BY DEF IdAfter
<1>1. E(0) = {}
  OBVIOUS
<1>2. 1 .. k + 1 = (1 .. k) \cup {k + 1} /\ k + 1 \in Nat
  OBVIOUS
<1>3. IdAfter(ls, 0) = <<>>
  <2>. HIDE DEF E
  <2>. QED  BY <1>0, <1>1 DEF LastOf
<1>4. CASE IsField(ls[k + 1], <<"id">>) /\ ~Has(Value(ls[k + 1]), "NUL")
  <2>1. k + 1 \in E(k + 1) /\ \A j \in E(k + 1) : j \in Nat /\ j <= k + 1
    BY <1>4
  <2>. HIDE DEF E
  <2>2. \A j \in E(k + 1) : (\A l \in E(k + 1) : l <= j) <=> j = k + 1
    BY <2>1
  <2>3. (CHOOSE j \in E(k + 1) : \A l \in E(k + 1) : l <= j) = k + 1 /\ E(k + 1) # {}
    BY <2>1, <2>2
  <2>. QED  BY <1>0, <1>2, <1>3, <1>4, <2>3 DEF LastOf
<1>5. CASE ~(IsField(ls[k + 1], <<"id">>) /\ ~Has(Value(ls[k + 1]), "NUL"))
  <2>1. E(k + 1) = E(k)
    BY <1>2, <1>5
  <2>. HIDE DEF E
  <2>. QED  BY <1>0, <1>2, <1>3, <1>5, <2>1
<1>. QED  BY <1>4, <1>5

LEMMA PendingFacts ==
  ASSUME NEW ls, NEW k \in Nat
  PROVE  /\ Pending(ls, k + 1) = DataAfter(ls, k) \o Contribution(ls, k + 1)
         /\ EventAt(ls, k + 1) =
              [type |-> IF TypeAfter(ls, k) = <<>> THEN <<"message">> ELSE TypeAfter(ls, k),
               data |-> SubSeq(Pending(ls, k + 1), 1, Len(Pending(ls, k + 1)) - 1),
               id   |-> IdAfter(ls, k)]
<1>. DEFINE s == BlockStart(ls, k + 1)
<1>1. s \in 0 .. k
  BY BlockStartFacts, Zenon
<1>2. s + 1 \in Nat \ {0} /\ (s + 1) - 1 <= k /\ (k + 1) - 1 = k
  BY <1>1
<1>3. Pending(ls, k + 1) = DataAfter(ls, k) \o Contribution(ls, k + 1)
  <2>. HIDE DEF s
  <2>1. DataOf(ls, s + 1, k + 1) = DataOf(ls, s + 1, k) \o Contribution(ls, k + 1)
    BY <1>2, DataOfStep
  <2>. QED  BY <2>1 DEF Pending, DataAfter, s
<1>4. /\ TypeAfter(ls, k) = LastOf(ls, {j \in s + 1 .. (k + 1) - 1 : IsField(ls[j], <<"event">>)}, <<>>)
      /\ IdAfter(ls, k) = LastOf(ls, {j \in 1 .. (k + 1) - 1 : IsField(ls[j], <<"id">>) /\
                                                        ~Has(Value(ls[j]), "NUL")}, <<>>)
  BY <1>2 DEF TypeAfter, IdAfter
<1>. QED  BY <1>3, <1>4, Zenon DEF EventAt

(* The events of the first n lines.                                        *)
EventsOf(ls, n) ==
  LET bs == Blanks(ls, n)
      nth(i) == CHOOSE b \in bs : Cardinality({j \in bs : j <= b}) = i
  IN  [i \in 1 .. Cardinality(bs) |-> EventAt(ls, nth(i))]

LEMMA EventsOfNone ==
  ASSUME NEW ls PROVE Cardinality(Blanks(ls, 0)) = 0 /\ EventsOf(ls, 0) = <<>>
<1>1. Blanks(ls, 0) = {}
  BY DEF Blanks
<1>2. Cardinality(Blanks(ls, 0)) = 0
  BY <1>1, FS_EmptySet
<1>3. 1 .. Cardinality(Blanks(ls, 0)) = {}
  BY <1>2
<1>. QED  BY <1>2, <1>3 DEF EventsOf

LEMMA EventsOfStep ==
  ASSUME NEW ls, NEW n \in Nat
  PROVE  LET c == Cardinality(Blanks(ls, n)) IN
         /\ c \in Nat /\ DOMAIN EventsOf(ls, n) = 1 .. c
         /\ Cardinality(Blanks(ls, n + 1)) = IF Dispatches(ls, n + 1) THEN c + 1 ELSE c
         /\ EventsOf(ls, n + 1) =
              IF Dispatches(ls, n + 1)
              THEN [i \in 1 .. c + 1 |-> IF i = c + 1 THEN EventAt(ls, n + 1) ELSE EventsOf(ls, n)[i]]
              ELSE EventsOf(ls, n)
<1>. DEFINE A == Blanks(ls, n + 1)
            c == Cardinality(Blanks(ls, n))
<1>1. A \in SUBSET (Nat \ {0})
  BY DEF Blanks
<1>2. Blanks(ls, n) = Upto(A, n) /\ A = Upto(A, n + 1)
  BY DEF Blanks, Upto
<1>3. n + 1 \in A <=> Dispatches(ls, n + 1)
  BY DEF Blanks
<1>4. c = Count(A, n) /\ Cardinality(A) = Count(A, n + 1)
  BY <1>2 DEF Count
<1>. HIDE DEF A
<1>5. c \in Nat /\ Cardinality(A) = IF Dispatches(ls, n + 1) THEN c + 1 ELSE c
  <2>1. Count(A, n) \in Nat
    BY <1>1, CountFinite
  <2>2. Count(A, n + 1) = IF n + 1 \in A THEN Count(A, n) + 1 ELSE Count(A, n)
    BY <1>1, CountNext
  <2>. QED  BY <1>3, <1>4, <2>1, <2>2
<1>6. EventsOf(ls, n) = [i \in 1 .. c |-> EventAt(ls, Nth(A, i))]
  <2>. DEFINE bs == Blanks(ls, n)
  <2>1. ASSUME NEW i \in 1 .. c
        PROVE  NthOf(bs, i) = Nth(A, i)
    <3>1. i \in 1 .. Count(A, n)
      BY <1>4
    <3>. HIDE DEF c
    <3>. QED  BY <1>1, <1>2, <3>1, NthOfPart
  <2>2. EventsOf(ls, n) = [i \in 1 .. c |-> EventAt(ls, NthOf(bs, i))]
    BY Zenon DEF EventsOf, NthOf
  <2>. HIDE DEF c, bs
  <2>. QED  BY <2>1, <2>2
<1>7. EventsOf(ls, n + 1) = [i \in 1 .. Cardinality(A) |-> EventAt(ls, Nth(A, i))]
  <2>1. n + 1 \in Nat
    OBVIOUS
  <2>2. ASSUME NEW i \in 1 .. Cardinality(A)
        PROVE  NthOf(A, i) = Nth(A, i)
    <3>1. i \in 1 .. Count(A, n + 1)
      BY <1>4
    <3>. QED  BY <1>1, <1>2, <2>1, <3>1, NthOfPart
  <2>3. EventsOf(ls, n + 1) = [i \in 1 .. Cardinality(A) |-> EventAt(ls, NthOf(A, i))]
    BY Zenon DEF EventsOf, NthOf, A
  <2>. QED  BY <2>2, <2>3
<1>8. Dispatches(ls, n + 1) => Nth(A, c + 1) = n + 1
  <2>1. SUFFICES ASSUME n + 1 \in A
                 PROVE  Nth(A, c + 1) = n + 1
    BY <1>3
  <2>2. Nth(A, Count(A, n + 1)) = n + 1
    BY <1>1, <2>1, NthOfMember
  <2>. QED  BY <1>3, <1>4, <1>5, <2>1, <2>2
<1>. HIDE DEF c
<1>9. CASE Dispatches(ls, n + 1)
  <2>. DEFINE e == EventsOf(ls, n)
              f == EventsOf(ls, n + 1)
              g == [i \in 1 .. c + 1 |-> IF i = c + 1 THEN EventAt(ls, n + 1) ELSE e[i]]
  <2>1. f = [i \in 1 .. c + 1 |-> EventAt(ls, Nth(A, i))]
    BY <1>5, <1>7, <1>9
  <2>2. ASSUME NEW i \in 1 .. c + 1
        PROVE  EventAt(ls, Nth(A, i)) = IF i = c + 1 THEN EventAt(ls, n + 1) ELSE e[i]
    <3>1. CASE i = c + 1
      BY <1>8, <1>9, <3>1
    <3>2. CASE i # c + 1
      <4>1. i \in 1 .. c
        BY <1>5, <3>2
      <4>. QED  BY <1>6, <3>2, <4>1
    <3>. QED  BY <3>1, <3>2
  <2>. HIDE DEF e, f
  <2>3. f = g
    BY <2>1, <2>2
  <2>4. DOMAIN e = 1 .. c
    BY <1>6 DEF e
  <2>. QED  BY <1>5, <1>9, <2>3, <2>4 DEF A, c, e, f
<1>10. CASE ~Dispatches(ls, n + 1)
  BY <1>5, <1>6, <1>7, <1>10 DEF A, c
<1>. QED  BY <1>9, <1>10

(* What the first lines leave behind does not depend on the lines after.   *)
SameAfter(ls, ms, k) ==
  /\ DataAfter(ls, k) = DataAfter(ms, k) /\ TypeAfter(ls, k) = TypeAfter(ms, k)
  /\ IdAfter(ls, k) = IdAfter(ms, k)
  /\ Cardinality(Blanks(ls, k)) = Cardinality(Blanks(ms, k)) /\ EventsOf(ls, k) = EventsOf(ms, k)

SameAt(ls, ms, k) ==
  /\ Pending(ls, k) = Pending(ms, k) /\ EventAt(ls, k) = EventAt(ms, k)
  /\ Dispatches(ls, k) <=> Dispatches(ms, k)
  /\ TooMuch(ls, k) <=> TooMuch(ms, k)

LEMMA NextSame ==
  ASSUME NEW ls, NEW ms, NEW k \in Nat, SameAfter(ls, ms, k), ls[k + 1] = ms[k + 1]
  PROVE  SameAt(ls, ms, k + 1) /\ SameAfter(ls, ms, k + 1)
<1>1. Contribution(ls, k + 1) = Contribution(ms, k + 1)
  BY DEF Contribution
<1>2. Pending(ls, k + 1) = Pending(ms, k + 1)
  BY <1>1, PendingFacts DEF SameAfter
<1>3. EventAt(ls, k + 1) = EventAt(ms, k + 1)
  <2>1. /\ TypeAfter(ls, k) = TypeAfter(ms, k) /\ IdAfter(ls, k) = IdAfter(ms, k)
    BY DEF SameAfter
  <2>. QED  BY <1>2, <2>1, PendingFacts, Zenon
<1>4. /\ Dispatches(ls, k + 1) <=> Dispatches(ms, k + 1)
      /\ TooMuch(ls, k + 1) <=> TooMuch(ms, k + 1)
  BY <1>2 DEF Dispatches, TooMuch
<1>5. DataAfter(ls, k + 1) = DataAfter(ms, k + 1)
  BY <1>1, DataAfterStep DEF SameAfter
<1>6. TypeAfter(ls, k + 1) = TypeAfter(ms, k + 1)
  BY TypeAfterStep DEF SameAfter
<1>7. IdAfter(ls, k + 1) = IdAfter(ms, k + 1)
  BY IdAfterStep DEF SameAfter
<1>8. Cardinality(Blanks(ls, k + 1)) = Cardinality(Blanks(ms, k + 1))
  BY <1>4, EventsOfStep DEF SameAfter
<1>9. EventsOf(ls, k + 1) = EventsOf(ms, k + 1)
  <2>. DEFINE c == Cardinality(Blanks(ls, k)) e == EventsOf(ls, k) a == EventAt(ls, k + 1)
              f == [i \in 1 .. c + 1 |-> IF i = c + 1 THEN a ELSE e[i]]
  <2>1. EventsOf(ls, k + 1) = IF Dispatches(ls, k + 1) THEN f ELSE e
    BY EventsOfStep, Zenon
  <2>2. EventsOf(ms, k + 1) = IF Dispatches(ms, k + 1) THEN f ELSE e
    <3>1. c = Cardinality(Blanks(ms, k)) /\ e = EventsOf(ms, k) /\ a = EventAt(ms, k + 1)
      BY <1>3 DEF SameAfter
    <3>. HIDE DEF c, e, a
    <3>. QED  BY <3>1, EventsOfStep, Zenon
  <2>. HIDE DEF e, f
  <2>. QED  BY <1>4, <2>1, <2>2
<1>. QED  BY <1>2, <1>3, <1>4, <1>5, <1>6, <1>7, <1>8, <1>9 DEF SameAt, SameAfter

LEMMA LinesAgree ==
  ASSUME NEW ls, NEW ms, NEW n \in Nat, \A j \in 1 .. n : ls[j] = ms[j]
  PROVE  /\ \A k \in 0 .. n : SameAfter(ls, ms, k)
         /\ \A k \in 1 .. n : SameAt(ls, ms, k)
<1>. DEFINE D == {k \in Nat : k <= n => SameAfter(ls, ms, k)}
<1>1. 0 \in D
  BY DataAfterStep, TypeAfterStep, IdAfterStep, EventsOfNone DEF SameAfter
<1>2. ASSUME NEW k \in Nat, k \in D
      PROVE  k + 1 \in D
  <2>. SUFFICES ASSUME k + 1 <= n
                PROVE  SameAfter(ls, ms, k + 1)
    OBVIOUS
  <2>1. SameAfter(ls, ms, k) /\ ls[k + 1] = ms[k + 1]
    BY <1>2
  <2>. QED  BY <2>1, NextSame
<1>. HIDE DEF D
<1>3. \A k \in Nat : k \in D
  BY <1>1, <1>2, SetInduction
<1>4. \A k \in 0 .. n : SameAfter(ls, ms, k)
  BY <1>3 DEF D
<1>5. ASSUME NEW k \in 1 .. n
      PROVE  SameAt(ls, ms, k)
  <2>1. k - 1 \in Nat /\ k - 1 \in 0 .. n /\ (k - 1) + 1 = k
    OBVIOUS
  <2>2. SameAfter(ls, ms, k - 1) /\ ls[(k - 1) + 1] = ms[(k - 1) + 1]
    BY <1>4, <2>1
  <2>3. SameAt(ls, ms, (k - 1) + 1)
    BY <2>1, <2>2, NextSame
  <2>. QED  BY <2>1, <2>3
<1>. QED  BY <1>4, <1>5

---------------------------------------------------------------------------
(* The fields of a line. *)

LEMMA FirstFacts ==
  ASSUME NEW s \in Seq(Byte), NEW b, Has(s, b)
  PROVE  /\ First(s, b) \in 1 .. Len(s) /\ s[First(s, b)] = b
         /\ \A j \in 1 .. First(s, b) - 1 : s[j] # b
<1>. DEFINE P == {i \in 1 .. Len(s) : s[i] = b}
<1>1. P \in SUBSET Nat /\ P # {}
  BY DEF Has
<1>2. PICK i \in P : \A j \in P : i <= j
  BY <1>1, LeastElement
<1>3. \A j \in 1 .. i - 1 : j \in 1 .. Len(s) /\ ~(i <= j)
  BY <1>2
<1>4. \E k \in DOMAIN s : s[k] = b /\ \A j \in 1 .. k - 1 : s[j] # b
  BY <1>2, <1>3
<1>5. /\ First(s, b) \in DOMAIN s /\ s[First(s, b)] = b
      /\ \A j \in 1 .. First(s, b) - 1 : s[j] # b
  BY <1>4, Zenon DEF First
<1>. QED  BY <1>5

LEMMA ValueTyped == ASSUME NEW line \in Seq(Byte) PROVE Value(line) \in Seq(Byte)
<1>. DEFINE v == IF Has(line, ":") THEN SubSeq(line, First(line, ":") + 1, Len(line)) ELSE <<>>
<1>1. v \in Seq(Byte)
  <2>1. CASE Has(line, ":")
    <3>. DEFINE f == First(line, ":")
    <3>1. f \in 1 .. Len(line)
      BY <2>1, FirstFacts
    <3>. HIDE DEF f
    <3>2. f + 1 \in Int /\ Len(line) \in Int /\ \A i \in f + 1 .. Len(line) : line[i] \in Byte
      <4>1. \A i \in f + 1 .. Len(line) : i \in 1 .. Len(line)
        BY <3>1
      <4>. QED  BY <3>1, <4>1, ElementOfSeq
    <3>3. SubSeq(line, f + 1, Len(line)) \in Seq(Byte)
      BY <3>2, SubSeqProperties
    <3>. QED  BY <2>1, <3>3 DEF f
  <2>2. CASE ~Has(line, ":")
    BY <2>2, EmptySeq
  <2>. QED  BY <2>1, <2>2
<1>2. Value(line) = IF v # <<>> /\ Head(v) = " " THEN Tail(v) ELSE v
  BY DEF Value
<1>. HIDE DEF v
<1>. QED  BY <1>1, <1>2, HeadTailProperties

(* A comment has no field name.                                            *)
LEMMA CommentHasNoName ==
  ASSUME NEW line \in Seq(Byte), line # <<>>, Head(line) = ":"
  PROVE  Name(line) = <<>>
<1>1. 1 \in DOMAIN line /\ line[1] = ":" /\ Len(line) \in Nat
  OBVIOUS
<1>2. Has(line, ":")
  BY <1>1 DEF Has
<1>3. First(line, ":") = 1
  <2>1. First(line, ":") \in 1 .. Len(line) /\ \A j \in 1 .. First(line, ":") - 1 : line[j] # ":"
    BY <1>2, FirstFacts
  <2>. QED  BY <1>1, <2>1
<1>4. SubSeq(line, 1, 1 - 1) = <<>>
  OBVIOUS
<1>. QED  BY <1>2, <1>3, <1>4 DEF Name

---------------------------------------------------------------------------
(* The lines of a whole body: what Ends, StartOf and Lines say of the bytes*)
(* handed over, said of all.                                               *)

EndSet(b) ==
  {i \in 1 .. Len(b) : /\ b[i] \in {"CR", "LF"}
                       /\ ~(b[i] = "LF" /\ i > 1 /\ b[i - 1] = "CR")}

(* The lines that end up to p, the end of line k, and where line k begins. *)
Ended(b, p) == Count(EndSet(b), p)

LineEnd(b, k) == Nth(EndSet(b), k)

SkipsLf(b, e) == b[e] = "CR" /\ e < Len(b) /\ b[e + 1] = "LF"

Behind(b, e) == IF SkipsLf(b, e) THEN e + 2 ELSE e + 1

OpensWithBom(b) == Len(b) >= 3 /\ SubSeq(b, 1, 3) = bom_bytes

LineBegin(b, k) ==
  IF k = 1 THEN IF OpensWithBom(b) THEN 4 ELSE 1 ELSE Behind(b, LineEnd(b, k - 1))

AllLines(b) ==
  [k \in 1 .. Ended(b, Len(b)) |-> SubSeq(b, LineBegin(b, k), LineEnd(b, k) - 1)]

LEMMA EndSetFacts ==
  ASSUME NEW b \in Seq(Byte)
  PROVE  /\ EndSet(b) \in SUBSET (Nat \ {0}) /\ \A i \in EndSet(b) : i <= Len(b)
         /\ \A p \in Nat : Ended(b, p) \in Nat
         /\ Ended(b, 0) = 0
<1>1. EndSet(b) \in SUBSET (Nat \ {0}) /\ \A i \in EndSet(b) : i <= Len(b)
  BY DEF EndSet
<1>. QED  BY <1>1, CountFinite, CountZero DEF Ended

LEMMA LineEndFacts ==
  ASSUME NEW b \in Seq(Byte), NEW p \in Nat, NEW k \in 1 .. Ended(b, p)
  PROVE  /\ LineEnd(b, k) \in EndSet(b) /\ LineEnd(b, k) \in Nat \ {0} /\ LineEnd(b, k) <= p
         /\ LineEnd(b, k) <= Len(b) /\ Ended(b, LineEnd(b, k)) = k
BY EndSetFacts, NthFacts DEF LineEnd, Ended

LEMMA EndedGrows ==
  ASSUME NEW b \in Seq(Byte), NEW p \in Nat, NEW q \in Nat, p <= q
  PROVE  Ended(b, p) <= Ended(b, q)
BY EndSetFacts, CountGrows DEF Ended

LEMMA LineBeginFacts ==
  ASSUME NEW b \in Seq(Byte), NEW p \in Nat, NEW k \in 1 .. Ended(b, p) + 1
  PROVE  LineBegin(b, k) \in Nat \ {0}
<1>1. CASE k = 1
  BY <1>1 DEF LineBegin
<1>2. CASE k # 1
  <2>1. Ended(b, p) \in Nat
    BY EndSetFacts
  <2>2. k - 1 \in 1 .. Ended(b, p)
    BY <1>2, <2>1
  <2>3. LineEnd(b, k - 1) \in Nat
    BY <2>2, LineEndFacts
  <2>. QED  BY <1>2, <2>3 DEF LineBegin, Behind
<1>. QED  BY <1>1, <1>2

(* The line that ends at e is longer than p allows if it began before.     *)
LEMMA LineEndsBehind ==
  ASSUME NEW b \in Seq(Byte), NEW p \in Nat, NEW q \in Nat, NEW k \in Ended(b, p) + 1 .. Ended(b, q)
  PROVE  p < LineEnd(b, k)
<1>1. Ended(b, p) \in Nat /\ Ended(b, q) \in Nat
  BY EndSetFacts
<1>2. k \in 1 .. Ended(b, q) /\ Ended(b, p) < k
  BY <1>1
<1>3. LineEnd(b, k) \in Nat /\ Ended(b, LineEnd(b, k)) = k
  BY <1>2, LineEndFacts
<1>4. SUFFICES ASSUME LineEnd(b, k) <= p PROVE FALSE
  BY <1>3
<1>5. Ended(b, LineEnd(b, k)) <= Ended(b, p)
  BY <1>3, <1>4, EndedGrows
<1>. QED  BY <1>1, <1>2, <1>3, <1>5

LEMMA AllLinesFacts ==
  ASSUME NEW b \in Seq(Byte), NEW p \in Nat, p <= Len(b), NEW k \in 1 .. Ended(b, p)
  PROVE  AllLines(b)[k] = SubSeq(b, LineBegin(b, k), LineEnd(b, k) - 1)
<1>1. Len(b) \in Nat
  OBVIOUS
<1>2. Ended(b, p) <= Ended(b, Len(b)) /\ Ended(b, p) \in Nat /\ Ended(b, Len(b)) \in Nat
  BY <1>1, EndedGrows, EndSetFacts
<1>3. k \in 1 .. Ended(b, Len(b))
  BY <1>2
<1>. QED  BY <1>3 DEF AllLines

(* The mark, if the bytes given hold it.                                   *)
LEMMA BomGiven ==
  ASSUME body \in Seq(Byte), end \in Nat, end <= Len(body)
  PROVE  /\ Given \in Seq(Byte) /\ Len(Given) = end /\ \A i \in 1 .. end : Given[i] = body[i]
         /\ HasBom <=> OpensWithBom(body) /\ end >= 3
         /\ OpensWithBom(body) => \A i \in 1 .. 3 : body[i] = bom_bytes[i]
<1>1. 1 \in Int /\ end \in Int /\ \A i \in 1 .. end : body[i] \in Byte
  BY ElementOfSeq
<1>2. Given \in Seq(Byte) /\ Len(Given) = end /\ \A i \in 1 .. end : Given[i] = body[i]
  <2>1. /\ Given \in Seq(Byte) /\ Len(Given) = IF 1 <= end THEN end - 1 + 1 ELSE 0
        /\ \A i \in 1 .. end - 1 + 1 : Given[i] = body[1 + i - 1]
    BY <1>1, SubSeqProperties DEF Given
  <2>. QED  BY <2>1
<1>3. ASSUME end >= 3
      PROVE  SubSeq(Given, 1, 3) = SubSeq(body, 1, 3)
  <2>1. 1 \in 1 .. Len(body) /\ end \in 1 .. Len(body) /\ 1 \in 1 .. end - 1 + 1 /\ 3 \in 1 .. end - 1 + 1
    BY <1>3
  <2>2. SubSeq(SubSeq(body, 1, end), 1, 3) = SubSeq(body, 1 + 1 - 1, 1 + 3 - 1)
    BY <1>2, <2>1, SubSeqOfSubSeq
  <2>3. 1 + 1 - 1 = 1 /\ 1 + 3 - 1 = 3
    OBVIOUS
  <2>. QED  BY <2>2, <2>3 DEF Given
<1>4. OpensWithBom(body) => \A i \in 1 .. 3 : body[i] = bom_bytes[i]
  <2>1. SUFFICES ASSUME OpensWithBom(body), NEW i \in 1 .. 3
                 PROVE  body[i] = bom_bytes[i]
    OBVIOUS
  <2>2. Len(body) >= 3
    BY <2>1 DEF OpensWithBom
  <2>3. \A j \in 1 .. 3 : j \in 1 .. Len(body)
    BY <2>2
  <2>4. 1 \in Int /\ 3 \in Int /\ \A j \in 1 .. 3 : body[j] \in Byte
    BY <2>3, ElementOfSeq
  <2>5. \A j \in 1 .. 3 - 1 + 1 : SubSeq(body, 1, 3)[j] = body[1 + j - 1]
    BY <2>4, SubSeqProperties
  <2>6. i \in 1 .. 3 - 1 + 1 /\ 1 + i - 1 = i
    OBVIOUS
  <2>. QED  BY <2>1, <2>5, <2>6 DEF OpensWithBom
<1>. QED  BY <1>2, <1>3, <1>4 DEF HasBom, OpensWithBom

LEMMA BomHasNoEnd ==
  ASSUME NEW b \in Seq(Byte), NEW m \in 0 .. 3, \A i \in 1 .. m : b[i] = bom_bytes[i]
  PROVE  Ended(b, m) = 0
<1>1. \A i \in 1 .. m : b[i] \notin {"CR", "LF"}
  <2>1. \A i \in 1 .. 3 : bom_bytes[i] \in {"ef", "bb", "bf"}
    BY DEF bom_bytes
  <2>2. \A i \in 1 .. m : i \in 1 .. 3
    OBVIOUS
  <2>. QED  BY <2>1, <2>2
<1>2. \A j \in EndSet(b) : ~(0 < j /\ j <= m)
  BY <1>1 DEF EndSet
<1>3. Ended(b, m) = Ended(b, 0)
  <2>1. EndSet(b) \in SUBSET (Nat \ {0})
    BY EndSetFacts
  <2>2. 0 \in Nat /\ m \in Nat /\ 0 <= m
    OBVIOUS
  <2>3. Count(EndSet(b), m) = Count(EndSet(b), 0)
    BY <1>2, <2>1, <2>2, CountSame
  <2>. QED  BY <2>3 DEF Ended
<1>. QED  BY <1>3, EndSetFacts

(* The lines of the bytes given are lines of the body.                     *)
LEMMA GivenLines ==
  ASSUME body \in Seq(Byte), end \in Nat, end <= Len(body)
  PROVE  /\ NumLines = Ended(body, end) /\ NumLines \in Nat
         /\ DOMAIN Lines = 1 .. NumLines /\ Len(Lines) = NumLines
         /\ \A k \in 1 .. NumLines : Lines[k] = AllLines(body)[k] /\ EndOf(k) = LineEnd(body, k)
<1>. DEFINE A == EndSet(body)
<1>1. A \in SUBSET (Nat \ {0})
  BY EndSetFacts
<1>2. Ends = Upto(A, end)
  <2>1. 1 .. end = {i \in 1 .. Len(body) : i <= end}
    OBVIOUS
  <2>. QED  BY <2>1 DEF Ends, IsTerminator, EndSet, Upto
<1>3. NumLines = Ended(body, end) /\ NumLines \in Nat
  BY <1>2, EndSetFacts DEF NumLines, Ended, Count
<1>4. ASSUME NEW k \in 1 .. NumLines
      PROVE  EndOf(k) = LineEnd(body, k)
  <2>1. k \in 1 .. Count(A, end)
    BY <1>3 DEF Ended
  <2>. HIDE DEF A
  <2>2. NthOf(Ends, k) = Nth(A, k)
    BY <1>1, <1>2, <2>1, NthOfPart
  <2>. QED  BY <2>2 DEF EndOf, NthOf, LineEnd, A
<1>5. ASSUME NEW k \in 1 .. NumLines
      PROVE  StartOf(k) = LineBegin(body, k)
  <2>1. CASE k = 1
    <3>1. OpensWithBom(body) => end >= 3
      <4>1. SUFFICES ASSUME OpensWithBom(body), end < 3 PROVE FALSE
        OBVIOUS
      <4>2. end \in 0 .. 3 /\ \A i \in 1 .. end : body[i] = bom_bytes[i]
        BY <4>1, BomGiven
      <4>3. Ended(body, end) = 0
        BY <4>2, BomHasNoEnd
      <4>. QED  BY <1>3, <4>3
    <3>2. HasBom <=> OpensWithBom(body)
      BY <3>1, BomGiven
    <3>. QED  BY <2>1, <3>2 DEF StartOf, LineBegin
  <2>2. CASE k # 1
    <3>1. k - 1 \in 1 .. NumLines /\ k \in Ended(body, LineEnd(body, k - 1)) + 1 .. Ended(body, end)
      <4>1. k - 1 \in 1 .. NumLines /\ k - 1 \in 1 .. Ended(body, end)
        BY <1>3, <2>2
      <4>2. Ended(body, LineEnd(body, k - 1)) = k - 1
        BY <4>1, LineEndFacts
      <4>. QED  BY <1>3, <4>1, <4>2
    <3>. DEFINE e == LineEnd(body, k - 1)
    <3>2. e \in Nat /\ e < LineEnd(body, k) /\ LineEnd(body, k) <= end /\ LineEnd(body, k) \in Nat
      <4>1. e \in Nat
        BY <1>3, <3>1, LineEndFacts
      <4>2. LineEnd(body, k) <= end /\ LineEnd(body, k) \in Nat
        BY <1>3, LineEndFacts
      <4>. QED  BY <3>1, <4>1, <4>2, LineEndsBehind
    <3>3. EndOf(k - 1) = e
      BY <1>4, <3>1
    <3>. HIDE DEF e
    <3>4. e < end /\ e < Len(body)
      BY <3>2
    <3>. QED  BY <2>2, <3>3, <3>4 DEF StartOf, LineBegin, Behind, SkipsLf, e
  <2>. QED  BY <2>1, <2>2
<1>6. DOMAIN Lines = 1 .. NumLines /\ Len(Lines) = NumLines
  <2>1. DOMAIN Lines = 1 .. NumLines
    BY DEF Lines
  <2>. QED  BY <1>3, <2>1
<1>7. ASSUME NEW k \in 1 .. NumLines
      PROVE  Lines[k] = AllLines(body)[k]
  <2>1. Lines[k] = SubSeq(body, LineBegin(body, k), LineEnd(body, k) - 1)
    BY <1>4, <1>5 DEF Lines, Line
  <2>. QED  BY <1>3, <2>1, AllLinesFacts
<1>. QED  BY <1>3, <1>4, <1>6, <1>7

(* A byte tells that the body opens with the mark, or does not.            *)
Decided(b, p) ==
  \/ OpensWithBom(b) /\ p >= 3
  \/ \E m \in 0 .. 2 : m + 1 <= p /\ b[m + 1] # bom_bytes[m + 1]

LEMMA DecidedFacts ==
  ASSUME body \in Seq(Byte), end \in Nat, end <= Len(body), Decided(body, end)
  PROVE  /\ ~MaybeBom /\ end > 0
         /\ HasBom <=> OpensWithBom(body)
         /\ LastLine = SubSeq(body, LineBegin(body, NumLines + 1), end)
<1>1. ~MaybeBom /\ end > 0
  <2>1. CASE OpensWithBom(body) /\ end >= 3
    BY <2>1, BomGiven DEF MaybeBom
  <2>2. ASSUME NEW m \in 0 .. 2, m + 1 <= end, body[m + 1] # bom_bytes[m + 1]
        PROVE  ~MaybeBom
    <3>1. SUFFICES ASSUME end < 3, Given = SubSeq(bom_bytes, 1, end)
                   PROVE  FALSE
      BY BomGiven DEF MaybeBom
    <3>2. /\ 1 \in Int /\ end \in Int /\ m + 1 \in 1 .. end - 1 + 1 /\ 1 + (m + 1) - 1 = m + 1
          /\ m + 1 \in 1 .. end
      BY <2>2
    <3>3. \A i \in 1 .. end : bom_bytes[i] \in Byte
      <4>1. \A i \in 1 .. end : i \in 1 .. 3
        BY <3>1
      <4>2. \A i \in 1 .. 3 : bom_bytes[i] \in {"ef", "bb", "bf"}
        BY DEF bom_bytes
      <4>3. {"ef", "bb", "bf"} \subseteq Byte
        BY DEF Byte
      <4>. QED  BY <4>1, <4>2, <4>3
    <3>4. SubSeq(bom_bytes, 1, end)[m + 1] = bom_bytes[1 + (m + 1) - 1]
      BY <3>2, <3>3, SubSeqProperties
    <3>5. Given[m + 1] = body[m + 1]
      BY <3>2, BomGiven
    <3>. QED  BY <2>2, <3>1, <3>2, <3>4, <3>5
  <2>3. end > 0
    BY DEF Decided
  <2>. QED  BY <2>1, <2>2, <2>3 DEF Decided
<1>2. HasBom <=> OpensWithBom(body)
  <2>1. SUFFICES ASSUME OpensWithBom(body), ~(end >= 3) PROVE FALSE
    BY BomGiven
  <2>2. PICK m \in 0 .. 2 : m + 1 <= end /\ body[m + 1] # bom_bytes[m + 1]
    BY <2>1 DEF Decided
  <2>3. m + 1 \in 1 .. 3
    OBVIOUS
  <2>. QED  BY <2>1, <2>2, <2>3, BomGiven
<1>3. LastLine = SubSeq(body, LineBegin(body, NumLines + 1), end)
  <2>. DEFINE n == NumLines
  <2>1. n \in Nat /\ n = Ended(body, end) /\ LastLine = SubSeq(body, StartOf(n + 1), end)
    BY <1>1, GivenLines DEF LastLine
  <2>. HIDE DEF n
  <2>2. CASE n = 0
    <3>1. StartOf(n + 1) = LineBegin(body, n + 1)
      BY <1>2, <2>2 DEF StartOf, LineBegin
    <3>. QED  BY <2>1, <3>1 DEF n
  <2>3. CASE n # 0
    <3>. DEFINE e == LineEnd(body, n)
    <3>1. n \in 1 .. Ended(body, end) /\ n \in 1 .. NumLines /\ n + 1 # 1 /\ (n + 1) - 1 = n
      BY <2>1, <2>3 DEF n
    <3>2. e \in Nat /\ e <= end /\ e <= Len(body)
      BY <3>1, LineEndFacts
    <3>3. EndOf(n) = e
      BY <3>1, GivenLines
    <3>. HIDE DEF e
    <3>4. /\ StartOf(n + 1) = IF body[e] = "CR" /\ e < end /\ body[e + 1] = "LF" THEN e + 2 ELSE e + 1
          /\ LineBegin(body, n + 1) = IF SkipsLf(body, e) THEN e + 2 ELSE e + 1
      BY <3>1, <3>3 DEF StartOf, LineBegin, Behind, e
    <3>5. CASE e < end
      <4>1. StartOf(n + 1) = LineBegin(body, n + 1)
        BY <3>2, <3>4, <3>5 DEF SkipsLf
      <4>. QED  BY <2>1, <4>1 DEF n
    <3>6. CASE e = end
      <4>1. /\ StartOf(n + 1) \in Int /\ LineBegin(body, n + 1) \in Int /\ end \in Int
            /\ end < StartOf(n + 1) /\ end < LineBegin(body, n + 1)
        BY <3>2, <3>4, <3>6
      <4>2. SubSeq(body, StartOf(n + 1), end) = <<>> /\ SubSeq(body, LineBegin(body, n + 1), end) = <<>>
        BY <4>1, SubSeqEmpty
      <4>. QED  BY <2>1, <4>2 DEF n
    <3>. QED  BY <3>2, <3>5, <3>6
  <2>. QED  BY <2>2, <2>3
<1>. QED  BY <1>1, <1>2, <1>3

---------------------------------------------------------------------------
(* The scanner's next line end is the body's. *)

LEMMA NoneAhead ==
  ASSUME NEW b \in Seq(Byte), NEW p \in Nat, NEW q \in Nat, p <= q,
         \A i \in p + 1 .. q : b[i] \notin {"CR", "LF"}
  PROVE  Ended(b, q) = Ended(b, p)
<1>1. \A j \in EndSet(b) : ~(p < j /\ j <= q)
  <2>1. SUFFICES ASSUME NEW j \in EndSet(b), p < j, j <= q PROVE FALSE
    OBVIOUS
  <2>2. j \in p + 1 .. q
    BY <2>1, EndSetFacts
  <2>. QED  BY <2>2 DEF EndSet
<1>2. EndSet(b) \in SUBSET (Nat \ {0})
  BY EndSetFacts
<1>. QED  BY <1>1, <1>2, CountSame DEF Ended

LEMMA NextEnd ==
  ASSUME NEW b \in Seq(Byte), NEW p \in Nat, NEW t \in Nat, p < t, t <= Len(b),
         b[t] \in {"CR", "LF"}, \A i \in p + 1 .. t - 1 : b[i] \notin {"CR", "LF"},
         LineBegin(b, Ended(b, p) + 1) <= p + 1
  PROVE  /\ Ended(b, t - 1) = Ended(b, p) /\ Ended(b, t) = Ended(b, p) + 1
         /\ LineEnd(b, Ended(b, p) + 1) = t
         /\ LineBegin(b, Ended(b, p) + 2) = Behind(b, t)
<1>. DEFINE n == Ended(b, p)
<1>1. n \in Nat /\ t - 1 \in Nat /\ p <= t - 1 /\ (t - 1) + 1 = t
  BY EndSetFacts
<1>2. Ended(b, t - 1) = n
  BY <1>1, NoneAhead
<1>3. t \in EndSet(b)
  <2>1. t \in 1 .. Len(b)
    OBVIOUS
  <2>2. SUFFICES ASSUME b[t] = "LF", t > 1, b[t - 1] = "CR" PROVE FALSE
    BY <2>1 DEF EndSet
  <2>3. t - 1 = p
    <3>1. t - 1 \notin p + 1 .. t - 1
      BY <2>2
    <3>. QED  BY <1>1, <3>1
  <2>4. p \in EndSet(b)
    BY <2>2, <2>3 DEF EndSet
  <2>5. LineEnd(b, n) = p /\ n # 0
    <3>1. EndSet(b) \in SUBSET (Nat \ {0}) /\ 0 \in Nat /\ 0 < p
      BY <2>2, <2>3, EndSetFacts
    <3>2. Nth(EndSet(b), Count(EndSet(b), p)) = p
      BY <2>4, <3>1, NthOfMember
    <3>3. Count(EndSet(b), 0) < Count(EndSet(b), p)
      BY <2>4, <3>1, CountMember
    <3>. QED  BY <1>1, <3>2, <3>3, EndSetFacts DEF LineEnd, Ended
  <2>6. SkipsLf(b, p)
    BY <2>2, <2>3 DEF SkipsLf
  <2>7. LineBegin(b, n + 1) = p + 2
    <3>1. n + 1 # 1 /\ (n + 1) - 1 = n
      BY <1>1, <2>5
    <3>. QED  BY <2>5, <2>6, <3>1 DEF LineBegin, Behind
  <2>. QED  BY <2>7
<1>4. Ended(b, t) = n + 1
  <2>1. EndSet(b) \in SUBSET (Nat \ {0})
    BY EndSetFacts
  <2>2. Count(EndSet(b), (t - 1) + 1) = IF (t - 1) + 1 \in EndSet(b) THEN Count(EndSet(b), t - 1) + 1
                                        ELSE Count(EndSet(b), t - 1)
    BY <1>1, <2>1, CountNext
  <2>. QED  BY <1>1, <1>2, <1>3, <2>2 DEF Ended
<1>5. LineEnd(b, n + 1) = t
  BY <1>3, <1>4, EndSetFacts, NthOfMember DEF LineEnd, Ended
<1>6. LineBegin(b, n + 2) = Behind(b, t)
  <2>1. n + 2 # 1 /\ (n + 2) - 1 = n + 1
    BY <1>1
  <2>. QED  BY <1>5, <2>1 DEF LineBegin
<1>. QED  BY <1>2, <1>4, <1>5, <1>6

(* The line feed behind a carriage return ends nothing.                    *)
LEMMA LfEndsNothing ==
  ASSUME NEW b \in Seq(Byte), NEW p \in Nat \ {0}, SkipsLf(b, p)
  PROVE  Ended(b, p + 1) = Ended(b, p)
<1>1. p + 1 \notin EndSet(b)
  <2>1. p + 1 > 1 /\ (p + 1) - 1 = p /\ b[p + 1] = "LF" /\ b[p] = "CR"
    BY DEF SkipsLf
  <2>. QED  BY <2>1 DEF EndSet
<1>2. EndSet(b) \in SUBSET (Nat \ {0})
  BY EndSetFacts
<1>. QED  BY <1>1, <1>2, CountNext DEF Ended

(* A line that has grown too long stays too long.                          *)
LEMMA LongLine ==
  ASSUME NEW b \in Seq(Byte), NEW p \in Nat, NEW q \in Nat, p <= q, q <= Len(b),
         LineBegin(b, Ended(b, p) + 1) + MaxLine <= p
  PROVE  /\ Ended(b, p) \in Nat /\ Ended(b, q) \in Nat
         /\ Ended(b, p) < Ended(b, q) => Len(AllLines(b)[Ended(b, p) + 1]) > MaxLine
         /\ ~(Ended(b, p) < Ended(b, q)) => Ended(b, q) = Ended(b, p)
<1>. DEFINE n == Ended(b, p)
<1>1. n \in Nat /\ Ended(b, q) \in Nat /\ n <= Ended(b, q) /\ MaxLine \in Nat
  BY EndSetFacts, EndedGrows, SseAssumption
<1>2. ASSUME n < Ended(b, q)
      PROVE  Len(AllLines(b)[n + 1]) > MaxLine
  <2>. DEFINE lo == LineBegin(b, n + 1) hi == LineEnd(b, n + 1)
  <2>1. n + 1 \in n + 1 .. Ended(b, q) /\ n + 1 \in 1 .. Ended(b, q) /\ n + 1 \in 1 .. n + 1
    BY <1>1, <1>2
  <2>2. p < hi /\ hi \in Nat /\ hi <= Len(b)
    BY <2>1, LineEndsBehind, LineEndFacts
  <2>3. lo \in Nat \ {0} /\ lo + MaxLine <= p
    BY <2>1, LineBeginFacts
  <2>4. AllLines(b)[n + 1] = SubSeq(b, lo, hi - 1)
    BY <2>1, AllLinesFacts
  <2>. HIDE DEF lo, hi, n
  <2>5. lo \in Int /\ hi - 1 \in Int /\ lo <= hi - 1 /\ \A i \in lo .. hi - 1 : i \in 1 .. Len(b)
    BY <1>1, <2>2, <2>3
  <2>6. Len(SubSeq(b, lo, hi - 1)) = (hi - 1) - lo + 1
    BY <2>5, SubSeqProperties, ElementOfSeq
  <2>. QED  BY <1>1, <2>2, <2>3, <2>4, <2>6
<1>. QED  BY <1>1, <1>2

---------------------------------------------------------------------------
(* Types. *)

EventRecord == [type : Seq(Byte) \cup {<<"message">>}, data : Seq(Byte), id : Seq(Byte)]

Types ==
  /\ TypeOK /\ cursor \in Nat /\ end \in Nat
  /\ state = "bom" => bom_matched < 3
  /\ Dead => cursor = end
  /\ events \in Seq(EventRecord)

LEMMA FieldsTyped ==
  ASSUME Types, NEW line \in Seq(Byte), NEW t, ProcessLine(line, t)
  PROVE  /\ data' \in Seq(Byte) /\ Len(data') <= MaxData
         /\ event_type' \in Seq(Byte) /\ Len(event_type') <= MaxType
         /\ id' \in Seq(Byte) /\ Len(id') <= MaxId
         /\ events' \in Seq(EventRecord)
         /\ Die("failed") \/ Die("aborted") \/ PastLine(t)
<1>. DEFINE v == Value(line)
<1>1. /\ v \in Seq(Byte) /\ <<"LF">> \in Seq(Byte) /\ <<>> \in Seq(Byte) /\ Len(<<>>) = 0
      /\ Len(<<"LF">>) = 1
  <2>1. "LF" \in Byte
    BY DEF Byte
  <2>2. <<"LF">> \in Seq(Byte) /\ Len(<<"LF">>) = 1
    BY <2>1
  <2>3. <<>> \in Seq(Byte) /\ Len(<<>>) = 0
    BY EmptySeq
  <2>4. v \in Seq(Byte)
    BY ValueTyped
  <2>. QED  BY <2>2, <2>3, <2>4
<1>2. /\ data \in Seq(Byte) /\ Len(data) <= MaxData /\ event_type \in Seq(Byte)
      /\ Len(event_type) <= MaxType /\ id \in Seq(Byte) /\ Len(id) <= MaxId
      /\ events \in Seq(EventRecord) /\ MaxData \in Nat /\ MaxType \in Nat /\ MaxId \in Nat
  BY SseAssumption DEF Types, TypeOK
<1>. HIDE DEF v
<1>3. CASE line = <<>> /\ DispatchEvent(t)
  <2>1. CASE data = <<>>
    BY <1>1, <1>2, <1>3, <2>1 DEF DispatchEvent
  <2>2. CASE data # <<>>
    <3>. DEFINE d == SubSeq(data, 1, Len(data) - 1)
                e == [type |-> IF event_type = <<>> THEN <<"message">> ELSE event_type,
                      data |-> d, id |-> id]
    <3>1. d \in Seq(Byte)
      <4>1. 1 \in Int /\ Len(data) - 1 \in Int /\ \A i \in 1 .. Len(data) - 1 : i \in 1 .. Len(data)
        BY <1>2
      <4>. QED  BY <1>2, <4>1, SubSeqProperties, ElementOfSeq
    <3>. HIDE DEF d
    <3>2. e \in EventRecord
      BY <1>2, <3>1 DEF EventRecord
    <3>3. events' = Append(events, e)
      BY <1>3, <2>2 DEF DispatchEvent, d
    <3>. HIDE DEF e
    <3>4. events' \in Seq(EventRecord)
      BY <1>2, <3>2, <3>3
    <3>5. CASE Die("aborted")
      BY <1>2, <3>4, <3>5 DEF Die, fields
    <3>6. CASE data' = <<>> /\ event_type' = <<>> /\ UNCHANGED id /\ PastLine(t)
      BY <1>1, <1>2, <3>4, <3>6
    <3>. QED  BY <1>3, <2>2, <3>5, <3>6 DEF DispatchEvent
  <2>. QED  BY <2>1, <2>2
<1>4. CASE UNCHANGED <<fields, events>> /\ PastLine(t)
  BY <1>2, <1>4 DEF fields
<1>5. CASE ProcessField(Name(line), v, t)
  <2>1. CASE UNCHANGED fields /\ UNCHANGED events /\ (Die("failed") \/ PastLine(t))
    BY <1>2, <2>1 DEF fields
  <2>2. CASE /\ Len(data) + Len(v) + 1 <= MaxData /\ data' = data \o v \o <<"LF">>
             /\ UNCHANGED <<event_type, id, events>> /\ PastLine(t)
    <3>1. data \o v \in Seq(Byte) /\ Len(data \o v) = Len(data) + Len(v)
      BY <1>1, <1>2, ConcatProperties
    <3>2. data' \in Seq(Byte) /\ Len(data') = Len(data \o v) + 1
      BY <1>1, <2>2, <3>1, ConcatProperties
    <3>. QED  BY <1>2, <2>2, <3>1, <3>2
  <2>3. CASE /\ Len(v) <= MaxType /\ event_type' = v /\ UNCHANGED <<data, id, events>>
             /\ PastLine(t)
    BY <1>1, <1>2, <2>3
  <2>4. CASE Len(v) <= MaxId /\ id' = v /\ UNCHANGED <<data, event_type, events>> /\ PastLine(t)
    BY <1>1, <1>2, <2>4
  <2>5. Len(v) \in Nat /\ Len(data) \in Nat
    BY <1>1, <1>2
  <2>. DEFINE n == Name(line)
  <2>6. UNCHANGED events
    BY <1>5 DEF ProcessField
  <2>7. Die("failed") => UNCHANGED fields
    BY DEF Die
  <2>. HIDE DEF n
  <2>8. CASE n = <<"data">>
    <3>1. IF Len(data) + Len(v) + 1 > MaxData THEN Die("failed")
          ELSE data' = data \o v \o <<"LF">> /\ UNCHANGED <<event_type, id>> /\ PastLine(t)
      BY <1>5, <2>8 DEF ProcessField, n
    <3>2. Len(data) + Len(v) + 1 > MaxData \/ Len(data) + Len(v) + 1 <= MaxData
      BY <1>2, <2>5
    <3>. QED  BY <2>1, <2>2, <2>6, <2>7, <3>1, <3>2
  <2>9. CASE n = <<"event">>
    <3>1. IF Len(v) > MaxType THEN Die("failed")
          ELSE event_type' = v /\ UNCHANGED <<data, id>> /\ PastLine(t)
      BY <1>5, <2>9 DEF ProcessField, n
    <3>2. Len(v) > MaxType \/ Len(v) <= MaxType
      BY <1>2, <2>5
    <3>. QED  BY <2>1, <2>3, <2>6, <2>7, <3>1, <3>2
  <2>10. CASE n = <<"id">> /\ ~Has(v, "NUL")
    <3>1. IF Len(v) > MaxId THEN Die("failed")
          ELSE id' = v /\ UNCHANGED <<data, event_type>> /\ PastLine(t)
      BY <1>5, <2>10 DEF ProcessField, n
    <3>2. Len(v) > MaxId \/ Len(v) <= MaxId
      BY <1>2, <2>5
    <3>. QED  BY <2>1, <2>4, <2>6, <2>7, <3>1, <3>2
  <2>11. CASE n # <<"data">> /\ n # <<"event">> /\ ~(n = <<"id">> /\ ~Has(v, "NUL"))
    <3>1. UNCHANGED fields /\ PastLine(t)
      BY <1>5, <2>11 DEF ProcessField, n
    <3>. QED  BY <2>1, <2>6, <3>1
  <2>. QED  BY <2>8, <2>9, <2>10, <2>11
<1>. QED  BY <1>3, <1>4, <1>5 DEF ProcessLine, v

LEMMA TerminatorFacts ==
  ASSUME Types, Terminators # {}
  PROVE  /\ NextTerminator \in cursor + 1 .. end /\ NextTerminator \in Nat
         /\ body[NextTerminator] \in {"CR", "LF"}
         /\ \A i \in cursor + 1 .. NextTerminator - 1 : body[i] \notin {"CR", "LF"}
<1>1. cursor \in Nat /\ end \in Nat
  BY DEF Types
<1>2. Terminators \in SUBSET Nat
  BY <1>1 DEF Terminators
<1>3. \E i \in Terminators : \A j \in Terminators : i <= j
  BY <1>2, LeastElement
<1>. DEFINE t == NextTerminator
<1>4. t \in Terminators /\ \A j \in Terminators : t <= j
  BY <1>3, Zenon DEF NextTerminator
<1>. HIDE DEF t
<1>5. t \in cursor + 1 .. end /\ t \in Nat /\ body[t] \in {"CR", "LF"}
  BY <1>1, <1>4 DEF Terminators, IsTerminator
<1>6. ASSUME NEW i \in cursor + 1 .. t - 1, body[i] \in {"CR", "LF"}
      PROVE  FALSE
  <2>1. i \in cursor + 1 .. end /\ ~(t <= i)
    BY <1>1, <1>5
  <2>2. i \in Terminators
    BY <1>6, <2>1 DEF Terminators, IsTerminator
  <2>. QED  BY <1>4, <2>1, <2>2
<1>. QED  BY <1>5, <1>6 DEF t

LEMMA RestTyped ==
  ASSUME Types, NEW t \in cursor .. end
  PROVE  /\ Rest(t) \in Seq(Byte) /\ SubSeq(body, cursor + 1, t) \in Seq(Byte)
<1>1. /\ cursor \in Nat /\ end \in Nat /\ end <= Len(body) /\ body \in Seq(Byte)
      /\ carry \in Seq(Byte)
  BY DEF Types, TypeOK
<1>2. /\ cursor + 1 \in Int /\ t \in Int
      /\ \A i \in cursor + 1 .. t : i \in 1 .. Len(body)
  BY <1>1
<1>3. SubSeq(body, cursor + 1, t) \in Seq(Byte)
  BY <1>1, <1>2, SubSeqProperties, ElementOfSeq
<1>. QED  BY <1>1, <1>3, ConcatProperties DEF Rest

(* What a line does to the parser, apart from its fields.                  *)
LEMMA LineTyped ==
  ASSUME Types, state = "line", NEW t \in cursor + 1 .. end, UNCHANGED <<body, abort_at, end>>,
         Die("failed") \/ Die("aborted") \/ PastLine(t),
         data' \in Seq(Byte), Len(data') <= MaxData,
         event_type' \in Seq(Byte), Len(event_type') <= MaxType,
         id' \in Seq(Byte), Len(id') <= MaxId, events' \in Seq(EventRecord)
  PROVE  Types'
<1>1. \A i \in DOMAIN events' : DOMAIN events'[i] = {"type", "data", "id"}
  <2>1. \A i \in DOMAIN events' : events'[i] \in EventRecord
    OBVIOUS
  <2>2. \A e \in EventRecord : DOMAIN e = {"type", "data", "id"}
    BY DEF EventRecord
  <2>. QED  BY <2>1, <2>2
<1>2. CASE Die("failed") \/ Die("aborted")
  BY <1>1, <1>2 DEF Types, TypeOK, Die, Dead, lineVars
<1>3. CASE PastLine(t)
  <2>1. carry' = <<>> /\ UNCHANGED <<state, bom_matched>>
    BY <1>3 DEF PastLine
  <2>2. pending_lf_skip' \in BOOLEAN
    BY <1>3, Zenon DEF PastLine
  <2>3. cursor' \in Nat /\ 0 <= cursor' /\ cursor' <= end
    BY <1>3 DEF PastLine, Types
  <2>4. carry' \in Seq(Byte) /\ Len(carry') <= MaxLine
    <3>1. Len(<<>>) = 0 /\ <<>> \in Seq(Byte) /\ MaxLine \in Nat
      BY EmptySeq, SseAssumption
    <3>. QED  BY <2>1, <3>1
  <2>. QED  BY <1>1, <2>1, <2>2, <2>3, <2>4 DEF Types, TypeOK, Dead
<1>. QED  BY <1>2, <1>3

LEMMA ScanLineTypes == ASSUME Types, ScanLine PROVE Types'
<1>1. /\ cursor \in Nat /\ end \in Nat /\ cursor <= end /\ cursor # end /\ state = "line"
      /\ UNCHANGED <<body, abort_at, end>>
  BY DEF Types, TypeOK, ScanLine, Idle
<1>2. /\ data \in Seq(Byte) /\ Len(data) <= MaxData /\ event_type \in Seq(Byte)
      /\ Len(event_type) <= MaxType /\ id \in Seq(Byte) /\ Len(id) <= MaxId
      /\ events \in Seq(EventRecord)
  BY DEF Types, TypeOK
<1>3. CASE Die("failed") /\ UNCHANGED events
  <2>1. UNCHANGED fields
    BY <1>3 DEF Die
  <2>2. end \in cursor + 1 .. end
    BY <1>1
  <2>. QED  BY <1>1, <1>2, <1>3, <2>1, <2>2, LineTyped DEF fields
<1>4. CASE /\ UNCHANGED <<events, state, bom_matched, pending_lf_skip, fields>>
           /\ ~(Len(Rest(end)) > MaxLine) /\ carry' = Rest(end) /\ cursor' = end
  <2>1. end \in cursor .. end
    BY <1>1
  <2>2. Rest(end) \in Seq(Byte)
    BY <2>1, RestTyped
  <2>3. Len(Rest(end)) \in Nat /\ MaxLine \in Nat
    BY <2>2, SseAssumption
  <2>4. carry' \in Seq(Byte) /\ Len(carry') <= MaxLine
    BY <1>4, <2>2, <2>3
  <2>5. cursor' = end' /\ cursor' \in Nat /\ 0 <= cursor'
    BY <1>1, <1>4
  <2>. QED  BY <1>1, <1>4, <2>4, <2>5 DEF Types, TypeOK, Dead, fields
<1>5. ASSUME Terminators # {}, ProcessLine(Rest(NextTerminator - 1), NextTerminator)
      PROVE  Types'
  <2>. DEFINE t == NextTerminator
  <2>1. t \in cursor + 1 .. end
    BY <1>5, TerminatorFacts
  <2>2. t - 1 \in cursor .. end
    BY <1>1, <2>1
  <2>3. Rest(t - 1) \in Seq(Byte)
    BY <2>2, RestTyped
  <2>. HIDE DEF t
  <2>4. ProcessLine(Rest(t - 1), t)
    BY <1>5 DEF t
  <2>5. /\ data' \in Seq(Byte) /\ Len(data') <= MaxData
        /\ event_type' \in Seq(Byte) /\ Len(event_type') <= MaxType
        /\ id' \in Seq(Byte) /\ Len(id') <= MaxId
        /\ events' \in Seq(EventRecord)
        /\ Die("failed") \/ Die("aborted") \/ PastLine(t)
    BY <2>3, <2>4, FieldsTyped
  <2>. QED  BY <1>1, <2>1, <2>5, LineTyped
<1>. QED  BY <1>3, <1>4, <1>5 DEF ScanLine

LEMMA StepTypes == ASSUME Types, [Next]_vars PROVE Types'
<1>1. /\ cursor \in Nat /\ end \in Nat /\ cursor <= end /\ body \in Seq(Byte) /\ end <= Len(body)
      /\ Len(body) \in Nat
  BY DEF Types, TypeOK
<1>2. ASSUME NEW n \in 1 .. Len(body) - end, Feed(n)
      PROVE  Types'
  <2>1. /\ cursor = end /\ end' = end + n
        /\ UNCHANGED <<body, abort_at, state, bom_matched, carry, fields, events>>
    BY <1>2 DEF Feed, Idle
  <2>2. pending_lf_skip' \in BOOLEAN
    <3>1. pending_lf_skip' = FALSE \/ pending_lf_skip' = pending_lf_skip
      BY <1>2, Zenon DEF Feed
    <3>. QED  BY <3>1, Zenon DEF Types, TypeOK
  <2>3. cursor' = end \/ cursor' = end + 1 \/ cursor' = end + n
    BY <1>2 DEF Feed
  <2>4. n \in Nat /\ 1 <= n /\ end + n <= Len(body)
    BY <1>1
  <2>5. end' \in Nat /\ end' <= Len(body) /\ cursor' \in Nat /\ cursor' <= end' /\ 0 <= cursor'
    <3>1. end' = end + n
      BY <2>1
    <3>. QED  BY <1>1, <2>3, <2>4, <3>1
  <2>6. Dead' => cursor' = end'
    BY <1>2, <2>1 DEF Dead, Feed
  <2>. QED  BY <2>1, <2>2, <2>5, <2>6 DEF Types, TypeOK, fields
<1>3. CASE BomStep
  <2>1. UNCHANGED <<body, abort_at, end, events, pending_lf_skip, fields>> /\ cursor # end
        /\ bom_matched \in 0 .. 2 /\ state = "bom"
    BY <1>3 DEF BomStep, Idle, Die, lineVars, Types, TypeOK
  <2>2. cursor + 1 \in Nat /\ 0 <= cursor + 1 /\ cursor + 1 <= end /\ 0 <= end /\ MaxLine \in Nat
    BY <1>1, <2>1, SseAssumption
  <2>3. CASE Die("failed")
    BY <2>1, <2>2, <2>3 DEF Types, TypeOK, Die, Dead, lineVars, fields
  <2>4. CASE /\ bom_matched' = bom_matched + 1 /\ cursor' = cursor + 1
             /\ state' = (IF bom_matched + 1 = 3 THEN "line" ELSE "bom") /\ UNCHANGED carry
    <3>1. bom_matched' \in 0 .. 3 /\ (state' = "bom" => bom_matched' < 3)
          /\ state' \in {"bom", "line"}
      BY <2>1, <2>4
    <3>. QED  BY <2>1, <2>2, <2>4, <3>1 DEF Types, TypeOK, Dead, fields
  <2>5. CASE /\ ~(bom_matched > MaxLine) /\ carry' = SubSeq(bom_bytes, 1, bom_matched)
             /\ bom_matched' = 0 /\ state' = "line" /\ UNCHANGED cursor
    <3>1. carry' \in Seq(Byte) /\ Len(carry') = bom_matched
      <4>1. \A i \in 1 .. 3 : bom_bytes[i] \in {"ef", "bb", "bf"}
        BY DEF bom_bytes
      <4>2. {"ef", "bb", "bf"} \subseteq Byte
        BY DEF Byte
      <4>3. /\ 1 \in Int /\ bom_matched \in Int /\ \A i \in 1 .. bom_matched : i \in 1 .. 3
            /\ (IF 1 <= bom_matched THEN bom_matched - 1 + 1 ELSE 0) = bom_matched
        BY <2>1
      <4>4. \A i \in 1 .. bom_matched : bom_bytes[i] \in Byte
        BY <4>1, <4>2, <4>3
      <4>. QED  BY <2>5, <4>3, <4>4, SubSeqProperties
    <3>2. Len(carry') <= MaxLine /\ bom_matched' \in 0 .. 3
      BY <2>1, <2>2, <2>5, <3>1
    <3>. QED  BY <2>1, <2>2, <2>5, <3>1, <3>2 DEF Types, TypeOK, Dead, fields
  <2>. QED  BY <1>3, <2>3, <2>4, <2>5 DEF BomStep
<1>4. CASE ScanLine
  BY <1>4, ScanLineTypes
<1>5. CASE Reset
  <2>1. /\ cursor' = 0 /\ end' = 0 /\ state' = "bom" /\ bom_matched' = 0
        /\ pending_lf_skip' = FALSE /\ carry' = <<>> /\ data' = <<>> /\ event_type' = <<>>
        /\ id' = <<>> /\ events' = <<>> /\ UNCHANGED <<body, abort_at>>
    BY <1>5 DEF Reset
  <2>2. /\ <<>> \in Seq(Byte) /\ <<>> \in Seq(EventRecord) /\ Len(<<>>) = 0 /\ DOMAIN <<>> = {}
        /\ MaxLine \in Nat /\ MaxData \in Nat /\ MaxType \in Nat /\ MaxId \in Nat
    BY EmptySeq, SseAssumption
  <2>3. pending_lf_skip' \in BOOLEAN
    BY <2>1, Zenon
  <2>. QED  BY <1>1, <2>1, <2>2, <2>3 DEF Types, TypeOK, Dead
<1>6. CASE UNCHANGED vars
  BY <1>6 DEF vars, lineVars, fields, Types, TypeOK, Dead
<1>. QED  BY <1>2, <1>3, <1>4, <1>5, <1>6 DEF Next

LEMMA InitTypes == ASSUME Init PROVE Types
<1>1. /\ <<>> \in Seq(Byte) /\ <<>> \in Seq(EventRecord) /\ Len(<<>>) = 0 /\ DOMAIN <<>> = {}
      /\ MaxLine \in Nat /\ MaxData \in Nat /\ MaxType \in Nat /\ MaxId \in Nat
  BY EmptySeq, SseAssumption
<1>2. body \in Seq(Byte) /\ abort_at \in Nat /\ Len(body) \in Nat
  BY SseAssumption DEF Init
<1>3. pending_lf_skip \in BOOLEAN
  BY Zenon DEF Init
<1>. QED  BY <1>1, <1>2, <1>3 DEF Init, Types, TypeOK, Dead

(* Every variable of sse.c's parser holds a value of its type, and no      *)
(* buffer grows past its limit, however the body is cut.                   *)
THEOREM TypeCorrect == Spec => []TypeOK
<1>1. Init => Types
  BY InitTypes
<1>2. Types /\ [Next]_vars => Types'
  BY StepTypes
<1>3. Types => TypeOK
  BY DEF Types
<1>. QED  BY <1>1, <1>2, <1>3, PTL DEF Spec

---------------------------------------------------------------------------
(* What the parser holds is what the lines before its cursor left behind. *)

Sound(ls, k) == ~TooMuch(ls, k) /\ ~Refused(ls, k)

Follows(ls, n) ==
  /\ data = DataAfter(ls, n) /\ event_type = TypeAfter(ls, n) /\ id = IdAfter(ls, n)
  /\ events = EventsOf(ls, n)

(* One line's fields, as far as the parser's next state depends on them.   *)
LEMMA BlankLine ==
  ASSUME Types, NEW ls, NEW n \in Nat, Follows(ls, n), ls[n + 1] = <<>>
  PROVE  /\ Dispatches(ls, n + 1) <=> data # <<>>
         /\ ~TooMuch(ls, n + 1)
         /\ EventAt(ls, n + 1) =
              [type |-> IF event_type = <<>> THEN <<"message">> ELSE event_type,
               data |-> SubSeq(data, 1, Len(data) - 1), id |-> id]
         /\ DataAfter(ls, n + 1) = <<>> /\ TypeAfter(ls, n + 1) = <<>> /\ IdAfter(ls, n + 1) = id
<1>1. \A name : ~IsField(ls[n + 1], name)
  BY DEF IsField
<1>2. Contribution(ls, n + 1) = <<>>
  BY <1>1 DEF Contribution
<1>3. Pending(ls, n + 1) = data
  <2>1. Pending(ls, n + 1) = data \o <<>>
    BY <1>2, PendingFacts DEF Follows
  <2>2. data \in Seq(Byte)
    BY DEF Types, TypeOK
  <2>. QED  BY <2>1, <2>2, ConcatEmptySeq
<1>4. Dispatches(ls, n + 1) <=> data # <<>>
  BY <1>3 DEF Dispatches
<1>5. ~TooMuch(ls, n + 1)
  <2>1. Len(<<>>) = 0 /\ MaxLine \in Nat
    BY SseAssumption
  <2>. QED  BY <1>1, <2>1 DEF TooMuch
<1>6. EventAt(ls, n + 1) =
        [type |-> IF event_type = <<>> THEN <<"message">> ELSE event_type,
         data |-> SubSeq(data, 1, Len(data) - 1), id |-> id]
  <2>1. event_type = TypeAfter(ls, n) /\ id = IdAfter(ls, n)
    BY DEF Follows
  <2>. QED  BY <1>3, <2>1, PendingFacts, Zenon
<1>7. DataAfter(ls, n + 1) = <<>> /\ TypeAfter(ls, n + 1) = <<>>
  BY DataAfterStep, TypeAfterStep
<1>8. IdAfter(ls, n + 1) = id
  <2>1. IdAfter(ls, n + 1) = IdAfter(ls, n)
    BY <1>1, IdAfterStep
  <2>. QED  BY <2>1 DEF Follows
<1>. QED  BY <1>4, <1>5, <1>6, <1>7, <1>8

LEMMA FieldLine ==
  ASSUME Types, NEW ls, NEW n \in Nat, Follows(ls, n), ls[n + 1] # <<>>, ls[n + 1] \in Seq(Byte),
         Len(ls[n + 1]) <= MaxLine
  PROVE  LET name == Name(ls[n + 1])  v == Value(ls[n + 1]) IN
         /\ ~Dispatches(ls, n + 1) /\ ~Refused(ls, n + 1) /\ EventsOf(ls, n + 1) = events
         /\ TooMuch(ls, n + 1) <=>
              \/ name = <<"data">> /\ Len(data) + Len(v) + 1 > MaxData
              \/ name = <<"event">> /\ Len(v) > MaxType
              \/ name = <<"id">> /\ ~Has(v, "NUL") /\ Len(v) > MaxId
         /\ DataAfter(ls, n + 1) = IF name = <<"data">> THEN data \o v \o <<"LF">> ELSE data
         /\ TypeAfter(ls, n + 1) = IF name = <<"event">> THEN v ELSE event_type
         /\ IdAfter(ls, n + 1) = IF name = <<"id">> /\ ~Has(v, "NUL") THEN v ELSE id
<1>. DEFINE line == ls[n + 1]
            name == Name(line)
            v == Value(line)
<1>1. /\ IsField(line, <<"data">>) <=> name = <<"data">>
      /\ IsField(line, <<"event">>) <=> name = <<"event">>
      /\ IsField(line, <<"id">>) <=> name = <<"id">>
  BY DEF IsField
<1>2. v \in Seq(Byte) /\ data \in Seq(Byte) /\ MaxLine \in Nat /\ Len(line) \in Nat
  BY ValueTyped, SseAssumption DEF Types, TypeOK
<1>3. ~Dispatches(ls, n + 1) /\ ~Refused(ls, n + 1) /\ EventsOf(ls, n + 1) = events
  <2>1. ~Dispatches(ls, n + 1)
    BY DEF Dispatches
  <2>2. EventsOf(ls, n + 1) = EventsOf(ls, n)
    BY <2>1, EventsOfStep
  <2>. QED  BY <2>1, <2>2 DEF Refused, Follows
<1>4. Contribution(ls, n + 1) = IF name = <<"data">> THEN v \o <<"LF">> ELSE <<>>
  BY <1>1 DEF Contribution
<1>. HIDE DEF v, name
<1>5. /\ data \o Contribution(ls, n + 1) = IF name = <<"data">> THEN data \o v \o <<"LF">> ELSE data
      /\ name = <<"data">> => Len(data \o Contribution(ls, n + 1)) = Len(data) + Len(v) + 1
  <2>1. <<"LF">> \in Seq(Byte) /\ Len(<<"LF">>) = 1
    <3>1. "LF" \in Byte
      BY DEF Byte
    <3>. QED  BY <3>1
  <2>2. CASE name = <<"data">>
    <3>1. (data \o v) \o <<"LF">> = data \o (v \o <<"LF">>)
      BY <1>2, <2>1, ConcatAssociative
    <3>2. data \o v \in Seq(Byte) /\ Len(data \o v) = Len(data) + Len(v)
      BY <1>2, ConcatProperties
    <3>3. Len((data \o v) \o <<"LF">>) = Len(data \o v) + 1
      BY <2>1, <3>2, ConcatProperties
    <3>. QED  BY <1>4, <2>2, <3>1, <3>2, <3>3
  <2>3. CASE name # <<"data">>
    BY <1>2, <1>4, <2>3, ConcatEmptySeq
  <2>. QED  BY <2>2, <2>3
<1>6. Pending(ls, n + 1) = data \o Contribution(ls, n + 1)
  BY PendingFacts DEF Follows
<1>7. TooMuch(ls, n + 1) <=>
              \/ name = <<"data">> /\ Len(data) + Len(v) + 1 > MaxData
              \/ name = <<"event">> /\ Len(v) > MaxType
              \/ name = <<"id">> /\ ~Has(v, "NUL") /\ Len(v) > MaxId
  <2>1. ~(Len(line) > MaxLine)
    BY <1>2
  <2>2. /\ name = <<"data">> => Len(Pending(ls, n + 1)) = Len(data) + Len(v) + 1
    BY <1>5, <1>6
  <2>. QED  BY <1>1, <2>1, <2>2 DEF TooMuch, v
<1>8. DataAfter(ls, n + 1) = IF name = <<"data">> THEN data \o v \o <<"LF">> ELSE data
  <2>1. DataAfter(ls, n + 1) = data \o Contribution(ls, n + 1)
    BY DataAfterStep DEF Follows
  <2>. QED  BY <1>5, <2>1
<1>9. TypeAfter(ls, n + 1) = IF name = <<"event">> THEN v ELSE event_type
  BY <1>1, TypeAfterStep DEF Follows, v
<1>10. IdAfter(ls, n + 1) = IF name = <<"id">> /\ ~Has(v, "NUL") THEN v ELSE id
  BY <1>1, IdAfterStep DEF Follows, v
<1>. QED  BY <1>3, <1>7, <1>8, <1>9, <1>10 DEF name, v

(* A line is decoded, or kills the parser because it has to.               *)
LEMMA LineDecoded ==
  ASSUME Types, NEW ls, NEW n \in Nat, Follows(ls, n), ls[n + 1] \in Seq(Byte),
         Len(ls[n + 1]) <= MaxLine, NEW t, ProcessLine(ls[n + 1], t)
  PROVE  /\ events' = EventsOf(ls, n + 1)
         /\ \/ Die("failed") /\ TooMuch(ls, n + 1)
            \/ Die("aborted") /\ Refused(ls, n + 1)
            \/ /\ PastLine(t) /\ Sound(ls, n + 1)
               /\ data' = DataAfter(ls, n + 1) /\ event_type' = TypeAfter(ls, n + 1)
               /\ id' = IdAfter(ls, n + 1)
<1>. DEFINE line == ls[n + 1]
<1>1. CASE line = <<>>
  <2>. DEFINE e == [type |-> IF event_type = <<>> THEN <<"message">> ELSE event_type,
                    data |-> SubSeq(data, 1, Len(data) - 1), id |-> id]
              c == Cardinality(Blanks(ls, n))
  <2>1. /\ Dispatches(ls, n + 1) <=> data # <<>>
        /\ ~TooMuch(ls, n + 1) /\ EventAt(ls, n + 1) = e
        /\ DataAfter(ls, n + 1) = <<>> /\ TypeAfter(ls, n + 1) = <<>> /\ IdAfter(ls, n + 1) = id
    BY <1>1, BlankLine
  <2>2. DispatchEvent(t)
    BY <1>1 DEF ProcessLine
  <2>3. CASE data = <<>>
    <3>1. ~Dispatches(ls, n + 1) /\ EventsOf(ls, n + 1) = events
      BY <2>1, <2>3, EventsOfStep DEF Follows
    <3>2. events' = events /\ PastLine(t) /\ event_type' = <<>> /\ data' = data /\ id' = id
      BY <2>2, <2>3 DEF DispatchEvent
    <3>3. Sound(ls, n + 1)
      BY <2>1, <3>1 DEF Sound, Refused
    <3>. QED  BY <2>1, <2>3, <3>1, <3>2, <3>3
  <2>4. CASE data # <<>>
    <3>1. /\ c \in Nat /\ DOMAIN EventsOf(ls, n) = 1 .. c
          /\ Cardinality(Blanks(ls, n + 1)) = c + 1
          /\ EventsOf(ls, n + 1) =
               [i \in 1 .. c + 1 |-> IF i = c + 1 THEN EventAt(ls, n + 1) ELSE EventsOf(ls, n)[i]]
      BY <2>1, <2>4, EventsOfStep
    <3>. HIDE DEF c, e
    <3>2. Len(events) = c /\ events \in Seq(EventRecord)
      BY <3>1 DEF Follows, Types
    <3>3. EventsOf(ls, n + 1) = [i \in 1 .. c + 1 |-> IF i = c + 1 THEN e ELSE events[i]]
      <4>1. EventsOf(ls, n) = events
        BY DEF Follows
      <4>. QED  BY <2>1, <3>1, <4>1, Zenon
    <3>4. events' = Append(events, e)
      BY <2>2, <2>4 DEF DispatchEvent, e
    <3>5. Append(events, e) = [i \in 1 .. c + 1 |-> IF i = c + 1 THEN e ELSE events[i]]
      <4>. DEFINE S == EventRecord \cup {e}
                  f == Append(events, e)
      <4>1. events \in Seq(S) /\ e \in S
        BY <3>2, SeqMonotonic
      <4>2. /\ f \in Seq(S) /\ Len(f) = Len(events) + 1 /\ f[Len(events) + 1] = e
            /\ \A i \in 1 .. Len(events) : f[i] = events[i]
        BY <4>1, AppendProperties
      <4>. HIDE DEF f, S
      <4>3. f = [i \in 1 .. Len(f) |-> f[i]]
        BY <4>2
      <4>4. \A i \in 1 .. c + 1 : i = c + 1 \/ i \in 1 .. c
        BY <3>1
      <4>5. f = [i \in 1 .. c + 1 |-> IF i = c + 1 THEN e ELSE events[i]]
        BY <3>2, <4>2, <4>3, <4>4
      <4>. QED  BY <4>5 DEF f
    <3>6. events' = EventsOf(ls, n + 1)
      BY <3>3, <3>4, <3>5
    <3>7. Refused(ls, n + 1) <=> Len(events) + 1 = abort_at
      BY <2>1, <2>4, <3>1, <3>2 DEF Refused
    <3>8. CASE Len(events) + 1 = abort_at
      <4>1. Die("aborted")
        BY <2>2, <2>4, <3>8 DEF DispatchEvent
      <4>. QED  BY <3>6, <3>7, <3>8, <4>1
    <3>9. CASE Len(events) + 1 # abort_at
      <4>1. data' = <<>> /\ event_type' = <<>> /\ UNCHANGED id /\ PastLine(t)
        BY <2>2, <2>4, <3>9 DEF DispatchEvent
      <4>2. Sound(ls, n + 1)
        BY <2>1, <3>7, <3>9 DEF Sound
      <4>. QED  BY <2>1, <3>6, <4>1, <4>2
    <3>. QED  BY <3>8, <3>9
  <2>. QED  BY <2>3, <2>4
<1>2. CASE line # <<>>
  <2>. DEFINE name == Name(line)
              v == Value(line)
  <2>1. /\ ~Dispatches(ls, n + 1) /\ ~Refused(ls, n + 1) /\ EventsOf(ls, n + 1) = events
        /\ TooMuch(ls, n + 1) <=>
              \/ name = <<"data">> /\ Len(data) + Len(v) + 1 > MaxData
              \/ name = <<"event">> /\ Len(v) > MaxType
              \/ name = <<"id">> /\ ~Has(v, "NUL") /\ Len(v) > MaxId
        /\ DataAfter(ls, n + 1) = IF name = <<"data">> THEN data \o v \o <<"LF">> ELSE data
        /\ TypeAfter(ls, n + 1) = IF name = <<"event">> THEN v ELSE event_type
        /\ IdAfter(ls, n + 1) = IF name = <<"id">> /\ ~Has(v, "NUL") THEN v ELSE id
    BY <1>2, FieldLine
  <2>2. /\ <<"data">> # <<"event">> /\ <<"data">> # <<"id">> /\ <<"event">> # <<"id">>
        /\ <<>> # <<"data">> /\ <<>> # <<"event">> /\ <<>> # <<"id">>
    OBVIOUS
  <2>3. CASE Head(line) = ":" /\ UNCHANGED <<fields, events>> /\ PastLine(t)
    <3>1. name = <<>>
      BY <1>2, <2>3, CommentHasNoName
    <3>. HIDE DEF name, v
    <3>2. UNCHANGED <<data, event_type, id, events>> /\ PastLine(t)
      BY <2>3 DEF fields
    <3>. QED  BY <2>1, <2>2, <3>1, <3>2 DEF Sound
  <2>4. CASE ProcessField(name, v, t)
    <3>. HIDE DEF name, v
    <3>1. CASE name = <<"data">>
      BY <2>1, <2>2, <2>4, <3>1 DEF ProcessField, Sound
    <3>2. CASE name = <<"event">>
      BY <2>1, <2>2, <2>4, <3>2 DEF ProcessField, Sound
    <3>3. CASE name = <<"id">> /\ ~Has(v, "NUL")
      BY <2>1, <2>2, <2>4, <3>3 DEF ProcessField, Sound
    <3>4. CASE /\ name # <<"data">> /\ name # <<"event">>
               /\ ~(name = <<"id">> /\ ~Has(v, "NUL"))
      <4>1. UNCHANGED <<data, event_type, id, events>> /\ PastLine(t)
        BY <2>4, <3>4 DEF ProcessField, fields
      <4>. QED  BY <2>1, <3>4, <4>1 DEF Sound
    <3>. QED  BY <3>1, <3>2, <3>3, <3>4
  <2>. QED  BY <1>2, <2>3, <2>4 DEF ProcessLine
<1>. QED  BY <1>1, <1>2

---------------------------------------------------------------------------
(* The invariant. *)

(* In front of a dead parser is the line it died of, the first that is not *)
(* sound; it may not be complete if it is too long.                        *)
DiesRightly ==
  LET ls == AllLines(body)
      n  == Ended(body, end)
  IN  \E d \in 1 .. n + 1 :
        /\ \A k \in 1 .. d - 1 : Sound(ls, k)
        /\ d <= n => ~Sound(ls, d) /\ events = EventsOf(ls, d)
        /\ d = n + 1 => LineBegin(body, d) + MaxLine <= end /\ events = EventsOf(ls, n)

Alive ==
  /\ Follows(AllLines(body), Ended(body, cursor))
  /\ \A k \in 1 .. Ended(body, cursor) : Sound(AllLines(body), k)

InBom ==
  /\ cursor = bom_matched /\ carry = <<>> /\ pending_lf_skip = FALSE
  /\ \A i \in 1 .. bom_matched : body[i] = bom_bytes[i]

InLine ==
  LET lo == LineBegin(body, Ended(body, cursor) + 1)
  IN  /\ bom_matched = IF OpensWithBom(body) THEN 3 ELSE 0
      /\ carry = SubSeq(body, lo, cursor)
      /\ IF pending_lf_skip
         THEN cursor = end /\ cursor > 0 /\ body[cursor] = "CR" /\ lo = Behind(body, cursor)
         ELSE lo <= cursor + 1

Decoding ==
  /\ Dead => DiesRightly
  /\ ~Dead => Alive
  /\ state = "bom" => InBom
  /\ state = "line" => InLine
  /\ state # "bom" => Decided(body, end)

LEMMA DecidedGrows ==
  ASSUME NEW b, NEW p \in Nat, NEW q \in Nat, p <= q, Decided(b, p) PROVE Decided(b, q)
<1>1. CASE OpensWithBom(b) /\ p >= 3
  BY <1>1 DEF Decided
<1>2. ASSUME NEW m \in 0 .. 2, m + 1 <= p, b[m + 1] # bom_bytes[m + 1]
      PROVE  Decided(b, q)
  <2>1. m + 1 <= q
    BY <1>2
  <2>. QED  BY <1>2, <2>1 DEF Decided
<1>. QED  BY <1>1, <1>2 DEF Decided

(* A whole line is not sound, and its end is among the bytes given.        *)
LEMMA DiesOfLine ==
  ASSUME NEW n \in Nat, Ended(body, end') \in Nat, n + 1 <= Ended(body, end'),
         UNCHANGED <<body, abort_at>>,
         \A k \in 1 .. n : Sound(AllLines(body), k), ~Sound(AllLines(body), n + 1),
         events' = EventsOf(AllLines(body), n + 1)
  PROVE  DiesRightly'
<1>. DEFINE ls == AllLines(body)
            m == Ended(body, end')
<1>1. (\A k \in 1 .. n : Sound(ls, k)') /\ ~Sound(ls, n + 1)'
  BY DEF Sound, Refused
<1>2. n + 1 <= m /\ m \in Nat
  OBVIOUS
<1>. HIDE DEF m, ls
<1>3. n + 1 \in 1 .. m + 1 /\ (n + 1) - 1 = n /\ n + 1 # m + 1
  BY <1>2
<1>4. events' = EventsOf(ls, n + 1)
  BY DEF ls
<1>5. \E d \in 1 .. m + 1 :
        /\ \A k \in 1 .. d - 1 : Sound(ls, k)'
        /\ d <= m => ~Sound(ls, d)' /\ events' = EventsOf(ls, d)
        /\ d = m + 1 => LineBegin(body, d) + MaxLine <= end' /\ events' = EventsOf(ls, m)
  BY <1>1, <1>3, <1>4
<1>. QED  BY <1>5 DEF DiesRightly, m, ls

(* A line no longer fits in MaxLine at p, perhaps before its end is seen.  *)
LEMMA DiesOfLength ==
  ASSUME body \in Seq(Byte), NEW p \in Nat, end' \in Nat, p <= end', end' <= Len(body),
         UNCHANGED <<body, abort_at>>,
         \A k \in 1 .. Ended(body, p) : Sound(AllLines(body), k),
         LineBegin(body, Ended(body, p) + 1) + MaxLine <= p,
         events' = EventsOf(AllLines(body), Ended(body, p))
  PROVE  DiesRightly'
<1>. DEFINE ls == AllLines(body)
            m == Ended(body, p)
            n == Ended(body, end')
            lo == LineBegin(body, m + 1)
<1>1. /\ m \in Nat /\ n \in Nat
      /\ m < n => Len(ls[m + 1]) > MaxLine
      /\ ~(m < n) => n = m
  BY LongLine
<1>2. \A k \in 1 .. m : Sound(ls, k)'
  BY DEF Sound, Refused
<1>3. lo \in Nat
  <2>1. m + 1 \in 1 .. m + 1
    BY <1>1
  <2>. QED  BY <2>1, LineBeginFacts
<1>4. lo + MaxLine <= end' /\ MaxLine \in Nat
  <2>1. MaxLine \in Nat
    BY SseAssumption
  <2>. HIDE DEF lo
  <2>2. lo + MaxLine <= p
    BY DEF lo
  <2>. QED  BY <1>3, <2>1, <2>2
<1>5. CASE m < n
  <2>1. TooMuch(ls, m + 1) /\ ls[m + 1] # <<>>
    <3>1. Len(<<>>) = 0
      BY EmptySeq
    <3>. QED  BY <1>1, <1>4, <1>5, <3>1 DEF TooMuch
  <2>2. ~Sound(ls, m + 1)
    BY <2>1 DEF Sound
  <2>3. EventsOf(ls, m + 1) = EventsOf(ls, m)
    <3>1. ~Dispatches(ls, m + 1)
      BY <2>1 DEF Dispatches
    <3>. QED  BY <1>1, <3>1, EventsOfStep
  <2>4. events' = EventsOf(ls, m + 1) /\ m + 1 <= n
    BY <1>1, <1>5, <2>3
  <2>. QED  BY <1>1, <2>2, <2>4, DiesOfLine
<1>6. CASE n = m
  <2>1. events' = EventsOf(ls, n)
    BY <1>6
  <2>2. LineBegin(body, n + 1) + MaxLine <= end'
    BY <1>4, <1>6
  <2>. HIDE DEF m, n, ls, lo
  <2>3. n + 1 \in 1 .. n + 1 /\ (n + 1) - 1 = m /\ ~(n + 1 <= n)
    BY <1>1, <1>6
  <2>4. \E d \in 1 .. n + 1 :
          /\ \A k \in 1 .. d - 1 : Sound(ls, k)'
          /\ d <= n => ~Sound(ls, d)' /\ events' = EventsOf(ls, d)
          /\ d = n + 1 => LineBegin(body, d) + MaxLine <= end' /\ events' = EventsOf(ls, n)
    BY <1>2, <2>1, <2>2, <2>3
  <2>. QED  BY <2>4 DEF DiesRightly, n, ls
<1>. QED  BY <1>1, <1>5, <1>6

LEMMA NothingDecoded ==
  ASSUME body \in Seq(Byte), data = <<>>, event_type = <<>>, id = <<>>, events = <<>>, cursor = 0,
         bom_matched = 0, carry = <<>>, pending_lf_skip = FALSE, state = "bom"
  PROVE  Decoding
<1>1. Ended(body, cursor) = 0
  BY EndSetFacts
<1>2. Follows(AllLines(body), 0)
  <2>1. 0 \in Nat
    OBVIOUS
  <2>. QED  BY <2>1, DataAfterStep, TypeAfterStep, IdAfterStep, EventsOfNone DEF Follows
<1>3. Alive
  BY <1>1, <1>2 DEF Alive
<1>4. InBom
  BY DEF InBom
<1>. QED  BY <1>3, <1>4 DEF Decoding, Dead

LEMMA FeedDecodes ==
  ASSUME Types, Decoding, NEW n \in 1 .. Len(body) - end, Feed(n)
  PROVE  Decoding'
<1>. DEFINE ls == AllLines(body)
<1>1. /\ cursor = end /\ end \in Nat /\ body \in Seq(Byte) /\ Len(body) \in Nat /\ n \in Nat /\ 1 <= n
      /\ end' = end + n /\ end' \in Nat /\ end <= end' /\ end' <= Len(body) /\ end + 1 <= Len(body)
  BY DEF Feed, Idle, Types, TypeOK
<1>2. UNCHANGED <<body, abort_at, state, bom_matched, carry, data, event_type, id, events>>
  BY DEF Feed, fields
<1>3. state # "bom" => Decided(body, end')
  BY <1>1, DecidedGrows DEF Decoding
<1>4. CASE Dead
  <2>1. PICK d \in 1 .. Ended(body, end) + 1 :
          /\ \A k \in 1 .. d - 1 : Sound(ls, k)
          /\ d <= Ended(body, end) => ~Sound(ls, d) /\ events = EventsOf(ls, d)
          /\ d = Ended(body, end) + 1 =>
               LineBegin(body, d) + MaxLine <= end /\ events = EventsOf(ls, Ended(body, end))
    BY <1>4 DEF Decoding, DiesRightly
  <2>2. Ended(body, end) \in Nat /\ Ended(body, end') \in Nat /\ Ended(body, end) <= Ended(body, end')
    BY <1>1, EndSetFacts, EndedGrows
  <2>. HIDE DEF ls
  <2>3. d \in Nat /\ d - 1 \in Nat /\ (d - 1) + 1 = d
    BY <2>2
  <2>4. CASE d <= Ended(body, end)
    <3>1. (d - 1) + 1 <= Ended(body, end')
      BY <2>2, <2>3, <2>4
    <3>2. ~Sound(ls, (d - 1) + 1) /\ events' = EventsOf(ls, (d - 1) + 1)
      BY <1>2, <2>1, <2>3, <2>4
    <3>3. DiesRightly'
      BY <1>2, <2>1, <2>2, <2>3, <3>1, <3>2, DiesOfLine DEF ls
    <3>. QED  BY <1>2, <1>3, <1>4, <3>3 DEF Decoding, Dead
  <2>5. CASE d = Ended(body, end) + 1
    <3>1. \A k \in 1 .. Ended(body, end) : Sound(ls, k)
      BY <2>1, <2>2, <2>5
    <3>2. LineBegin(body, Ended(body, end) + 1) + MaxLine <= end /\ events' = EventsOf(ls, Ended(body, end))
      BY <1>2, <2>1, <2>5
    <3>3. DiesRightly'
      BY <1>1, <1>2, <3>1, <3>2, DiesOfLength DEF ls
    <3>. QED  BY <1>2, <1>3, <1>4, <3>3 DEF Decoding, Dead
  <2>. QED  BY <2>1, <2>2, <2>4, <2>5
<1>5. CASE ~Dead
  <2>1. pending_lf_skip' = FALSE
    BY <1>5 DEF Feed
  <2>2. ~Dead' /\ (state = "bom" \/ state = "line")
    BY <1>2, <1>5 DEF Dead, Types, TypeOK
  <2>3. CASE pending_lf_skip /\ body[end + 1] = "LF"
    <3>1. cursor' = end + 1
      BY <1>5, <2>3 DEF Feed
    <3>2. state = "line"
      BY <2>2, <2>3 DEF Decoding, InBom
    <3>3. /\ cursor > 0 /\ body[cursor] = "CR"
          /\ LineBegin(body, Ended(body, cursor) + 1) = Behind(body, cursor)
      BY <2>3, <3>2 DEF Decoding, InLine
    <3>4. SkipsLf(body, cursor) /\ cursor \in Nat \ {0}
      BY <1>1, <2>3, <3>3 DEF SkipsLf
    <3>5. Ended(body, cursor') = Ended(body, cursor)
      <4>1. Ended(body, cursor + 1) = Ended(body, cursor)
        BY <1>1, <3>4, LfEndsNothing
      <4>. QED  BY <1>1, <3>1, <4>1
    <3>. DEFINE lo == LineBegin(body, Ended(body, cursor) + 1)
    <3>6. lo = end + 2
      BY <1>1, <3>3, <3>4 DEF Behind
    <3>7. Alive'
      <4>1. Alive
        BY <1>5 DEF Decoding
      <4>. QED  BY <1>2, <3>5, <4>1 DEF Alive, Follows, Sound, Refused
    <3>8. carry = SubSeq(body, lo, cursor) /\ bom_matched = IF OpensWithBom(body) THEN 3 ELSE 0
      BY <3>2 DEF Decoding, InLine
    <3>9. lo = LineBegin(body, Ended(body, cursor)' + 1)
      BY <1>2, <3>5
    <3>. HIDE DEF lo
    <3>10. SubSeq(body, lo, cursor) = <<>> /\ SubSeq(body, lo, cursor') = <<>> /\ lo <= cursor' + 1
      <4>1. /\ lo \in Int /\ cursor \in Int /\ cursor' \in Int /\ cursor < lo /\ cursor' < lo
            /\ lo <= cursor' + 1
        BY <1>1, <3>1, <3>6
      <4>. QED  BY <4>1, SubSeqEmpty
    <3>11. InLine'
      BY <1>2, <2>1, <3>8, <3>9, <3>10 DEF InLine
    <3>. QED  BY <1>2, <1>3, <2>2, <3>2, <3>7, <3>11 DEF Decoding
  <2>4. CASE ~(pending_lf_skip /\ body[end + 1] = "LF")
    <3>1. cursor' = cursor
      BY <1>1, <1>5, <2>4 DEF Feed
    <3>2. Alive'
      <4>1. Alive
        BY <1>5 DEF Decoding
      <4>. QED  BY <1>2, <3>1, <4>1 DEF Alive, Follows, Sound, Refused
    <3>3. CASE state = "bom"
      <4>1. InBom'
        BY <1>2, <2>1, <3>1, <3>3 DEF Decoding, InBom
      <4>. QED  BY <1>2, <2>2, <3>2, <3>3, <4>1 DEF Decoding
    <3>4. CASE state = "line"
      <4>. DEFINE lo == LineBegin(body, Ended(body, cursor) + 1)
      <4>1. /\ bom_matched = IF OpensWithBom(body) THEN 3 ELSE 0
            /\ carry = SubSeq(body, lo, cursor)
            /\ IF pending_lf_skip
               THEN body[cursor] = "CR" /\ lo = Behind(body, cursor)
               ELSE lo <= cursor + 1
        BY <3>4 DEF Decoding, InLine
      <4>2. lo <= cursor + 1
        <5>1. CASE pending_lf_skip
          <6>1. ~SkipsLf(body, cursor)
            BY <1>1, <2>4, <5>1 DEF SkipsLf
          <6>. QED  BY <1>1, <4>1, <5>1, <6>1 DEF Behind
        <5>. QED  BY <4>1, <5>1
      <4>3. lo = LineBegin(body, Ended(body, cursor)' + 1)
        BY <1>2, <3>1
      <4>. HIDE DEF lo
      <4>4. InLine'
        BY <1>2, <2>1, <3>1, <4>1, <4>2, <4>3 DEF InLine
      <4>. QED  BY <1>2, <1>3, <2>2, <3>2, <3>4, <4>4 DEF Decoding
    <3>. QED  BY <2>2, <3>3, <3>4
  <2>. QED  BY <2>3, <2>4
<1>. QED  BY <1>4, <1>5

LEMMA BomDecodes == ASSUME Types, Decoding, BomStep PROVE Decoding'
<1>. DEFINE ls == AllLines(body)
            m == bom_matched
<1>1. /\ body \in Seq(Byte) /\ Len(body) \in Nat /\ end \in Nat /\ end <= Len(body)
      /\ cursor \in Nat /\ cursor <= end /\ cursor # end /\ state = "bom" /\ m \in 0 .. 2
      /\ MaxLine \in Nat
  BY SseAssumption DEF BomStep, Idle, Types, TypeOK
<1>2. /\ UNCHANGED <<body, abort_at, end, events, data, event_type, id>>
      /\ pending_lf_skip' = pending_lf_skip
  BY DEF BomStep, Die, fields, lineVars
<1>3. /\ cursor = m /\ carry = <<>> /\ pending_lf_skip = FALSE
      /\ \A i \in 1 .. m : body[i] = bom_bytes[i]
  BY <1>1 DEF Decoding, InBom
<1>4. Ended(body, cursor) = 0
  BY <1>1, <1>3, BomHasNoEnd
<1>5. Follows(ls, 0)
  BY <1>1, <1>4 DEF Decoding, Alive, Dead
<1>6. Follows(ls, 0)'
  BY <1>2, <1>5 DEF Follows
<1>7. m + 1 <= end /\ m + 1 \in Nat
  BY <1>1, <1>3
<1>8. CASE /\ body[m + 1] = bom_bytes[m + 1] /\ bom_matched' = m + 1 /\ cursor' = m + 1
           /\ state' = (IF m + 1 = 3 THEN "line" ELSE "bom") /\ UNCHANGED carry
  <2>1. \A i \in 1 .. m + 1 : body[i] = bom_bytes[i]
    <3>1. 1 .. m + 1 = (1 .. m) \cup {m + 1}
      BY <1>1
    <3>. QED  BY <1>3, <1>8, <3>1
  <2>2. Ended(body, m + 1) = 0
    <3>1. m + 1 \in 0 .. 3
      BY <1>1
    <3>. QED  BY <1>1, <2>1, <3>1, BomHasNoEnd
  <2>3. Alive'
    <3>1. Ended(body, cursor)' = 0
      BY <1>2, <1>8, <2>2
    <3>. QED  BY <1>2, <1>6, <3>1 DEF Alive
  <2>4. CASE m + 1 # 3
    <3>1. InBom'
      BY <1>2, <1>3, <1>8, <2>1, <2>4 DEF InBom
    <3>. QED  BY <1>8, <2>3, <2>4, <3>1 DEF Decoding, Dead
  <2>5. CASE m + 1 = 3
    <3>1. OpensWithBom(body) /\ end >= 3
      <4>1. /\ Len(body) >= 3 /\ 1 \in Int /\ 3 \in Int /\ end >= 3
            /\ \A i \in 1 .. 3 : i \in 1 .. Len(body)
        BY <1>1, <1>7, <2>5
      <4>2. /\ SubSeq(body, 1, 3) \in Seq(Byte) /\ Len(SubSeq(body, 1, 3)) = 3
            /\ \A i \in 1 .. 3 : SubSeq(body, 1, 3)[i] = body[i]
        <5>1. /\ SubSeq(body, 1, 3) \in Seq(Byte)
              /\ Len(SubSeq(body, 1, 3)) = IF 1 <= 3 THEN 3 - 1 + 1 ELSE 0
              /\ \A i \in 1 .. 3 - 1 + 1 : SubSeq(body, 1, 3)[i] = body[1 + i - 1]
          BY <1>1, <4>1, SubSeqProperties, ElementOfSeq
        <5>. QED  BY <5>1
      <4>3. bom_bytes \in Seq(Byte) /\ Len(bom_bytes) = 3
        <5>1. "ef" \in Byte /\ "bb" \in Byte /\ "bf" \in Byte
          BY DEF Byte
        <5>. QED  BY <5>1 DEF bom_bytes
      <4>4. SubSeq(body, 1, 3) = bom_bytes
        BY <2>1, <2>5, <4>2, <4>3, SeqEqual
      <4>. QED  BY <4>1, <4>4 DEF OpensWithBom
    <3>2. LineBegin(body, Ended(body, cursor)' + 1) = 4 /\ cursor' = 3
      BY <1>2, <1>8, <2>2, <2>5, <3>1 DEF LineBegin
    <3>3. SubSeq(body, 4, 3) = <<>>
      BY SubSeqEmpty
    <3>4. InLine'
      BY <1>2, <1>3, <1>8, <2>5, <3>1, <3>2, <3>3 DEF InLine
    <3>5. Decided(body, end)'
      BY <1>2, <3>1 DEF Decided
    <3>. QED  BY <1>8, <2>3, <2>5, <3>4, <3>5 DEF Decoding, Dead
  <2>. QED  BY <2>4, <2>5
<1>9. ASSUME body[m + 1] # bom_bytes[m + 1]
      PROVE  ~OpensWithBom(body) /\ Decided(body, end) /\ LineBegin(body, 1) = 1
  <2>1. m + 1 \in 1 .. 3
    BY <1>1
  <2>2. ~OpensWithBom(body)
    BY <1>1, <1>9, <2>1, BomGiven
  <2>. QED  BY <1>1, <1>7, <1>9, <2>2 DEF Decided, LineBegin
<1>10. CASE body[m + 1] # bom_bytes[m + 1] /\ m > MaxLine /\ Die("failed")
  <2>1. LineBegin(body, Ended(body, cursor) + 1) + MaxLine <= cursor
    BY <1>1, <1>3, <1>4, <1>9, <1>10
  <2>2. /\ \A k \in 1 .. Ended(body, cursor) : Sound(ls, k)
        /\ events' = EventsOf(ls, Ended(body, cursor))
    BY <1>2, <1>4, <1>5 DEF Follows
  <2>3. end' \in Nat /\ cursor <= end' /\ end' <= Len(body)
    BY <1>1, <1>2
  <2>4. DiesRightly'
    BY <1>1, <1>2, <2>1, <2>2, <2>3, DiesOfLength
  <2>. QED  BY <1>2, <1>9, <1>10, <2>4 DEF Decoding, Dead, Die
<1>11. CASE /\ body[m + 1] # bom_bytes[m + 1] /\ carry' = SubSeq(bom_bytes, 1, m)
            /\ bom_matched' = 0 /\ state' = "line" /\ UNCHANGED cursor
  <2>1. Alive'
    <3>1. Ended(body, cursor)' = 0
      BY <1>2, <1>4, <1>11
    <3>. QED  BY <1>2, <1>6, <3>1 DEF Alive
  <2>2. SubSeq(bom_bytes, 1, m) = SubSeq(body, 1, m)
    <3>1. \A i \in 1 .. m : i \in 1 .. Len(body)
      BY <1>1, <1>7
    <3>2. \A i \in 1 .. m : body[i] \in Byte /\ bom_bytes[i] \in Byte
      BY <1>1, <1>3, <3>1, ElementOfSeq
    <3>3. 1 \in Int /\ m \in Int
      BY <1>1
    <3>4. /\ SubSeq(body, 1, m) \in Seq(Byte) /\ SubSeq(bom_bytes, 1, m) \in Seq(Byte)
          /\ Len(SubSeq(body, 1, m)) = IF 1 <= m THEN m - 1 + 1 ELSE 0
          /\ Len(SubSeq(bom_bytes, 1, m)) = IF 1 <= m THEN m - 1 + 1 ELSE 0
          /\ \A i \in 1 .. m - 1 + 1 : SubSeq(body, 1, m)[i] = body[1 + i - 1]
          /\ \A i \in 1 .. m - 1 + 1 : SubSeq(bom_bytes, 1, m)[i] = bom_bytes[1 + i - 1]
      BY <3>2, <3>3, SubSeqProperties
    <3>. DEFINE s == SubSeq(body, 1, m)
                u == SubSeq(bom_bytes, 1, m)
    <3>. HIDE DEF s, u
    <3>5. Len(s) = m /\ Len(u) = m /\ \A i \in 1 .. m : s[i] = u[i]
      BY <1>1, <1>3, <3>4 DEF s, u
    <3>6. s \in Seq(Byte) /\ u \in Seq(Byte)
      BY <3>4 DEF s, u
    <3>7. s = u
      BY <3>5, <3>6, SeqEqual
    <3>. QED  BY <3>7 DEF s, u
  <2>3. LineBegin(body, Ended(body, cursor)' + 1) = 1 /\ 1 <= cursor + 1
    BY <1>1, <1>2, <1>4, <1>9, <1>11
  <2>4. InLine'
    BY <1>2, <1>3, <1>9, <1>11, <2>2, <2>3 DEF InLine
  <2>5. Decided(body, end)'
    BY <1>2, <1>9, <1>11
  <2>. QED  BY <1>11, <2>1, <2>4, <2>5 DEF Decoding, Dead
<1>. QED  BY <1>3, <1>8, <1>10, <1>11 DEF BomStep

LEMMA ScanDecodes == ASSUME Types, Decoding, ScanLine PROVE Decoding'
<1>. DEFINE ls == AllLines(body)
            n == Ended(body, cursor)
            lo == LineBegin(body, n + 1)
<1>1. /\ body \in Seq(Byte) /\ Len(body) \in Nat /\ end \in Nat /\ end <= Len(body)
      /\ cursor \in Nat /\ cursor < end /\ state = "line" /\ MaxLine \in Nat
      /\ UNCHANGED <<body, abort_at, end>>
  BY SseAssumption DEF ScanLine, Idle, Types, TypeOK
<1>2. /\ Follows(ls, n) /\ \A k \in 1 .. n : Sound(ls, k)
  BY <1>1 DEF Decoding, Alive, Dead
<1>3. /\ bom_matched = (IF OpensWithBom(body) THEN 3 ELSE 0) /\ carry = SubSeq(body, lo, cursor)
      /\ pending_lf_skip = FALSE /\ lo <= cursor + 1 /\ Decided(body, end)
  <2>1. pending_lf_skip => cursor = end
    BY <1>1 DEF Decoding, InLine
  <2>2. pending_lf_skip = FALSE
    BY <1>1, <2>1 DEF Types, TypeOK
  <2>. QED  BY <1>1, <2>2 DEF Decoding, InLine
<1>4. n \in Nat /\ lo \in Nat \ {0}
  <2>1. n \in Nat
    BY <1>1, EndSetFacts
  <2>2. n + 1 \in 1 .. n + 1
    BY <2>1
  <2>. QED  BY <1>1, <2>1, <2>2, LineBeginFacts
<1>5. ASSUME NEW t \in cursor .. end
      PROVE  Rest(t) = SubSeq(body, lo, t) /\ Len(Rest(t)) = t - lo + 1
  <2>1. lo \in 1 .. Len(body) + 1 /\ cursor \in lo - 1 .. Len(body) /\ t \in cursor .. Len(body)
    BY <1>1, <1>3, <1>4
  <2>2. SubSeq(body, lo, cursor) \o SubSeq(body, cursor + 1, t) = SubSeq(body, lo, t)
    <3>. HIDE DEF lo
    <3>. QED  BY <1>1, <2>1, ConcatAdjacentSubSeq
  <2>3. Len(SubSeq(body, lo, t)) = t - lo + 1
    <3>. HIDE DEF lo
    <3>1. /\ lo \in Int /\ t \in Int /\ \A i \in lo .. t : i \in 1 .. Len(body)
      BY <1>1, <1>4
    <3>2. Len(SubSeq(body, lo, t)) = IF lo <= t THEN t - lo + 1 ELSE 0
      BY <1>1, <3>1, SubSeqProperties, ElementOfSeq
    <3>3. lo <= t \/ t - lo + 1 = 0
      BY <1>1, <1>3, <1>4
    <3>. QED  BY <3>1, <3>2, <3>3
  <2>. QED  BY <1>3, <2>2, <2>3 DEF Rest
<1>6. CASE Terminators = {}
  <2>1. end \in cursor .. end /\ cursor <= end
    BY <1>1
  <2>2. Ended(body, end) = n
    <3>1. \A i \in cursor + 1 .. end : body[i] \notin {"CR", "LF"}
      BY <1>6 DEF Terminators, IsTerminator
    <3>. QED  BY <1>1, <2>1, <3>1, NoneAhead
  <2>3. events' = events
    BY <1>6 DEF ScanLine
  <2>4. CASE Len(Rest(end)) > MaxLine
    <3>1. Die("failed")
      BY <1>6, <2>4 DEF ScanLine
    <3>2. lo + MaxLine <= end
      <4>1. Len(Rest(end)) = end - lo + 1
        BY <1>5, <2>1
      <4>. HIDE DEF lo
      <4>. QED  BY <1>1, <1>4, <2>4, <4>1
    <3>3. DiesRightly'
      <4>1. /\ \A k \in 1 .. Ended(body, end) : Sound(AllLines(body), k)
            /\ LineBegin(body, Ended(body, end) + 1) + MaxLine <= end
            /\ events' = EventsOf(AllLines(body), Ended(body, end))
        BY <1>2, <2>2, <2>3, <3>2 DEF Follows
      <4>2. end' \in Nat /\ end <= end' /\ end' <= Len(body)
        BY <1>1
      <4>. QED  BY <1>1, <4>1, <4>2, DiesOfLength
    <3>. QED  BY <1>1, <1>3, <3>1, <3>3 DEF Decoding, Dead, Die
  <2>5. CASE ~(Len(Rest(end)) > MaxLine)
    <3>1. /\ carry' = Rest(end) /\ cursor' = end
          /\ UNCHANGED <<state, bom_matched, pending_lf_skip, fields>>
      BY <1>6, <2>5 DEF ScanLine
    <3>2. Ended(body, cursor)' = n
      BY <1>1, <2>2, <3>1
    <3>3. Alive'
      BY <1>1, <1>2, <2>3, <3>1, <3>2 DEF Alive, Follows, fields, Sound, Refused
    <3>4. carry' = SubSeq(body, lo, cursor')
      BY <1>5, <2>1, <3>1
    <3>5. lo <= cursor' + 1
      <4>. HIDE DEF lo
      <4>. QED  BY <1>1, <1>3, <1>4, <3>1
    <3>6. InLine'
      BY <1>1, <1>3, <3>1, <3>2, <3>4, <3>5 DEF InLine
    <3>. QED  BY <1>1, <1>3, <3>1, <3>3, <3>6 DEF Decoding, Dead
  <2>. QED  BY <2>4, <2>5
<1>7. CASE Terminators # {}
  <2>. DEFINE t == NextTerminator
  <2>1. /\ t \in cursor + 1 .. end /\ t \in Nat /\ body[t] \in {"CR", "LF"}
        /\ \A i \in cursor + 1 .. t - 1 : body[i] \notin {"CR", "LF"}
    BY <1>7, TerminatorFacts
  <2>2. /\ Len(Rest(t - 1)) > MaxLine => Die("failed") /\ UNCHANGED events
        /\ ~(Len(Rest(t - 1)) > MaxLine) => ProcessLine(Rest(t - 1), t)
    BY <1>7 DEF ScanLine
  <2>. HIDE DEF t
  <2>3. /\ cursor < t /\ t <= end /\ t <= Len(body) /\ t - 1 \in Nat /\ t - 1 \in cursor .. end
        /\ t - 1 <= end
    BY <1>1, <2>1
  <2>4. /\ Ended(body, t - 1) = n /\ Ended(body, t) = n + 1 /\ LineEnd(body, n + 1) = t
        /\ LineBegin(body, n + 2) = Behind(body, t)
    BY <1>1, <1>3, <2>1, <2>3, NextEnd
  <2>5. Rest(t - 1) = SubSeq(body, lo, t - 1) /\ Len(Rest(t - 1)) = t - lo
    <3>1. Rest(t - 1) = SubSeq(body, lo, t - 1) /\ Len(Rest(t - 1)) = (t - 1) - lo + 1
      BY <1>5, <2>3
    <3>. HIDE DEF lo
    <3>. QED  BY <1>4, <2>1, <3>1
  <2>6. ls[n + 1] = Rest(t - 1) /\ Rest(t - 1) \in Seq(Byte)
    <3>1. n + 1 \in 1 .. Ended(body, t)
      BY <1>4, <2>4
    <3>2. ls[n + 1] = SubSeq(body, lo, t - 1)
      <4>1. ls[n + 1] = SubSeq(body, LineBegin(body, n + 1), LineEnd(body, n + 1) - 1)
        BY <1>1, <2>1, <2>3, <3>1, AllLinesFacts
      <4>. QED  BY <2>4, <4>1
    <3>. QED  BY <2>3, <2>5, <3>2, RestTyped
  <2>7. /\ n + 1 <= Ended(body, end') /\ Ended(body, end') \in Nat
    <3>1. Ended(body, t) <= Ended(body, end) /\ Ended(body, end) \in Nat
      BY <1>1, <2>1, <2>3, EndedGrows, EndSetFacts
    <3>. QED  BY <1>1, <2>4, <3>1
  <2>8. CASE Len(Rest(t - 1)) > MaxLine
    <3>1. Die("failed") /\ events' = events
      BY <2>2, <2>8
    <3>2. lo + MaxLine <= t - 1
      <4>. HIDE DEF lo
      <4>. QED  BY <1>1, <1>4, <2>1, <2>5, <2>8
    <3>3. DiesRightly'
      <4>1. /\ \A k \in 1 .. Ended(body, t - 1) : Sound(AllLines(body), k)
            /\ LineBegin(body, Ended(body, t - 1) + 1) + MaxLine <= t - 1
            /\ events' = EventsOf(AllLines(body), Ended(body, t - 1))
        BY <1>2, <2>4, <3>1, <3>2 DEF Follows
      <4>2. end' \in Nat /\ t - 1 <= end' /\ end' <= Len(body)
        BY <1>1, <2>3
      <4>. QED  BY <1>1, <2>3, <4>1, <4>2, DiesOfLength
    <3>. QED  BY <1>1, <1>3, <3>1, <3>3 DEF Decoding, Dead, Die
  <2>9. CASE ~(Len(Rest(t - 1)) > MaxLine)
    <3>1. ProcessLine(ls[n + 1], t) /\ Len(ls[n + 1]) <= MaxLine
      <4>1. Len(Rest(t - 1)) \in Nat
        BY <2>6
      <4>. QED  BY <1>1, <2>2, <2>6, <2>9, <4>1
    <3>2. /\ events' = EventsOf(ls, n + 1)
          /\ \/ Die("failed") /\ TooMuch(ls, n + 1)
             \/ Die("aborted") /\ Refused(ls, n + 1)
             \/ /\ PastLine(t) /\ Sound(ls, n + 1)
                /\ data' = DataAfter(ls, n + 1) /\ event_type' = TypeAfter(ls, n + 1)
                /\ id' = IdAfter(ls, n + 1)
      <4>. HIDE DEF ls, n
      <4>. QED  BY <1>2, <1>4, <2>6, <3>1, LineDecoded
    <3>3. CASE (Die("failed") /\ TooMuch(ls, n + 1)) \/ (Die("aborted") /\ Refused(ls, n + 1))
      <4>1. ~Sound(ls, n + 1)
        BY <3>3 DEF Sound
      <4>2. DiesRightly'
        BY <1>1, <1>2, <1>4, <2>7, <3>2, <4>1, DiesOfLine
      <4>. QED  BY <1>1, <1>3, <3>3, <4>2 DEF Decoding, Dead, Die
    <3>4. CASE /\ PastLine(t) /\ Sound(ls, n + 1)
               /\ data' = DataAfter(ls, n + 1) /\ event_type' = TypeAfter(ls, n + 1)
               /\ id' = IdAfter(ls, n + 1)
      <4>1. /\ carry' = <<>> /\ UNCHANGED <<state, bom_matched>>
            /\ cursor' = IF body[t] = "CR" /\ t < end /\ body[t + 1] = "LF" THEN t + 1 ELSE t
            /\ pending_lf_skip' = (body[t] = "CR" /\ t = end)
        BY <3>4 DEF PastLine
      <4>2. Ended(body, cursor') = n + 1
        <5>1. CASE cursor' = t
          BY <2>4, <5>1
        <5>2. CASE cursor' # t
          <6>1. SkipsLf(body, t) /\ t \in Nat \ {0} /\ cursor' = t + 1
            BY <1>1, <2>1, <2>3, <4>1, <5>2 DEF SkipsLf
          <6>. QED  BY <1>1, <2>4, <6>1, LfEndsNothing
        <5>. QED  BY <5>1, <5>2
      <4>. DEFINE lo2 == LineBegin(body, n + 2)
      <4>3. lo2 = Behind(body, t)
        BY <2>4
      <4>4. /\ cursor' \in Nat /\ cursor' < lo2 /\ lo2 \in Nat
            /\ IF pending_lf_skip' THEN cursor' = end /\ cursor' > 0 /\ body[cursor'] = "CR"
                                        /\ lo2 = Behind(body, cursor')
               ELSE lo2 <= cursor' + 1
        <5>. HIDE DEF lo2
        <5>1. CASE body[t] = "CR" /\ t < end /\ body[t + 1] = "LF"
          <6>1. SkipsLf(body, t)
            BY <1>1, <2>1, <5>1 DEF SkipsLf
          <6>2. lo2 = t + 2
            BY <4>3, <6>1 DEF Behind
          <6>3. cursor' = t + 1
            BY <4>1, <5>1
          <6>4. ~pending_lf_skip'
            <7>1. t # end
              BY <1>1, <2>1, <5>1
            <7>. QED  BY <4>1, <7>1
          <6>. QED  BY <2>1, <6>2, <6>3, <6>4
        <5>2. CASE ~(body[t] = "CR" /\ t < end /\ body[t + 1] = "LF")
          <6>1. cursor' = t
            BY <4>1, <5>2
          <6>2. lo2 = t + 1 \/ lo2 = t + 2
            BY <4>3 DEF Behind
          <6>3. CASE body[t] = "CR" /\ t = end
            <7>1. pending_lf_skip'
              BY <4>1, <6>3
            <7>2. cursor' \in Nat /\ cursor' < lo2 /\ lo2 \in Nat /\ cursor' > 0 /\ cursor' = end
              BY <1>1, <2>1, <2>3, <6>1, <6>2, <6>3
            <7>. QED  BY <4>3, <6>1, <6>3, <7>1, <7>2
          <6>4. CASE ~(body[t] = "CR" /\ t = end)
            <7>1. ~pending_lf_skip'
              BY <4>1, <6>4
            <7>2. ~SkipsLf(body, t)
              BY <1>1, <2>1, <2>3, <5>2, <6>4 DEF SkipsLf
            <7>3. lo2 = t + 1
              BY <4>3, <7>2 DEF Behind
            <7>. QED  BY <2>1, <6>1, <7>1, <7>3
          <6>. QED  BY <6>3, <6>4
        <5>. QED  BY <5>1, <5>2
      <4>5. SubSeq(body, lo2, cursor') = <<>>
        <5>. HIDE DEF lo2
        <5>1. lo2 \in Int /\ cursor' \in Int
          BY <4>4
        <5>. QED  BY <4>4, <5>1, SubSeqEmpty
      <4>6. lo2 = LineBegin(body, Ended(body, cursor)' + 1)
        <5>1. Ended(body, cursor)' + 1 = n + 2
          <6>. HIDE DEF n
          <6>. QED  BY <1>1, <1>4, <4>2
        <5>. QED  BY <5>1
      <4>. HIDE DEF lo2
      <4>7. InLine'
        BY <1>1, <1>3, <4>1, <4>4, <4>5, <4>6 DEF InLine
      <4>8. Alive'
        <5>. DEFINE k == n + 1
        <5>1. Ended(body', cursor') = k /\ body' = body /\ abort_at' = abort_at
          BY <1>1, <4>2
        <5>2. ASSUME NEW j \in 1 .. k
              PROVE  ~TooMuch(ls, j) /\ ~(Dispatches(ls, j) /\ Cardinality(Blanks(ls, j)) = abort_at)
          <6>. HIDE DEF n
          <6>1. j \in 1 .. n \/ j = n + 1
            BY <1>4
          <6>2. Sound(ls, j)
            BY <1>2, <3>4, <6>1
          <6>. QED  BY <6>2 DEF Sound, Refused
        <5>3. /\ data' = DataAfter(ls, k) /\ event_type' = TypeAfter(ls, k) /\ id' = IdAfter(ls, k)
              /\ events' = EventsOf(ls, k)
          BY <3>2, <3>4
        <5>. HIDE DEF k, n
        <5>. QED  BY <5>1, <5>2, <5>3 DEF Alive, Follows, Sound, Refused
      <4>. QED  BY <1>1, <1>3, <4>1, <4>7, <4>8 DEF Decoding, Dead
    <3>. QED  BY <3>2, <3>3, <3>4
  <2>. QED  BY <2>8, <2>9
<1>. QED  BY <1>6, <1>7

LEMMA StepDecodes == ASSUME Types, Decoding, [Next]_vars PROVE Decoding'
<1>1. CASE \E n \in 1 .. Len(body) - end : Feed(n)
  BY <1>1, FeedDecodes
<1>2. CASE BomStep
  BY <1>2, BomDecodes
<1>3. CASE ScanLine
  BY <1>3, ScanDecodes
<1>4. CASE Reset
  <2>1. /\ body' \in Seq(Byte) /\ data' = <<>> /\ event_type' = <<>> /\ id' = <<>> /\ events' = <<>>
        /\ cursor' = 0 /\ bom_matched' = 0 /\ carry' = <<>> /\ pending_lf_skip' = FALSE
        /\ state' = "bom"
    BY <1>4 DEF Reset, Types, TypeOK
  <2>2. Ended(body', cursor') = 0
    BY <2>1, EndSetFacts
  <2>3. /\ data' = DataAfter(AllLines(body'), 0) /\ event_type' = TypeAfter(AllLines(body'), 0)
        /\ id' = IdAfter(AllLines(body'), 0) /\ events' = EventsOf(AllLines(body'), 0)
    <3>1. 0 \in Nat
      OBVIOUS
    <3>. QED  BY <2>1, <3>1, DataAfterStep, TypeAfterStep, IdAfterStep, EventsOfNone
  <2>4. Alive'
    BY <2>2, <2>3 DEF Alive, Follows
  <2>. QED  BY <2>1, <2>4 DEF Decoding, InBom, Dead
<1>5. CASE UNCHANGED vars
  BY <1>5 DEF vars, lineVars, fields, Decoding, Dead, DiesRightly, Alive, InBom, InLine, Follows,
              Sound, Refused
<1>. QED  BY <1>1, <1>2, <1>3, <1>4, <1>5 DEF Next

---------------------------------------------------------------------------
(* What the invariant says between two chunks. *)

LEMMA DeathLineIs ==
  ASSUME NEW ls, NEW n \in Nat, DOMAIN ls = 1 .. n, Len(ls) = n, NEW d \in 1 .. n + 1,
         \A k \in 1 .. d - 1 : Sound(ls, k), d <= n => ~Sound(ls, d)
  PROVE  DeathLine(ls) = d
<1>. DEFINE S == {k \in DOMAIN ls : TooMuch(ls, k) \/ Refused(ls, k)} \cup {Len(ls) + 1}
<1>1. d \in S
  <2>1. d \in 1 .. n \/ d = n + 1
    OBVIOUS
  <2>. QED  BY <2>1 DEF Sound
<1>2. ASSUME NEW j \in S PROVE j \in Nat /\ d <= j
  <2>1. CASE j = n + 1
    BY <2>1
  <2>2. CASE j # n + 1
    <3>1. j \in 1 .. n /\ ~Sound(ls, j)
      BY <2>2 DEF Sound
    <3>2. j \notin 1 .. d - 1
      BY <3>1
    <3>. QED  BY <3>1, <3>2
  <2>. QED  BY <2>1, <2>2
<1>3. DeathLine(ls) = CHOOSE k \in S : \A j \in S : k <= j
  BY DEF DeathLine
<1>. HIDE DEF S
<1>4. \A k \in S : (\A j \in S : k <= j) <=> k = d
  BY <1>1, <1>2
<1>. QED  BY <1>1, <1>3, <1>4

(* Between two chunks, an undecided parser has seen a part of the mark.    *)
LEMMA IdleInBom ==
  ASSUME Types, Decoding, Idle, state = "bom"
  PROVE  /\ MaybeBom /\ LastLine = <<>> /\ NumLines = 0 /\ ~HasBom /\ end = bom_matched
<1>1. /\ body \in Seq(Byte) /\ end \in Nat /\ end <= Len(body) /\ end = bom_matched
      /\ bom_matched \in 0 .. 2 /\ \A i \in 1 .. end : body[i] = bom_bytes[i]
  BY DEF Types, TypeOK, Idle, Decoding, InBom
<1>2. Given \in Seq(Byte) /\ Len(Given) = end /\ \A i \in 1 .. end : Given[i] = bom_bytes[i]
  BY <1>1, BomGiven
<1>3. /\ SubSeq(bom_bytes, 1, end) \in Seq(Byte) /\ Len(SubSeq(bom_bytes, 1, end)) = end
      /\ \A i \in 1 .. end : SubSeq(bom_bytes, 1, end)[i] = bom_bytes[i]
  <2>1. 1 \in Int /\ end \in Int /\ (IF 1 <= end THEN end - 1 + 1 ELSE 0) = end
    BY <1>1
  <2>2. \A i \in 1 .. end : bom_bytes[i] \in Byte
    BY <1>1, <1>2, ElementOfSeq
  <2>3. /\ SubSeq(bom_bytes, 1, end) \in Seq(Byte)
        /\ Len(SubSeq(bom_bytes, 1, end)) = IF 1 <= end THEN end - 1 + 1 ELSE 0
        /\ \A i \in 1 .. end - 1 + 1 : SubSeq(bom_bytes, 1, end)[i] = bom_bytes[1 + i - 1]
    BY <2>1, <2>2, SubSeqProperties
  <2>4. \A i \in 1 .. end : i \in 1 .. end - 1 + 1 /\ 1 + i - 1 = i
    BY <1>1
  <2>. QED  BY <2>1, <2>3, <2>4
<1>4. Given = SubSeq(bom_bytes, 1, end)
  BY <1>2, <1>3, SeqEqual
<1>5. MaybeBom
  BY <1>1, <1>2, <1>4 DEF MaybeBom
<1>6. Ended(body, end) = 0
  <2>1. end \in 0 .. 3
    BY <1>1
  <2>. QED  BY <1>1, <2>1, BomHasNoEnd
<1>. QED  BY <1>1, <1>5, <1>6, GivenLines, BomGiven DEF LastLine

(* A parser that reads lines carries the last line.                        *)
LEMMA IdleInLine ==
  ASSUME Types, Decoding, Idle, state = "line"
  PROVE  /\ ~MaybeBom /\ end > 0 /\ LastLine = carry
         /\ bom_matched = IF HasBom THEN 3 ELSE 0
<1>1. /\ body \in Seq(Byte) /\ end \in Nat /\ end <= Len(body) /\ cursor = end
      /\ Decided(body, end)
  BY DEF Types, TypeOK, Idle, Decoding
<1>2. NumLines = Ended(body, cursor)
  BY <1>1, GivenLines
<1>3. /\ bom_matched = IF OpensWithBom(body) THEN 3 ELSE 0
      /\ carry = SubSeq(body, LineBegin(body, NumLines + 1), end)
  BY <1>1, <1>2 DEF Decoding, InLine
<1>. QED  BY <1>1, <1>3, DecidedFacts

LEMMA CutsDoNotShow == ASSUME Types, Decoding, Idle PROVE CutsInvisible
<1>. DEFINE ls == Lines
            ms == AllLines(body)
            n == NumLines
<1>1. /\ body \in Seq(Byte) /\ end \in Nat /\ end <= Len(body) /\ cursor = end /\ MaxLine \in Nat
      /\ carry \in Seq(Byte) /\ Len(carry) <= MaxLine
  BY SseAssumption DEF Types, TypeOK, Idle
<1>2. /\ n = Ended(body, end) /\ n \in Nat /\ DOMAIN ls = 1 .. n /\ Len(ls) = n
      /\ \A k \in 1 .. n : ls[k] = ms[k]
  BY <1>1, GivenLines
<1>. HIDE DEF ls, ms, n
<1>3. /\ \A k \in 0 .. n : SameAfter(ls, ms, k)
      /\ \A k \in 1 .. n : SameAt(ls, ms, k)
  BY <1>2, LinesAgree
<1>4. \A k \in 1 .. n : Sound(ls, k) <=> Sound(ms, k)
  <2>1. \A k \in 1 .. n : k \in 0 .. n
    OBVIOUS
  <2>. QED  BY <1>3, <2>1 DEF SameAt, SameAfter, Sound, Refused
<1>5. ASSUME NEW d \in 1 .. n + 1, \A k \in 1 .. d - 1 : Sound(ms, k), d <= n => ~Sound(ms, d),
             NEW m \in 0 .. n, m = IF d <= n THEN d ELSE n, events = EventsOf(ms, m),
             Dead <=> (d <= n \/ Len(LastLine) > MaxLine)
      PROVE  CutsInvisible
  <2>1. DeathLine(ls) = d
    <3>1. \A k \in 1 .. d - 1 : k \in 1 .. n
      BY <1>2
    <3>2. d <= n => d \in 1 .. n
      BY <1>2
    <3>3. (\A k \in 1 .. d - 1 : Sound(ls, k)) /\ (d <= n => ~Sound(ls, d))
      BY <1>4, <1>5, <3>1, <3>2
    <3>. QED  BY <1>2, <3>3, DeathLineIs
  <2>2. events = EventsOf(ls, m)
    BY <1>3, <1>5 DEF SameAfter
  <2>3. m = IF DeathLine(ls) <= Len(ls) THEN DeathLine(ls) ELSE Len(ls)
    BY <1>2, <1>5, <2>1
  <2>4. Dead = (DeathLine(ls) <= Len(ls) \/ Len(LastLine) > MaxLine)
    BY <1>2, <1>5, <2>1 DEF Dead
  <2>5. events = EventsOf(Lines, IF DeathLine(Lines) <= Len(Lines) THEN DeathLine(Lines) ELSE Len(Lines))
    BY <2>2, <2>3 DEF ls
  <2>6. Dead = (DeathLine(Lines) <= Len(Lines) \/ Len(LastLine) > MaxLine)
    BY <2>4 DEF ls
  <2>. QED  BY <2>5, <2>6, Zenon DEF CutsInvisible, EventsOf
<1>6. CASE ~Dead
  <2>1. /\ events = EventsOf(ms, n) /\ \A k \in 1 .. n : Sound(ms, k)
    BY <1>1, <1>2, <1>6 DEF Decoding, Alive, Follows, ms
  <2>2. ~(Len(LastLine) > MaxLine)
    <3>1. CASE state = "bom"
      <4>1. LastLine = <<>> /\ Len(<<>>) = 0
        BY <3>1, IdleInBom, EmptySeq
      <4>. QED  BY <1>1, <4>1
    <3>2. CASE state = "line"
      BY <1>1, <3>2, IdleInLine
    <3>. QED  BY <1>6, <3>1, <3>2 DEF Dead, Types, TypeOK
  <2>3. /\ n + 1 \in 1 .. n + 1 /\ (n + 1) - 1 = n /\ ~(n + 1 <= n) /\ n \in 0 .. n
    BY <1>2
  <2>. QED  BY <1>5, <1>6, <2>1, <2>2, <2>3
<1>7. CASE Dead
  <2>1. PICK d \in 1 .. n + 1 :
          /\ \A k \in 1 .. d - 1 : Sound(ms, k)
          /\ d <= n => ~Sound(ms, d) /\ events = EventsOf(ms, d)
          /\ d = n + 1 => LineBegin(body, d) + MaxLine <= end /\ events = EventsOf(ms, n)
    BY <1>2, <1>7 DEF Decoding, DiesRightly, ms
  <2>2. CASE d <= n
    <3>1. d \in 0 .. n
      BY <1>2, <2>2
    <3>. QED  BY <1>5, <1>7, <2>1, <2>2, <3>1
  <2>3. CASE d = n + 1
    <3>. DEFINE lo == LineBegin(body, n + 1)
    <3>1. lo + MaxLine <= end /\ events = EventsOf(ms, n)
      BY <2>1, <2>3
    <3>2. LastLine = SubSeq(body, lo, end)
      <4>1. Decided(body, end)
        BY <1>7 DEF Decoding, Dead
      <4>. QED  BY <1>1, <4>1, DecidedFacts DEF n
    <3>3. lo \in Nat \ {0}
      <4>1. n + 1 \in 1 .. Ended(body, end) + 1
        BY <1>2
      <4>. QED  BY <1>1, <4>1, LineBeginFacts
    <3>. HIDE DEF lo
    <3>4. lo \in Int /\ end \in Int /\ lo <= end /\ \A i \in lo .. end : i \in 1 .. Len(body)
      BY <1>1, <3>1, <3>3
    <3>5. Len(LastLine) = end - lo + 1
      BY <1>1, <3>2, <3>4, SubSeqProperties, ElementOfSeq
    <3>6. Len(LastLine) > MaxLine
      BY <1>1, <3>1, <3>3, <3>5
    <3>7. ~(d <= n) /\ n \in 0 .. n
      BY <1>2, <2>3
    <3>. QED  BY <1>5, <1>7, <2>1, <3>1, <3>6, <3>7
  <2>4. d <= n \/ d = n + 1
    BY <1>2
  <2>. QED  BY <2>2, <2>3, <2>4
<1>. QED  BY <1>6, <1>7

LEMMA VerdictKnown ==
  ASSUME Types, Decoding, Idle PROVE CleanMeansWhole /\ WholeMeansClean
<1>1. body \in Seq(Byte) /\ end \in Nat /\ end <= Len(body) /\ cursor = end
  BY DEF Types, TypeOK, Idle
<1>2. CASE Dead
  <2>1. SseParserFinish = "truncated" /\ ~NothingPending
    BY <1>2 DEF SseParserFinish, NothingPending
  <2>. QED  BY <2>1 DEF CleanMeansWhole, WholeMeansClean
<1>3. CASE ~Dead
  <2>. DEFINE n == NumLines
              ls == Lines
              ms == AllLines(body)
  <2>1. /\ n = Ended(body, end) /\ n \in Nat /\ \A k \in 1 .. n : ls[k] = ms[k]
    BY <1>1, GivenLines
  <2>2. data = DataAfter(ms, n)
    BY <1>1, <1>3, <2>1 DEF Decoding, Alive, Follows
  <2>3. data = <<>> <=> n = 0 \/ ls[n] = <<>> \/ Pending(ls, n) = <<>>
    <3>. HIDE DEF n, ls, ms
    <3>1. CASE n = 0
      BY <2>2, <3>1, DataAfterStep
    <3>2. CASE n # 0
      <4>1. n - 1 \in Nat /\ (n - 1) + 1 = n /\ n \in 1 .. n /\ n \in 0 .. n /\ n - 1 \in 0 .. n
        BY <2>1, <3>2
      <4>2. SameAfter(ls, ms, n)
        BY <2>1, <4>1, LinesAgree
      <4>3. data = DataAfter(ls, n)
        BY <2>2, <4>2 DEF SameAfter
      <4>4. DataAfter(ls, (n - 1) + 1) = IF ls[(n - 1) + 1] = <<>> THEN <<>>
                                         ELSE DataAfter(ls, n - 1) \o Contribution(ls, (n - 1) + 1)
        BY <4>1, DataAfterStep
      <4>5. Pending(ls, (n - 1) + 1) = DataAfter(ls, n - 1) \o Contribution(ls, (n - 1) + 1)
        BY <4>1, PendingFacts
      <4>. QED  BY <3>2, <4>1, <4>3, <4>4, <4>5
    <3>. QED  BY <3>1, <3>2
  <2>4. SseParserFinish = "clean" <=> carry = <<>> /\ data = <<>> /\ ~(bom_matched > 0)
    BY <1>3 DEF SseParserFinish
  <2>5. NothingPending <=> LastLine = <<>> /\ (Given = <<>> \/ ~MaybeBom) /\ data = <<>>
    BY <1>3, <2>3 DEF NothingPending
  <2>6. CASE state = "bom"
    <3>1. MaybeBom /\ LastLine = <<>> /\ ~HasBom /\ end = bom_matched /\ carry = <<>>
      BY <2>6, IdleInBom DEF Decoding, InBom
    <3>2. Given = <<>> <=> ~(bom_matched > 0)
      <4>1. Given \in Seq(Byte) /\ Len(Given) = bom_matched /\ bom_matched \in Nat
        BY <1>1, <3>1, BomGiven
      <4>. QED  BY <4>1, EmptySeq
    <3>. QED  BY <2>4, <2>5, <3>1, <3>2 DEF CleanMeansWhole, WholeMeansClean
  <2>7. CASE state = "line"
    <3>1. ~MaybeBom /\ LastLine = carry /\ bom_matched = IF HasBom THEN 3 ELSE 0
      BY <2>7, IdleInLine
    <3>. QED  BY <2>4, <2>5, <3>1 DEF CleanMeansWhole, WholeMeansClean
  <2>. QED  BY <1>3, <2>6, <2>7 DEF Dead, Types, TypeOK
<1>. QED  BY <1>2, <1>3

(* Between two calls of sse_parser_feed the callback has been given exactly*)
(* the events that the bytes handed over so far hold, wherever the chunks  *)
(* were cut, and the parser is dead exactly if one of their lines is over  *)
(* a limit or the callback refused an event.                               *)
THEOREM EventsExact == Spec => []CutsInvisible
<1>1. Init => Types /\ Decoding
  <2>1. Init => body \in Seq(Byte)
    BY SseAssumption DEF Init
  <2>. QED  BY <2>1, InitTypes, NothingDecoded DEF Init
<1>2. Types /\ Decoding /\ [Next]_vars => Types' /\ Decoding'
  BY StepTypes, StepDecodes
<1>3. Types /\ Decoding => CutsInvisible
  BY CutsDoNotShow DEF CutsInvisible
<1>. QED  BY <1>1, <1>2, <1>3, PTL DEF Spec

(* sse_parser_finish says of a stream that it ended cleanly only if        *)
(* neither a line nor an event is left open.                               *)
THEOREM CleanIsWhole == Spec => []CleanMeansWhole
<1>1. Init => Types /\ Decoding
  <2>1. Init => body \in Seq(Byte)
    BY SseAssumption DEF Init
  <2>. QED  BY <2>1, InitTypes, NothingDecoded DEF Init
<1>2. Types /\ Decoding /\ [Next]_vars => Types' /\ Decoding'
  BY StepTypes, StepDecodes
<1>3. Types /\ Decoding => CleanMeansWhole
  BY VerdictKnown DEF CleanMeansWhole
<1>. QED  BY <1>1, <1>2, <1>3, PTL DEF Spec

(* A stream that is not cut short and does not open with a byte order mark *)
(* is called clean: a whole answer without [DONE] is delivered.            *)
THEOREM WholeIsClean == Spec => []WholeMeansClean
<1>1. Init => Types /\ Decoding
  <2>1. Init => body \in Seq(Byte)
    BY SseAssumption DEF Init
  <2>. QED  BY <2>1, InitTypes, NothingDecoded DEF Init
<1>2. Types /\ Decoding /\ [Next]_vars => Types' /\ Decoding'
  BY StepTypes, StepDecodes
<1>3. Types /\ Decoding => WholeMeansClean
  BY VerdictKnown DEF WholeMeansClean
<1>. QED  BY <1>1, <1>2, <1>3, PTL DEF Spec

=============================================================================
