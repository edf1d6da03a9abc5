------------------------------ MODULE ListLemmas ------------------------------
(***************************************************************************)
(* What the operations on lists of distinct entries return: the facts the  *)
(* proofs about the kernel's queues rest on.                               *)
(***************************************************************************)
EXTENDS Integers, Sequences, SequencesExt, SequenceTheorems, FiniteSetTheorems, WellFoundedInduction,
        TLAPS

\* A nonempty set of naturals has a least element, so Min picks it.
LEMMA MinNat ==
  ASSUME NEW T, T \subseteq Nat, T # {}
  PROVE  Min(T) \in T /\ \A y \in T : Min(T) <= y
<1>1. IsWellFoundedOn(OpToRel(<, Nat), Nat)
  BY NatLessThanWellFounded
<1>2. PICK x \in T : \A y \in T : ~ (<<y, x>> \in OpToRel(<, Nat))
  BY <1>1, WFMin
<1>3. \A y \in T : x <= y
  <2>1. SUFFICES ASSUME NEW y \in T, ~(x <= y) PROVE FALSE
    OBVIOUS
  <2>2. <<y, x>> \in OpToRel(<, Nat)
    BY <2>1 DEF OpToRel
  <2>3. QED  BY <1>2, <2>1, <2>2
<1>4. QED  BY <1>3 DEF Min

LEMMA SetOfList ==
  ASSUME NEW S, NEW l \in Seq(S)
  PROVE  /\ ToSet(l) \subseteq S
         /\ \A p : p \in ToSet(l) <=> \E i \in 1 .. Len(l) : l[i] = p
BY DEF ToSet

LEMMA DistinctEntries ==
  ASSUME NEW S, NEW l \in Seq(S)
  PROVE  IsInjective(l) <=> \A i, j \in 1 .. Len(l) : l[i] = l[j] => i = j
BY DEF IsInjective

\* A list of distinct entries has as many entries as elements.
LEMMA DistinctCount ==
  ASSUME NEW S, NEW l \in Seq(S), IsInjective(l)
  PROVE  IsFiniteSet(ToSet(l)) /\ Cardinality(ToSet(l)) = Len(l)
<1> DEFINE n == Len(l)
<1>1. n \in Nat /\ l \in [1 .. n -> S] /\ ToSet(l) = {l[i] : i \in 1 .. n}
  BY DEF ToSet
<1>2. \A i, j \in 1 .. n : l[i] = l[j] => i = j
  BY DistinctEntries
<1>3. l \in Bijection(1 .. n, ToSet(l))
  <2>1. l \in [1 .. n -> ToSet(l)]
    BY <1>1
  <2>2. \A y \in ToSet(l) : \E i \in 1 .. n : l[i] = y
    BY <1>1
  <2>3. QED  BY <1>2, <2>1, <2>2 DEF Bijection, Injection, Surjection, IsInjective
<1>4. IsFiniteSet(1 .. n) /\ Cardinality(1 .. n) = n
  BY <1>1, FS_Interval
<1>5. ExistsBijection(1 .. n, ToSet(l))
  BY <1>3 DEF ExistsBijection
<1>6. QED  BY <1>4, <1>5, FS_Bijection

\* Of the members of a set, those outside a list are what the list leaves.
LEMMA OthersCount ==
  ASSUME NEW S, NEW l \in Seq(S), IsInjective(l), NEW W, IsFiniteSet(W), ToSet(l) \subseteq W
  PROVE  Cardinality(W) \in Nat /\ Cardinality(W \ ToSet(l)) \in Nat
         /\ Cardinality(W) = Len(l) + Cardinality(W \ ToSet(l))
<1>1. IsFiniteSet(ToSet(l)) /\ Cardinality(ToSet(l)) = Len(l)
  BY DistinctCount
<1>2. W \cap ToSet(l) = ToSet(l)
  OBVIOUS
<1>3. IsFiniteSet(W \ ToSet(l)) /\ Cardinality(W \ ToSet(l)) = Cardinality(W) - Cardinality(W \cap ToSet(l))
  BY FS_Difference
<1>4. Cardinality(W \cap ToSet(l)) = Len(l)
  BY ONLY <1>1, <1>2, Zenon
<1>5. Cardinality(W) \in Nat /\ Cardinality(W \ ToSet(l)) \in Nat /\ Len(l) \in Nat
  BY <1>3, FS_CardinalityType
<1>6. QED  BY <1>3, <1>4, <1>5

\* A part of a list of distinct entries has distinct entries.
LEMMA SubSeqList ==
  ASSUME NEW S, NEW l \in Seq(S), NEW m \in 1 .. Len(l) + 1, NEW n \in 0 .. Len(l)
  PROVE  /\ SubSeq(l, m, n) \in Seq(S)
         /\ Len(SubSeq(l, m, n)) = IF m <= n THEN n - m + 1 ELSE 0
         /\ \A i \in 1 .. n - m + 1 : SubSeq(l, m, n)[i] = l[m + i - 1]
BY SubSeqProperties

LEMMA ConcatList ==
  ASSUME NEW S, NEW a \in Seq(S), NEW b \in Seq(S)
  PROVE  /\ a \o b \in Seq(S) /\ Len(a \o b) = Len(a) + Len(b)
         /\ \A i \in 1 .. Len(a) : (a \o b)[i] = a[i]
         /\ \A i \in 1 .. Len(b) : (a \o b)[Len(a) + i] = b[i]
<1>1. /\ a \o b \in Seq(S) /\ Len(a \o b) = Len(a) + Len(b)
      /\ \A i \in 1 .. Len(a) + Len(b) : (a \o b)[i] =
           IF i <= Len(a) THEN a[i] ELSE b[i - Len(a)]
  BY ConcatProperties
<1>2. \A i \in 1 .. Len(a) : (a \o b)[i] = a[i]
  BY <1>1
<1>3. \A i \in 1 .. Len(b) : (a \o b)[Len(a) + i] = b[i]
  <2>1. TAKE i \in 1 .. Len(b)
  <2>2. Len(a) + i \in 1 .. Len(a) + Len(b) /\ ~(Len(a) + i <= Len(a)) /\ Len(a) + i - Len(a) = i
    OBVIOUS
  <2>3. QED  BY <1>1, <2>2
<1>4. QED  BY <1>1, <1>2, <1>3

\* InsertAt at a position between the entries adds one entry.
LEMMA InsertAtList ==
  ASSUME NEW S, NEW l \in Seq(S), NEW e \in S, NEW k \in 1 .. Len(l) + 1
  PROVE  /\ InsertAt(l, k, e) \in Seq(S)
         /\ Len(InsertAt(l, k, e)) = Len(l) + 1
         /\ \A i \in 1 .. k - 1 : InsertAt(l, k, e)[i] = l[i]
         /\ InsertAt(l, k, e)[k] = e
         /\ \A i \in k + 1 .. Len(l) + 1 : InsertAt(l, k, e)[i] = l[i - 1]
<1> DEFINE a == SubSeq(l, 1, k - 1)
           b == SubSeq(l, k, Len(l))
           c == <<e>>
           ac == a \o c
           r == ac \o b
<1>1. /\ a \in Seq(S) /\ Len(a) = k - 1
      /\ \A i \in 1 .. k - 1 : a[i] = l[i]
  BY SubSeqList, k - 1 \in 0 .. Len(l), 1 \in 1 .. Len(l) + 1
<1>2. /\ b \in Seq(S) /\ Len(b) = Len(l) - k + 1
      /\ \A i \in 1 .. Len(l) - k + 1 : b[i] = l[k + i - 1]
  BY SubSeqList, Len(l) \in 0 .. Len(l)
<1>3. c \in Seq(S) /\ Len(c) = 1 /\ c[1] = e
  OBVIOUS
<1> HIDE DEF a, b, c
<1>4. /\ ac \in Seq(S) /\ Len(ac) = Len(a) + Len(c)
      /\ \A i \in 1 .. Len(a) : ac[i] = a[i]
      /\ \A i \in 1 .. Len(c) : ac[Len(a) + i] = c[i]
  <2>1. a \in Seq(S) /\ c \in Seq(S)
    BY <1>1, <1>3
  <2>2. QED  BY ONLY <2>1, ConcatList
<1> HIDE DEF ac
<1>5. /\ r \in Seq(S) /\ Len(r) = Len(ac) + Len(b)
      /\ \A i \in 1 .. Len(ac) : r[i] = ac[i]
      /\ \A i \in 1 .. Len(b) : r[Len(ac) + i] = b[i]
  <2>1. ac \in Seq(S) /\ b \in Seq(S)
    BY <1>2, <1>4
  <2>2. QED  BY ONLY <2>1, ConcatList
<1>6. InsertAt(l, k, e) = r
  BY DEF InsertAt, r, ac, a, b, c
<1> HIDE DEF r
<1>7. Len(ac) = k /\ Len(r) = Len(l) + 1
  <2>1. Len(ac) = Len(a) + Len(c) /\ Len(r) = Len(ac) + Len(b)
    BY ONLY <1>4, <1>5
  <2>2. Len(a) = k - 1 /\ Len(c) = 1 /\ Len(b) = Len(l) - k + 1
    BY ONLY <1>1, <1>2, <1>3
  <2>3. Len(l) \in Nat /\ k \in Nat
    OBVIOUS
  <2>4. QED  BY ONLY <2>1, <2>2, <2>3
<1>8. \A i \in 1 .. k - 1 : r[i] = l[i]
  <2>1. TAKE i \in 1 .. k - 1
  <2>2. r[i] = ac[i]
    BY <1>5, <1>7, <1>2
  <2>3. ac[i] = a[i]
    BY <1>4, <1>1, <1>3
  <2>4. QED  BY <2>2, <2>3, <1>1
<1>9. r[k] = e
  <2>1. r[k] = ac[k]
    BY <1>5, <1>7, <1>2
  <2>2. ac[k] = c[1]
    BY <1>4, <1>1, <1>3
  <2>3. QED  BY <2>1, <2>2, <1>3
<1>10. \A i \in k + 1 .. Len(l) + 1 : r[i] = l[i - 1]
  <2>1. TAKE i \in k + 1 .. Len(l) + 1
  <2>2. r[k + (i - k)] = b[i - k] /\ k + (i - k) = i
    BY <1>5, <1>7, <1>2
  <2>3. b[i - k] = l[k + (i - k) - 1]
    BY <1>2
  <2>4. k + (i - k) - 1 = i - 1
    OBVIOUS
  <2>5. QED  BY <2>2, <2>3, <2>4
<1>11. QED  BY <1>5, <1>6, <1>7, <1>8, <1>9, <1>10

\* RemoveAt takes out the entry at one position.
LEMMA RemoveAtList ==
  ASSUME NEW S, NEW l \in Seq(S), NEW k \in 1 .. Len(l)
  PROVE  /\ RemoveAt(l, k) \in Seq(S)
         /\ Len(RemoveAt(l, k)) = Len(l) - 1
         /\ \A i \in 1 .. k - 1 : RemoveAt(l, k)[i] = l[i]
         /\ \A i \in k .. Len(l) - 1 : RemoveAt(l, k)[i] = l[i + 1]
<1> DEFINE a == SubSeq(l, 1, k - 1)
           b == SubSeq(l, k + 1, Len(l))
           r == a \o b
<1>1. /\ a \in Seq(S) /\ Len(a) = k - 1
      /\ \A i \in 1 .. k - 1 : a[i] = l[i]
  BY SubSeqList, k - 1 \in 0 .. Len(l), 1 \in 1 .. Len(l) + 1
<1>2. /\ b \in Seq(S) /\ Len(b) = Len(l) - k
      /\ \A i \in 1 .. Len(l) - k : b[i] = l[k + 1 + i - 1]
  BY SubSeqList, k + 1 \in 1 .. Len(l) + 1, Len(l) \in 0 .. Len(l)
<1> HIDE DEF a, b
<1>3. /\ r \in Seq(S) /\ Len(r) = Len(a) + Len(b)
      /\ \A i \in 1 .. Len(a) : r[i] = a[i]
      /\ \A i \in 1 .. Len(b) : r[Len(a) + i] = b[i]
  <2>1. a \in Seq(S) /\ b \in Seq(S)
    BY <1>1, <1>2
  <2>2. QED  BY ONLY <2>1, ConcatList
<1>4. RemoveAt(l, k) = r
  BY DEF RemoveAt, r, a, b
<1> HIDE DEF r
<1>5. \A i \in 1 .. k - 1 : r[i] = l[i]
  BY <1>1, <1>2, <1>3
<1>6. \A i \in k .. Len(l) - 1 : r[i] = l[i + 1]
  <2>1. TAKE i \in k .. Len(l) - 1
  <2>2. r[(k - 1) + (i - (k - 1))] = b[i - (k - 1)] /\ (k - 1) + (i - (k - 1)) = i
    BY <1>1, <1>2, <1>3
  <2>3. b[i - (k - 1)] = l[k + 1 + (i - (k - 1)) - 1]
    BY <1>2
  <2>4. k + 1 + (i - (k - 1)) - 1 = i + 1
    OBVIOUS
  <2>5. QED  BY <2>2, <2>3, <2>4
<1>7. r \in Seq(S) /\ Len(r) = Len(l) - 1
  <2>1. Len(a) + Len(b) = Len(l) - 1
    BY <1>1, <1>2
  <2>2. QED  BY ONLY <1>3, <2>1
<1>8. QED  BY ONLY <1>4, <1>5, <1>6, <1>7

LEMMA InsertAtDistinct ==
  ASSUME NEW S, NEW l \in Seq(S), IsInjective(l), NEW e \in S, e \notin ToSet(l),
         NEW k \in 1 .. Len(l) + 1
  PROVE  /\ InsertAt(l, k, e) \in Seq(S) /\ IsInjective(InsertAt(l, k, e))
         /\ ToSet(InsertAt(l, k, e)) = ToSet(l) \cup {e}
         /\ InsertAt(l, k, e) # <<>>
<1> DEFINE r == InsertAt(l, k, e)
<1>1. /\ r \in Seq(S) /\ Len(r) = Len(l) + 1
      /\ \A i \in 1 .. k - 1 : r[i] = l[i]
      /\ r[k] = e
      /\ \A i \in k + 1 .. Len(l) + 1 : r[i] = l[i - 1]
  BY InsertAtList
<1> HIDE DEF r
<1>2. \A i \in 1 .. Len(l) : l[i] # e
  BY SetOfList
<1>3. IsInjective(r)
  <2>1. SUFFICES ASSUME NEW i \in 1 .. Len(r), NEW j \in 1 .. Len(r), r[i] = r[j], i < j
                 PROVE  FALSE
    BY <1>1 DEF IsInjective
  <2>2. CASE j < k
    BY <1>1, <2>1, <2>2 DEF IsInjective
  <2>3. CASE j = k
    BY <1>1, <1>2, <2>1, <2>3
  <2>4. CASE i = k /\ j > k
    BY <1>1, <1>2, <2>1, <2>4
  <2>5. CASE i < k /\ j > k
    <3>1. r[i] = l[i] /\ r[j] = l[j - 1] /\ j - 1 \in 1 .. Len(l) /\ i \in 1 .. Len(l)
      BY <1>1, <2>1, <2>5
    <3>2. i = j - 1
      BY <3>1, <2>1, DistinctEntries
    <3>3. QED  BY <3>2, <2>5
  <2>6. CASE i > k
    <3>1. r[i] = l[i - 1] /\ r[j] = l[j - 1] /\ j - 1 \in 1 .. Len(l) /\ i - 1 \in 1 .. Len(l)
      BY <1>1, <2>1, <2>6
    <3>2. i - 1 = j - 1
      BY <3>1, <2>1, DistinctEntries
    <3>3. QED  BY <3>2, <2>1
  <2>7. QED  BY <2>1, <2>2, <2>3, <2>4, <2>5, <2>6
<1>4. ToSet(r) = ToSet(l) \cup {e}
  <2>1. ASSUME NEW p \in ToSet(r) PROVE p \in ToSet(l) \cup {e}
    <3>1. PICK i \in 1 .. Len(r) : r[i] = p
      BY <1>1, SetOfList
    <3>2. CASE i < k
      <4>1. i \in 1 .. Len(l) /\ l[i] = p
        BY <1>1, <3>1, <3>2
      <4>2. QED  BY <4>1, SetOfList
    <3>3. CASE i = k
      BY <1>1, <3>1, <3>3
    <3>4. CASE i > k
      <4>1. i - 1 \in 1 .. Len(l) /\ l[i - 1] = p
        BY <1>1, <3>1, <3>4
      <4>2. QED  BY <4>1, SetOfList
    <3>5. QED  BY <1>1, <3>2, <3>3, <3>4
  <2>2. ASSUME NEW p \in ToSet(l) PROVE p \in ToSet(r)
    <3>1. PICK i \in 1 .. Len(l) : l[i] = p
      BY SetOfList
    <3>2. CASE i < k
      <4>1. i \in 1 .. Len(r) /\ r[i] = p
        BY <1>1, <3>1, <3>2
      <4>2. QED  BY <1>1, <4>1, SetOfList
    <3>3. CASE i >= k
      <4>1. i + 1 \in 1 .. Len(r) /\ r[i + 1] = l[i + 1 - 1]
        BY <1>1, <3>1, <3>3
      <4>2. QED  BY <1>1, <3>1, <4>1, SetOfList
    <3>4. QED  BY <3>2, <3>3
  <2>3. e \in ToSet(r)
    BY <1>1, SetOfList
  <2>4. QED  BY <2>1, <2>2, <2>3
<1>5. QED  BY <1>1, <1>3, <1>4 DEF r

LEMMA RemoveAtDistinct ==
  ASSUME NEW S, NEW l \in Seq(S), IsInjective(l), NEW k \in 1 .. Len(l)
  PROVE  /\ RemoveAt(l, k) \in Seq(S) /\ IsInjective(RemoveAt(l, k))
         /\ ToSet(RemoveAt(l, k)) = ToSet(l) \ {l[k]}
         /\ Len(RemoveAt(l, k)) = Len(l) - 1
<1> DEFINE r == RemoveAt(l, k)
<1>1. /\ r \in Seq(S) /\ Len(r) = Len(l) - 1
      /\ \A i \in 1 .. k - 1 : r[i] = l[i]
      /\ \A i \in k .. Len(l) - 1 : r[i] = l[i + 1]
  BY RemoveAtList
<1> HIDE DEF r
<1>2. \A i \in 1 .. Len(r) : \E j \in 1 .. Len(l) :
        /\ j = (IF i < k THEN i ELSE i + 1)
        /\ r[i] = l[j]
  BY <1>1
<1>3. IsInjective(r)
  <2>1. SUFFICES ASSUME NEW i \in 1 .. Len(r), NEW j \in 1 .. Len(r), r[i] = r[j]
                 PROVE  i = j
    BY DEF IsInjective
  <2>2. PICK a \in 1 .. Len(l) : a = (IF i < k THEN i ELSE i + 1) /\ r[i] = l[a]
    BY <1>2
  <2>3. PICK b \in 1 .. Len(l) : b = (IF j < k THEN j ELSE j + 1) /\ r[j] = l[b]
    BY <1>2
  <2>4. a = b
    BY <2>1, <2>2, <2>3, DistinctEntries
  <2>5. QED  BY <1>1, <2>2, <2>3, <2>4
<1>4. ToSet(r) = ToSet(l) \ {l[k]}
  <2>1. ASSUME NEW p \in ToSet(r) PROVE p \in ToSet(l) /\ p # l[k]
    <3>1. PICK i \in 1 .. Len(r) : r[i] = p
      BY <1>1, SetOfList
    <3>2. PICK j \in 1 .. Len(l) : j = (IF i < k THEN i ELSE i + 1) /\ r[i] = l[j]
      BY <1>2, <3>1
    <3>3. j # k
      BY <1>1, <3>1, <3>2
    <3>4. QED  BY <3>1, <3>2, <3>3, SetOfList DEF IsInjective
  <2>2. ASSUME NEW p \in ToSet(l), p # l[k] PROVE p \in ToSet(r)
    <3>1. PICK j \in 1 .. Len(l) : l[j] = p
      BY SetOfList
    <3>2. CASE j < k
      <4>1. j \in 1 .. Len(r) /\ r[j] = p
        BY <1>1, <3>1, <3>2
      <4>2. QED  BY <1>1, <4>1, SetOfList
    <3>3. CASE j > k
      <4>1. j - 1 \in k .. Len(l) - 1 /\ j - 1 \in 1 .. Len(r) /\ j - 1 + 1 = j
        BY <1>1, <3>1, <3>3
      <4>2. r[j - 1] = p
        BY <1>1, <3>1, <4>1
      <4>3. QED  BY <1>1, <4>1, <4>2, SetOfList
    <3>4. QED  BY <2>2, <3>1, <3>2, <3>3
  <2>3. QED  BY <2>1, <2>2
<1>5. QED  BY <1>1, <1>3, <1>4 DEF r

\* The first n entries and the rest.
LEMMA SplitDistinct ==
  ASSUME NEW S, NEW l \in Seq(S), IsInjective(l), NEW n \in 0 .. Len(l)
  PROVE  LET a == SubSeq(l, 1, n)
             b == SubSeq(l, n + 1, Len(l))
         IN  /\ a \in Seq(S) /\ IsInjective(a) /\ Len(a) = n
             /\ b \in Seq(S) /\ IsInjective(b) /\ Len(b) = Len(l) - n
             /\ ToSet(b) = ToSet(l) \ ToSet(a) /\ ToSet(a) \subseteq ToSet(l)
<1> DEFINE a == SubSeq(l, 1, n)
           b == SubSeq(l, n + 1, Len(l))
<1>1. a \in Seq(S) /\ Len(a) = n /\ \A i \in 1 .. n : a[i] = l[i]
  BY SubSeqList, 1 \in 1 .. Len(l) + 1
<1>2. /\ b \in Seq(S) /\ Len(b) = Len(l) - n
      /\ \A i \in 1 .. Len(l) - n : b[i] = l[n + 1 + i - 1]
  BY SubSeqList, n + 1 \in 1 .. Len(l) + 1, Len(l) \in 0 .. Len(l)
<1> HIDE DEF a, b
<1>3. IsInjective(a)
  BY <1>1 DEF IsInjective
<1>4. \A i \in 1 .. Len(b) : n + i \in 1 .. Len(l) /\ b[i] = l[n + i]
  <2>1. TAKE i \in 1 .. Len(b)
  <2>2. n + 1 + i - 1 = n + i
    OBVIOUS
  <2>3. QED  BY <1>2, <2>2
<1>5. IsInjective(b)
  <2>1. SUFFICES ASSUME NEW i \in 1 .. Len(b), NEW j \in 1 .. Len(b), b[i] = b[j] PROVE i = j
    BY DEF IsInjective
  <2>2. n + i = n + j
    <3>1. n + i \in 1 .. Len(l) /\ n + j \in 1 .. Len(l) /\ l[n+i] = l[n+j]
      BY <1>4, <2>1
    <3>2. QED  BY <3>1, DistinctEntries
  <2>3. QED  BY <2>2
<1>6. ToSet(a) \subseteq ToSet(l)
  BY <1>1, SetOfList
<1>7. ASSUME NEW p \in ToSet(b) PROVE p \in ToSet(l) /\ p \notin ToSet(a)
  <2>1. PICK i \in 1 .. Len(b) : b[i] = p
    BY <1>2, SetOfList
  <2>2. n + i \in 1 .. Len(l) /\ l[n + i] = p
    BY <1>4, <2>1
  <2>3. \A j \in 1 .. n : l[j] # p
    BY <2>2 DEF IsInjective
  <2>4. QED  BY <1>1, <2>2, <2>3, SetOfList
<1>8. ASSUME NEW p \in ToSet(l), p \notin ToSet(a) PROVE p \in ToSet(b)
  <2>1. PICK i \in 1 .. Len(l) : l[i] = p
    BY SetOfList
  <2>2. i > n
    BY <1>1, <1>8, <2>1, SetOfList
  <2>3. i - n \in 1 .. Len(b) /\ n + (i - n) = i
    BY <1>2, <2>2
  <2>4. b[i - n] = p
    BY <1>4, <2>1, <2>3
  <2>5. QED  BY <1>2, <2>3, <2>4, SetOfList
<1>9. ToSet(b) = ToSet(l) \ ToSet(a)
  BY <1>7, <1>8
<1>10. QED  BY <1>1, <1>2, <1>3, <1>5, <1>6, <1>9 DEF a, b

LEMMA FrontLast ==
  ASSUME NEW S, NEW l \in Seq(S), IsInjective(l), l # <<>>
  PROVE  /\ Front(l) \in Seq(S) /\ IsInjective(Front(l))
         /\ Last(l) \in S /\ Last(l) \in ToSet(l)
         /\ ToSet(Front(l)) = ToSet(l) \ {Last(l)}
<1>1. Len(l) \in 1 .. Len(l) /\ Len(l) - 1 \in 0 .. Len(l)
  OBVIOUS
<1>2. Last(l) \in S /\ Last(l) \in ToSet(l)
  BY <1>1, SetOfList DEF Last
<1> DEFINE a == SubSeq(l, 1, Len(l) - 1)
<1>3. a \in Seq(S) /\ IsInjective(a) /\ Len(a) = Len(l) - 1 /\ ToSet(a) \subseteq ToSet(l)
  <2> DEFINE n == Len(l) - 1
  <2>1. n \in 0 .. Len(l)
    BY <1>1
  <2> HIDE DEF n
  <2>2. /\ SubSeq(l, 1, n) \in Seq(S) /\ IsInjective(SubSeq(l, 1, n)) /\ Len(SubSeq(l, 1, n)) = n
        /\ ToSet(SubSeq(l, 1, n)) \subseteq ToSet(l)
    BY <2>1, SplitDistinct
  <2>3. QED  BY <2>2 DEF n
<1>4. \A i \in 1 .. Len(l) - 1 : a[i] = l[i]
  BY <1>1, SubSeqList, 1 \in 1 .. Len(l) + 1
<1> HIDE DEF a
<1>5. Last(l) \notin ToSet(a)
  BY <1>1, <1>3, <1>4, SetOfList DEF Last, IsInjective
<1>6. ASSUME NEW p \in ToSet(l), p # Last(l) PROVE p \in ToSet(a)
  <2>1. PICK i \in 1 .. Len(l) : l[i] = p
    BY SetOfList
  <2>2. i \in 1 .. Len(l) - 1
    BY <1>6, <2>1 DEF Last
  <2>3. QED  BY <1>3, <1>4, <2>1, <2>2, SetOfList
<1>7. QED  BY <1>2, <1>3, <1>5, <1>6 DEF Front, a

LEMMA HeadTailDistinct ==
  ASSUME NEW S, NEW l \in Seq(S), IsInjective(l), l # <<>>
  PROVE  /\ Tail(l) \in Seq(S) /\ IsInjective(Tail(l)) /\ Len(Tail(l)) = Len(l) - 1
         /\ Head(l) \in S /\ Head(l) \in ToSet(l) /\ Head(l) = l[1]
         /\ ToSet(Tail(l)) = ToSet(l) \ {Head(l)}
<1>1. Head(l) = l[1] /\ 1 \in 1 .. Len(l)
  OBVIOUS
<1>2. RemoveAt(l, 1) = Tail(l)
  <2>1. /\ RemoveAt(l, 1) \in Seq(S) /\ Len(RemoveAt(l, 1)) = Len(l) - 1
        /\ \A i \in 1 .. Len(l) - 1 : RemoveAt(l, 1)[i] = l[i + 1]
    BY <1>1, RemoveAtList
  <2>2. /\ Tail(l) \in Seq(S) /\ Len(Tail(l)) = Len(l) - 1
        /\ \A i \in 1 .. Len(l) - 1 : Tail(l)[i] = l[i + 1]
    BY HeadTailProperties
  <2>3. QED  BY <2>1, <2>2, SeqEqual
<1>3. /\ RemoveAt(l, 1) \in Seq(S) /\ IsInjective(RemoveAt(l, 1))
      /\ ToSet(RemoveAt(l, 1)) = ToSet(l) \ {l[1]} /\ Len(RemoveAt(l, 1)) = Len(l) - 1
  BY <1>1, RemoveAtDistinct
<1>4. l[1] \in S /\ l[1] \in ToSet(l)
  BY <1>1, SetOfList
<1>5. QED  BY <1>1, <1>2, <1>3, <1>4

LEMMA AppendDistinct ==
  ASSUME NEW S, NEW l \in Seq(S), IsInjective(l), NEW e \in S, e \notin ToSet(l)
  PROVE  /\ Append(l, e) \in Seq(S) /\ IsInjective(Append(l, e)) /\ Len(Append(l, e)) = Len(l) + 1
         /\ ToSet(Append(l, e)) = ToSet(l) \cup {e}
<1> DEFINE r == Append(l, e)
<1>1. /\ r \in Seq(S) /\ Len(r) = Len(l) + 1
      /\ \A i \in 1 .. Len(l) : r[i] = l[i]
      /\ r[Len(l) + 1] = e
  BY AppendProperties
<1> HIDE DEF r
<1>2. \A i \in 1 .. Len(l) : l[i] # e
  BY SetOfList
<1>3. IsInjective(r)
  BY <1>1, <1>2 DEF IsInjective
<1>4. ToSet(r) = ToSet(l) \cup {e}
  <2>1. ASSUME NEW p \in ToSet(r) PROVE p \in ToSet(l) \cup {e}
    BY <1>1, SetOfList
  <2>2. ASSUME NEW p \in ToSet(l) \cup {e} PROVE p \in ToSet(r)
    BY <1>1, SetOfList
  <2>3. QED  BY <2>1, <2>2
<1>5. QED  BY <1>1, <1>3, <1>4 DEF r

------------------------------------------------------------------------------
(* Lists in the order of a key.                                             *)

Ascends(l, key) == \A i, j \in 1 .. Len(l) : i < j => key[l[i]] <= key[l[j]]

LEMMA InsertAtAscends ==
  ASSUME NEW S, NEW l \in Seq(S), NEW key \in [S -> Int], Ascends(l, key), NEW e \in S,
         NEW k \in 1 .. Len(l) + 1, \A i \in 1 .. k - 1 : key[l[i]] <= key[e],
         \A i \in k .. Len(l) : key[e] <= key[l[i]]
  PROVE  Ascends(InsertAt(l, k, e), key)
<1> DEFINE r == InsertAt(l, k, e)
           from(i) == IF i < k THEN i ELSE i - 1
<1>1. /\ r \in Seq(S) /\ Len(r) = Len(l) + 1 /\ r[k] = e
      /\ \A i \in 1 .. k - 1 : r[i] = l[i]
      /\ \A i \in k + 1 .. Len(l) + 1 : r[i] = l[i - 1]
  BY InsertAtList
<1> HIDE DEF r
<1>2. ASSUME NEW i \in 1 .. Len(r), i # k PROVE from(i) \in 1 .. Len(l) /\ r[i] = l[from(i)]
  <2>1. CASE i < k
    <3>1. i \in 1 .. k - 1 /\ i \in 1 .. Len(l)
      BY <1>1, <2>1
    <3>2. QED  BY <1>1, <2>1, <3>1
  <2>2. CASE i > k
    <3>1. i \in k + 1 .. Len(l) + 1 /\ i - 1 \in 1 .. Len(l)
      BY <1>1, <2>2
    <3>2. QED  BY <1>1, <2>2, <3>1
  <2>3. QED  BY <1>1, <1>2, <2>1, <2>2
<1>3. ASSUME NEW i \in 1 .. Len(r), NEW j \in 1 .. Len(r), i < j PROVE key[r[i]] <= key[r[j]]
  <2>1. CASE i = k
    <3>1. j - 1 \in k .. Len(l) /\ j \in k + 1 .. Len(l) + 1
      BY <1>1, <1>3, <2>1
    <3>2. QED  BY <1>1, <2>1, <3>1
  <2>2. CASE j = k
    <3>1. i \in 1 .. k - 1
      BY <1>1, <1>3, <2>2
    <3>2. QED  BY <1>1, <2>2, <3>1
  <2>3. CASE i # k /\ j # k
    <3>1. from(i) < from(j)
      <4>1. i \in Nat /\ j \in Nat /\ k \in Nat
        BY <1>1
      <4>2. QED  BY ONLY <4>1, <1>3, <2>3 DEF from
    <3> HIDE DEF from
    <3>2. QED  BY <1>2, <2>3, <3>1 DEF Ascends
  <2>4. QED  BY <2>1, <2>2, <2>3
<1>4. QED  BY <1>3 DEF Ascends, r

LEMMA RemoveAtAscends ==
  ASSUME NEW S, NEW l \in Seq(S), NEW key, Ascends(l, key), NEW k \in 1 .. Len(l)
  PROVE  Ascends(RemoveAt(l, k), key)
<1> DEFINE r == RemoveAt(l, k)
           from(i) == IF i < k THEN i ELSE i + 1
<1>1. /\ r \in Seq(S) /\ Len(r) = Len(l) - 1
      /\ \A i \in 1 .. k - 1 : r[i] = l[i]
      /\ \A i \in k .. Len(l) - 1 : r[i] = l[i + 1]
  BY RemoveAtList
<1> HIDE DEF r
<1>2. \A i \in 1 .. Len(r) : from(i) \in 1 .. Len(l) /\ r[i] = l[from(i)]
  BY <1>1
<1>3. ASSUME NEW i \in 1 .. Len(r), NEW j \in 1 .. Len(r), i < j PROVE key[r[i]] <= key[r[j]]
  <2>1. from(i) < from(j)
    BY <1>1, <1>3
  <2> HIDE DEF from
  <2>2. QED  BY <1>2, <2>1 DEF Ascends
<1>4. QED  BY <1>3 DEF Ascends, r

\* The last entry has the largest key.
LEMMA LastAscends ==
  ASSUME NEW S, NEW l \in Seq(S), l # <<>>, NEW key \in [S -> Int], Ascends(l, key)
  PROVE  Ascends(Front(l), key) /\ \A p \in ToSet(l) : key[p] <= key[Last(l)]
<1>1. Len(l) \in 1 .. Len(l) /\ Len(l) \in Nat
  OBVIOUS
<1>2. /\ Len(Front(l)) = Len(l) - 1
      /\ \A i \in 1 .. Len(l) - 1 : Front(l)[i] = l[i]
  <2> DEFINE n == Len(l) - 1
  <2>1. n \in 0 .. Len(l) /\ 1 \in 1 .. Len(l) + 1 /\ Len(l) \in Nat
    BY <1>1
  <2> HIDE DEF n
  <2>2. /\ Len(SubSeq(l, 1, n)) = IF 1 <= n THEN n - 1 + 1 ELSE 0
        /\ \A i \in 1 .. n - 1 + 1 : SubSeq(l, 1, n)[i] = l[1 + i - 1]
    BY <2>1, SubSeqList
  <2>3. Len(SubSeq(l, 1, n)) = n /\ \A i \in 1 .. n : SubSeq(l, 1, n)[i] = l[i]
    BY <2>1, <2>2
  <2>4. QED  BY <2>3 DEF Front, n
<1>3. Ascends(Front(l), key)
  BY <1>1, <1>2 DEF Ascends
<1>4. ASSUME NEW p \in ToSet(l) PROVE key[p] <= key[Last(l)]
  <2>1. PICK i \in 1 .. Len(l) : l[i] = p
    BY SetOfList
  <2>2. l[i] \in S /\ key[l[i]] \in Int
    OBVIOUS
  <2>3. CASE i = Len(l)
    BY <2>1, <2>2, <2>3 DEF Last
  <2>4. CASE i < Len(l)
    BY <1>1, <2>1, <2>4 DEF Last, Ascends
  <2>5. QED  BY <1>1, <2>3, <2>4
<1>5. QED  BY <1>3, <1>4

\* f has what g makes of s in 0, 1, ..., n applications.
Iterates(f, n, S, g, s) == f \in [0 .. n -> S] /\ f[0] = s /\ \A i \in 1 .. n : f[i] = g[f[i-1]]

\* There is such a function, so the loops of the models have results.
LEMMA Iterated ==
  ASSUME NEW S, NEW s \in S, NEW g \in [S -> S], NEW n \in Nat
  PROVE  \E f : Iterates(f, n, S, g, s)
<1> DEFINE Fits(f, m) == f \in [0 .. m -> S] /\ f = [i \in 0 .. m |-> IF i = 0 THEN s ELSE g[f[i-1]]]
           T == {m \in Nat : ~ \E f : Fits(f, m)}
<1>1. T = {}
  <2>1. SUFFICES ASSUME T # {} PROVE FALSE
    OBVIOUS
  <2>2. PICK m \in T : \A k \in T : m <= k
    <3>1. Min(T) \in T /\ \A k \in T : Min(T) <= k
      BY <2>1, MinNat
    <3>2. QED  BY <3>1
  <2>3. m \in Nat /\ ~ \E f : Fits(f, m)
    BY <2>2
  <2>4. CASE m = 0
    <3> DEFINE h == [i \in 0 .. 0 |-> s]
    <3>1. Fits(h, 0)
      OBVIOUS
    <3>2. QED  BY <2>3, <2>4, <3>1
  <2>5. CASE m > 0
    <3>1. m - 1 \in Nat /\ m - 1 \notin T
      <4> HIDE DEF T, Fits
      <4>1. m - 1 \in Nat /\ ~(m <= m - 1)
        BY <2>3, <2>5
      <4>2. QED  BY <2>2, <4>1
    <3>2. PICK e : Fits(e, m - 1)
      BY <3>1
    <3> DEFINE h == [i \in 0 .. m |-> IF i = m THEN g[e[m-1]] ELSE e[i]]
    <3>3. \A i \in 0 .. m - 1 : e[i] \in S /\ e[i] = IF i = 0 THEN s ELSE g[e[i-1]]
      BY <3>2
    <3>4. \A i \in 0 .. m : h[i] \in S /\ h[i] = IF i = 0 THEN s ELSE g[h[i-1]]
      <4>1. TAKE i \in 0 .. m
      <4>2. CASE i = m
        <5>1. h[i] = g[e[m-1]] /\ h[m-1] = e[m-1] /\ m - 1 \in 0 .. m - 1
          BY <2>3, <2>5, <4>2
        <5>2. e[m-1] \in S
          BY <3>3, <5>1
        <5> HIDE DEF h
        <5>3. QED  BY <2>5, <4>2, <5>1, <5>2
      <4>3. CASE i < m
        <5>1. h[i] = e[i] /\ i \in 0 .. m - 1
          BY <2>3, <4>3
        <5>2. i # 0 => h[i-1] = e[i-1]
          BY <2>3, <4>3
        <5> HIDE DEF h
        <5>3. QED  BY <3>3, <5>1, <5>2
      <4>4. QED  BY <2>3, <4>2, <4>3
    <3>5. h = [i \in 0 .. m |-> h[i]]
      OBVIOUS
    <3> HIDE DEF h
    <3>6. h \in [0 .. m -> S]
      BY <3>4, <3>5
    <3>7. h = [i \in 0 .. m |-> IF i = 0 THEN s ELSE g[h[i-1]]]
      BY <3>4, <3>5
    <3>8. QED  BY <2>3, <3>6, <3>7
  <2>6. QED  BY <2>3, <2>4, <2>5
<1>2. PICK f : Fits(f, n)
  BY <1>1
<1>3. f[0] = s /\ \A i \in 1 .. n : f[i] = g[f[i-1]]
  <2>1. 0 \in 0 .. n /\ \A i \in 1 .. n : i \in 0 .. n /\ i # 0
    OBVIOUS
  <2>2. QED  BY ONLY <1>2, <2>1
<1>4. QED  BY <1>2, <1>3 DEF Iterates
==============================================================================
