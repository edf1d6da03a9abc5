----------------------------- MODULE MemoryProofs -----------------------------
(***************************************************************************)
(* The heap, for every length of it and every sequence of requests: the    *)
(* free list stays ordered with gaps between its blocks, and every word is *)
(* free or in exactly one block that was handed out.                       *)
(***************************************************************************)
EXTENDS Memory, ListLemmas, FiniteSetTheorems

Blocks == [at : Nat, len : Nat]
Indices(l) == 1 .. Len(l)

\* FreeListSound of an arbitrary list.
Sound(l) ==
  /\ l \in Seq(Blocks)
  /\ \A i \in Indices(l) : l[i].len > 0
  /\ \A i, j \in Indices(l) : i < j => Top(l[i]) < l[j].at

\* The same, except that block k may touch the one behind it.
Touching(l, k) ==
  /\ l \in Seq(Blocks)
  /\ \A i \in Indices(l) : l[i].len > 0
  /\ \A i, j \in Indices(l) : i < j =>
       Top(l[i]) < l[j].at \/ (i = k /\ j = k + 1 /\ Top(l[i]) = l[j].at)

Covers(l, w) == \E i \in Indices(l) : w \in Words(l[i])
Holds(b, w) == b.at <= w /\ w < Top(b)

\* Which words a block holds.
LEMMA WordsOf ==
  ASSUME NEW b \in Blocks, NEW w
  PROVE  w \in Words(b) <=> w \in Int /\ Holds(b, w)
BY DEF Words, Holds, Top, Blocks

------------------------------------------------------------------------------
(* The list operations.                                                     *)

\* A word is in at most one block of a sound list.
LEMMA DisjointBlocks ==
  ASSUME NEW l, Sound(l), NEW i \in Indices(l), NEW j \in Indices(l),
         NEW w, w \in Words(l[i]), w \in Words(l[j])
  PROVE  i = j
<1>1. l[i] \in Blocks /\ l[j] \in Blocks /\ i \in Int /\ j \in Int
  BY DEF Sound, Indices
<1>2. w \in Int /\ Holds(l[i], w) /\ Holds(l[j], w)
  BY <1>1, WordsOf
<1>3. ~(i < j) /\ ~(j < i)
  <2>1. l[i].at \in Int /\ Top(l[i]) \in Int /\ l[j].at \in Int /\ Top(l[j]) \in Int
    BY ONLY <1>1 DEF Top, Blocks
  <2>2. (i < j => Top(l[i]) < l[j].at) /\ (j < i => Top(l[j]) < l[i].at)
    BY DEF Sound
  <2>3. l[i].at <= w /\ w < Top(l[i]) /\ l[j].at <= w /\ w < Top(l[j])
    BY <1>2 DEF Holds
  <2>4. QED  BY <1>2, <2>1, <2>2, <2>3
<1>4. QED  BY <1>1, <1>3

\* Removing a block leaves a sound list without that block's words.
LEMMA RemoveSound ==
  ASSUME NEW l, Sound(l), NEW k \in Indices(l)
  PROVE  /\ Sound(RemoveAt(l, k))
         /\ \A w : Covers(RemoveAt(l, k), w) <=> Covers(l, w) /\ w \notin Words(l[k])
<1> DEFINE r == RemoveAt(l, k)
<1>1. l \in Seq(Blocks) /\ k \in 1 .. Len(l)
  BY DEF Sound, Indices
<1>2. /\ r \in Seq(Blocks) /\ Len(r) = Len(l) - 1
      /\ \A i \in 1 .. k - 1 : r[i] = l[i]
      /\ \A i \in k .. Len(l) - 1 : r[i] = l[i + 1]
  BY <1>1, RemoveAtList
<1> DEFINE from(i) == IF i < k THEN i ELSE i + 1
<1>3. \A i \in Indices(r) : from(i) \in Indices(l) /\ from(i) # k /\ r[i] = l[from(i)]
  BY <1>1, <1>2 DEF Indices
<1>4. \A i, j \in Indices(r) : i < j => from(i) < from(j)
  BY <1>1, <1>2 DEF Indices
<1>5. \A i \in Indices(l) : i # k => \E j \in Indices(r) : r[j] = l[i]
  <2>1. TAKE i \in Indices(l)
  <2>2. ASSUME i < k PROVE i \in Indices(r) /\ r[i] = l[i]
    BY <1>1, <1>2, <2>2 DEF Indices
  <2>3. ASSUME i > k PROVE i - 1 \in Indices(r) /\ r[i - 1] = l[i]
    <3>1. i - 1 \in k .. Len(l) - 1 /\ i - 1 + 1 = i
      BY <1>1, <2>3 DEF Indices
    <3>2. QED  BY <3>1, <1>1, <1>2 DEF Indices
  <2>4. QED  BY <2>2, <2>3, <1>1 DEF Indices
<1> HIDE DEF r, from
<1>6. Sound(r)
  <2>1. \A i \in Indices(r) : r[i].len > 0
    BY <1>3 DEF Sound
  <2>2. ASSUME NEW i \in Indices(r), NEW j \in Indices(r), i < j PROVE Top(r[i]) < r[j].at
    BY <1>3, <1>4, <2>2 DEF Sound
  <2>3. QED  BY <1>2, <2>1, <2>2 DEF Sound
<1>7. ASSUME NEW w PROVE Covers(r, w) <=> Covers(l, w) /\ w \notin Words(l[k])
  <2>1. ASSUME Covers(r, w) PROVE Covers(l, w) /\ w \notin Words(l[k])
    <3>1. PICK i \in Indices(r) : w \in Words(r[i])
      BY <2>1 DEF Covers
    <3>2. from(i) \in Indices(l) /\ from(i) # k /\ w \in Words(l[from(i)])
      BY <1>3, <3>1
    <3>3. QED  BY <3>2, DisjointBlocks DEF Covers
  <2>2. ASSUME Covers(l, w), w \notin Words(l[k]) PROVE Covers(r, w)
    BY <1>5, <2>2 DEF Covers
  <2>3. QED  BY <2>1, <2>2
<1>8. QED  BY <1>6, <1>7 DEF r

\* Cutting a block at either end leaves a sound list without the words cut off.
LEMMA ShrinkSound ==
  ASSUME NEW l, Sound(l), NEW k \in Indices(l), NEW b \in Blocks,
         b.len > 0, l[k].at <= b.at, Top(b) <= Top(l[k])
  PROVE  /\ Sound([l EXCEPT ![k] = b])
         /\ \A w : Covers([l EXCEPT ![k] = b], w)
                     <=> (Covers(l, w) /\ w \notin Words(l[k])) \/ w \in Words(b)
<1> DEFINE r == [l EXCEPT ![k] = b]
<1>1. l \in Seq(Blocks) /\ \A i \in Indices(l) : l[i] \in Blocks
  BY DEF Sound, Indices
<1>2. /\ r \in Seq(Blocks) /\ Indices(r) = Indices(l)
      /\ \A i \in Indices(l) : r[i] = IF i = k THEN b ELSE l[i]
  BY <1>1 DEF Indices
<1> HIDE DEF r
<1>3. Sound(r)
  <2>1. ASSUME NEW i \in Indices(r) PROVE r[i].len > 0
    <3>1. l[i].len > 0
      BY <1>2 DEF Sound
    <3>2. QED  BY <1>2, <3>1
  <2>2. ASSUME NEW i \in Indices(r), NEW j \in Indices(r), i < j PROVE Top(r[i]) < r[j].at
    <3>1. Top(l[i]) < l[j].at
      BY <1>2, <2>2 DEF Sound
    <3>2. i # j /\ i \in Indices(l) /\ j \in Indices(l)
      BY <1>1, <1>2, <2>2 DEF Indices
    <3>3. CASE i = k
      <4>1. r[i] = b /\ r[j] = l[j]
        BY <3>2, <3>3, <1>2
      <4>2. l[j].at \in Int /\ Top(b) \in Int /\ Top(l[k]) \in Int
        <5>1. l[j] \in Blocks /\ l[k] \in Blocks
          BY <3>2, <1>1
        <5>2. QED  BY ONLY <5>1, b \in Blocks DEF Top, Blocks
      <4>3. QED  BY <3>1, <3>3, <4>1, <4>2
    <3>4. CASE j = k
      <4>1. r[i] = l[i] /\ r[j] = b
        BY <3>2, <3>4, <1>2
      <4>2. l[j].at \in Int /\ b.at \in Int /\ Top(l[i]) \in Int
        <5>1. l[j] \in Blocks /\ l[i] \in Blocks
          BY <3>2, <1>1
        <5>2. QED  BY ONLY <5>1, b \in Blocks DEF Top, Blocks
      <4>3. QED  BY <3>1, <3>4, <4>1, <4>2
    <3>5. QED  BY <3>1, <3>2, <3>3, <3>4, <1>2
  <2>3. QED  BY <1>2, <2>1, <2>2 DEF Sound
<1>4. ASSUME NEW w
      PROVE  Covers(r, w) <=> (Covers(l, w) /\ w \notin Words(l[k])) \/ w \in Words(b)
  <2>1. ASSUME NEW i \in Indices(l), i # k, w \in Words(l[i]) PROVE w \notin Words(l[k])
    BY <2>1, DisjointBlocks
  <2>2. QED  BY <1>2, <2>1 DEF Covers
<1>5. QED  BY <1>3, <1>4 DEF r

\* Joining block k with the one behind it, where they touch, leaves a sound list of the same words.
LEMMA JoinSound ==
  ASSUME NEW l, NEW k \in Indices(l), Touching(l, k)
  PROVE  Sound(Joined(l, k)) /\ \A w : Covers(Joined(l, k), w) <=> Covers(l, w)
<1>1. l \in Seq(Blocks) /\ \A i \in Indices(l) : l[i] \in Blocks /\ i \in Nat
  BY DEF Touching, Indices
<1>2. ASSUME ~(k >= 1 /\ k < Len(l) /\ Top(l[k]) = l[k+1].at)
      PROVE  Joined(l, k) = l /\ Sound(l)
  <2>1. Joined(l, k) = l
    BY <1>2 DEF Joined
  <2>2. ASSUME NEW i \in Indices(l), NEW j \in Indices(l), i < j PROVE Top(l[i]) < l[j].at
    <3>1. ~(i = k /\ j = k + 1 /\ Top(l[i]) = l[j].at)
      BY <1>2 DEF Indices
    <3>2. QED  BY <2>2, <3>1 DEF Touching
  <2>3. QED  BY <1>1, <2>1, <2>2 DEF Sound, Touching
<1>3. ASSUME k >= 1, k < Len(l), Top(l[k]) = l[k+1].at
      PROVE  Sound(Joined(l, k)) /\ \A w : Covers(Joined(l, k), w) <=> Covers(l, w)
  <2> DEFINE m == [l EXCEPT ![k].len = @ + l[k+1].len]
             r == RemoveAt(m, k + 1)
             from(i) == IF i <= k THEN i ELSE i + 1
  <2>1. Joined(l, k) = r
    BY <1>3 DEF Joined
  <2>2. k \in 1 .. Len(l) /\ k + 1 \in Indices(l) /\ l[k] \in Blocks /\ l[k+1] \in Blocks
    BY <1>1, <1>3 DEF Indices
  <2>3. /\ m \in Seq(Blocks) /\ Len(m) = Len(l)
        /\ m[k].at = l[k].at /\ Top(m[k]) = Top(l[k+1]) /\ m[k].len > 0 /\ m[k] \in Blocks
        /\ \A i \in 1 .. Len(l) : i # k => m[i] = l[i]
    <3>1. [l[k] EXCEPT !.len = @ + l[k+1].len] \in Blocks
      BY <2>2 DEF Blocks
    <3>2. m \in Seq(Blocks) /\ Len(m) = Len(l) /\ \A i \in 1 .. Len(l) : i # k => m[i] = l[i]
      BY <1>1, <3>1, <2>2
    <3>3. m[k] = [l[k] EXCEPT !.len = @ + l[k+1].len]
      BY <1>1, <2>2
    <3>4. m[k].at = l[k].at /\ m[k].len = l[k].len + l[k+1].len
      BY <3>3, <2>2 DEF Blocks
    <3>5. l[k].len > 0 /\ l[k+1].len > 0
      BY <2>2 DEF Touching
    <3>6. l[k].at \in Nat /\ l[k].len \in Nat /\ l[k+1].at \in Nat /\ l[k+1].len \in Nat
      BY <2>2 DEF Blocks
    <3>7. Top(m[k]) = Top(l[k+1])
      <4>1. l[k].at + l[k].len = l[k+1].at
        BY <1>3 DEF Top
      <4>2. QED  BY <3>4, <3>6, <4>1 DEF Top
    <3>8. m[k].len > 0
      BY <3>4, <3>5, <3>6
    <3>9. QED  BY <3>1, <3>2, <3>3, <3>4, <3>7, <3>8
  <2> HIDE DEF m
  <2>4. /\ r \in Seq(Blocks) /\ Len(r) = Len(l) - 1
        /\ \A i \in 1 .. k : r[i] = m[i]
        /\ \A i \in k + 1 .. Len(l) - 1 : r[i] = m[i + 1]
    <3>1. k + 1 \in 1 .. Len(m) /\ k + 1 - 1 = k
      BY <2>2, <2>3 DEF Indices
    <3>2. /\ r \in Seq(Blocks) /\ Len(r) = Len(m) - 1
          /\ \A i \in 1 .. k + 1 - 1 : r[i] = m[i]
          /\ \A i \in k + 1 .. Len(m) - 1 : r[i] = m[i + 1]
      <4> DEFINE n == k + 1
      <4>1. n \in 1 .. Len(m)
        BY <3>1
      <4> HIDE DEF n
      <4>2. /\ RemoveAt(m, n) \in Seq(Blocks) /\ Len(RemoveAt(m, n)) = Len(m) - 1
            /\ \A i \in 1 .. n - 1 : RemoveAt(m, n)[i] = m[i]
            /\ \A i \in n .. Len(m) - 1 : RemoveAt(m, n)[i] = m[i + 1]
        BY <2>3, <4>1, RemoveAtList
      <4>3. n = k + 1 /\ RemoveAt(m, n) = r
        BY DEF n
      <4> HIDE DEF r
      <4>4. n - 1 = k /\ k + 1 - 1 = k
        BY <4>3, <2>2
      <4>5. QED  BY <4>2, <4>3, <4>4
    <3>3. QED  BY <2>3, <3>1, <3>2
  <2>5. /\ \A i \in Indices(r) : from(i) \in Indices(l) /\ from(i) # k + 1
                                   /\ r[i] = IF i = k THEN m[k] ELSE l[from(i)]
        /\ k \in Indices(r)
    <3>1. k \in Indices(r)
      BY <2>2, <2>4, <1>3, <1>1 DEF Indices
    <3>2. ASSUME NEW i \in Indices(r), i <= k
          PROVE  from(i) \in Indices(l) /\ from(i) # k + 1
                 /\ r[i] = IF i = k THEN m[k] ELSE l[from(i)]
      BY <2>2, <2>3, <2>4, <1>1, <3>2 DEF Indices
    <3>3. ASSUME NEW i \in Indices(r), i > k
          PROVE  from(i) \in Indices(l) /\ from(i) # k + 1
                 /\ r[i] = IF i = k THEN m[k] ELSE l[from(i)]
      <4>1. i \in k + 1 .. Len(l) - 1 /\ i + 1 \in 1 .. Len(l) /\ i + 1 # k /\ from(i) = i + 1 /\ i # k
        BY <2>2, <2>4, <1>1, <3>3 DEF Indices
      <4>2. r[i] = m[i + 1] /\ m[i + 1] = l[i + 1]
        BY <2>3, <2>4, <4>1
      <4>3. QED  BY <4>1, <4>2 DEF Indices
    <3>4. QED  BY <3>1, <3>2, <3>3, <2>2, <2>4 DEF Indices
  <2>6. \A i, j \in Indices(r) : i < j => from(i) < from(j) /\ (i # k \/ from(j) > k + 1) /\ i # j
    BY <2>2, <2>4 DEF Indices
  <2>7. \A i \in Indices(l) : i # k /\ i # k + 1 => \E j \in Indices(r) : r[j] = l[i]
    <3>1. TAKE i \in Indices(l)
    <3>2. ASSUME i < k PROVE i \in Indices(r) /\ r[i] = l[i]
      BY <2>2, <2>3, <2>4, <3>2 DEF Indices
    <3>3. ASSUME i > k + 1 PROVE i - 1 \in Indices(r) /\ r[i - 1] = l[i]
      <4>1. i - 1 \in k + 1 .. Len(l) - 1 /\ i - 1 + 1 = i /\ i \in 1 .. Len(l) /\ i # k
        BY <2>2, <3>3 DEF Indices
      <4>2. QED  BY <4>1, <2>2, <2>3, <2>4 DEF Indices
    <3>4. QED  BY <3>2, <3>3, <2>2 DEF Indices
  <2> HIDE DEF r, from
  <2>8. Sound(r)
    <3>1. ASSUME NEW i \in Indices(r) PROVE r[i].len > 0
      BY <2>2, <2>3, <2>5 DEF Touching
    <3>2. ASSUME NEW i \in Indices(r), NEW j \in Indices(r), i < j PROVE Top(r[i]) < r[j].at
      <4>1. from(i) \in Indices(l) /\ from(j) \in Indices(l) /\ from(i) < from(j)
            /\ from(j) # k + 1 /\ from(i) # k + 1
        BY <2>5, <2>6, <3>2
      <4>2. Top(l[from(i)]) < l[from(j)].at
        BY <4>1 DEF Touching
      <4>3. CASE i = k
        <5>1. k + 1 < from(j)
          BY <2>6, <3>2, <4>3, <2>2, <4>1 DEF Indices
        <5>2. Top(l[k+1]) < l[from(j)].at
          <6>1. ~(k + 1 = k)
            BY <2>2
          <6>2. QED  BY <5>1, <4>1, <2>2, <6>1 DEF Touching
        <5>3. j # k
          BY <3>2, <2>6, <4>3
        <5>4. QED  BY <5>2, <5>3, <2>3, <2>5, <4>3
      <4>4. CASE j = k
        <5>1. r[j].at = l[k].at /\ from(j) = k
          BY <4>4, <2>3, <2>5, <2>2 DEF from
        <5>2. i # k
          BY <3>2, <2>6, <4>4
        <5>3. QED  BY <5>1, <5>2, <4>2, <2>5
      <4>5. QED  BY <4>2, <4>3, <4>4, <2>5
    <3>3. QED  BY <2>4, <3>1, <3>2 DEF Sound
  <2>9. ASSUME NEW w PROVE Covers(r, w) <=> Covers(l, w)
    <3>1. w \in Words(m[k]) <=> w \in Words(l[k]) \/ w \in Words(l[k+1])
      <4>1. ASSUME w \in Int
            PROVE  Holds(m[k], w) <=> Holds(l[k], w) \/ Holds(l[k+1], w)
        <5>1. l[k].len > 0 /\ l[k+1].len > 0
          BY <2>2 DEF Touching
        <5>2. l[k].at \in Nat /\ l[k].len \in Nat /\ l[k+1].at \in Nat /\ l[k+1].len \in Nat
          BY <2>2 DEF Blocks
        <5>3. Holds(m[k], w) <=> l[k].at <= w /\ w < Top(l[k+1])
          BY <2>3 DEF Holds
        <5>4. l[k].at + l[k].len = l[k+1].at
          BY <1>3 DEF Top
        <5>5. QED  BY <4>1, <5>1, <5>2, <5>3, <5>4 DEF Holds, Top
      <4>2. QED  BY <4>1, <2>2, <2>3, WordsOf
    <3>2. ASSUME Covers(r, w) PROVE Covers(l, w)
      <4>1. PICK i \in Indices(r) : w \in Words(r[i])
        BY <3>2 DEF Covers
      <4>2. CASE i = k
        BY <4>1, <4>2, <2>5, <3>1, <2>2 DEF Covers
      <4>3. CASE i # k
        BY <4>1, <4>3, <2>5 DEF Covers
      <4>4. QED  BY <4>2, <4>3
    <3>3. ASSUME Covers(l, w) PROVE Covers(r, w)
      <4>1. PICK i \in Indices(l) : w \in Words(l[i])
        BY <3>3 DEF Covers
      <4>2. CASE i = k \/ i = k + 1
        BY <4>1, <4>2, <2>5, <3>1 DEF Covers
      <4>3. CASE i # k /\ i # k + 1
        BY <4>1, <4>3, <2>7 DEF Covers
      <4>4. QED  BY <4>2, <4>3
    <3>4. QED  BY <3>2, <3>3
  <2>10. QED  BY <2>1, <2>8, <2>9
<1>4. QED  BY <1>2, <1>3

------------------------------------------------------------------------------
(* Where a block given back goes.                                           *)

LEMMA PrefixSize ==
  ASSUME NEW n \in Nat
  PROVE  Cardinality(1 .. n) = n
BY FS_Interval

\* Before(b) counts a beginning of the list: the blocks at lower addresses come first.
LEMMA BeforeIsPrefix ==
  ASSUME Sound(memlist), NEW b \in Blocks
  PROVE  /\ Before(b) \in 0 .. Len(memlist)
         /\ \A i \in Indices(memlist) : memlist[i].at < b.at <=> i <= Before(b)
<1> DEFINE T == {i \in Indices(memlist) : memlist[i].at < b.at}
           C == {i \in Indices(memlist) : b.at <= memlist[i].at}
<1>1. /\ Len(memlist) \in Nat /\ b.at \in Int
      /\ \A i \in Indices(memlist) : i \in Nat /\ memlist[i] \in Blocks /\ memlist[i].at \in Int
  <2>1. Len(memlist) \in Nat /\ \A i \in Indices(memlist) : i \in Nat /\ memlist[i] \in Blocks
    BY DEF Sound, Indices
  <2>2. QED  BY <2>1 DEF Blocks
<1>2. \A i, j \in Indices(memlist) : i < j => memlist[i].at < memlist[j].at
  <2>1. SUFFICES ASSUME NEW i \in Indices(memlist), NEW j \in Indices(memlist), i < j
                 PROVE  memlist[i].at < memlist[j].at
    OBVIOUS
  <2>2. Top(memlist[i]) < memlist[j].at
    BY <2>1 DEF Sound
  <2>3. memlist[i] \in Blocks /\ memlist[j].at \in Int
    BY <1>1
  <2>4. memlist[i].at \in Int /\ memlist[i].at <= Top(memlist[i]) /\ Top(memlist[i]) \in Int
    BY ONLY <2>3 DEF Top, Blocks
  <2>5. QED  BY <2>2, <2>3, <2>4
<1>3. Before(b) = Cardinality(T)
  BY DEF Before, Indices
<1>4. CASE C = {}
  <2>1. T = 1 .. Len(memlist)
    BY <1>1, <1>4 DEF Indices
  <2>2. ASSUME NEW i \in Indices(memlist) PROVE memlist[i].at < b.at /\ i <= Len(memlist)
    BY <1>1, <1>4 DEF Indices
  <2> HIDE DEF T
  <2>3. Before(b) = Len(memlist)
    BY <1>1, <1>3, <2>1, PrefixSize
  <2>4. QED  BY <1>1, <2>2, <2>3
<1>5. CASE C # {}
  <2> DEFINE m == Min(C)
  <2>1. m \in C /\ \A y \in C : m <= y
    BY <1>1, <1>5, MinNat
  <2> HIDE DEF m
  <2>2. m \in 1 .. Len(memlist) /\ b.at <= memlist[m].at
    BY <2>1 DEF Indices
  <2>3. ASSUME NEW i \in Indices(memlist) PROVE memlist[i].at < b.at <=> i <= m - 1
    <3>1. CASE i < m
      BY <3>1, <2>1, <2>2, <1>1 DEF Indices
    <3>2. CASE i = m
      BY <3>2, <2>2, <1>1
    <3>3. CASE m < i
      <4>1. memlist[m].at < memlist[i].at
        BY <3>3, <1>2, <2>2 DEF Indices
      <4>2. QED  BY <4>1, <3>3, <2>2, <1>1 DEF Indices
    <3>4. QED  BY <3>1, <3>2, <3>3, <2>2, <1>1
  <2>4. T = 1 .. m - 1
    BY <2>2, <2>3, <1>1 DEF Indices
  <2> HIDE DEF T
  <2>5. Before(b) = m - 1
    BY <1>3, <2>2, <2>4, PrefixSize, m - 1 \in Nat
  <2>6. QED  BY <2>2, <2>3, <2>5
<1>6. QED  BY <1>4, <1>5

\* A block linked in leaves a list of blocks.
LEMMA InsertBlock ==
  ASSUME NEW l \in Seq(Blocks), NEW b \in Blocks, NEW k \in 1 .. Len(l) + 1
  PROVE  /\ InsertAt(l, k, b) \in Seq(Blocks) /\ Len(InsertAt(l, k, b)) = Len(l) + 1
         /\ \A i \in 1 .. k - 1 : InsertAt(l, k, b)[i] = l[i]
         /\ InsertAt(l, k, b)[k] = b
         /\ \A i \in k + 1 .. Len(l) + 1 : InsertAt(l, k, b)[i] = l[i - 1]
BY InsertAtList

\* freemem: what it does not refuse it links in, and the list stays sound.
LEMMA FreedSound ==
  ASSUME Sound(memlist), NEW b \in Blocks,
         b.len > 0, ~Refused(b)
  PROVE  /\ Sound(Freed(b))
         /\ \A w : Covers(Freed(b), w) <=> Covers(memlist, w) \/ w \in Words(b)
<1> DEFINE l == memlist
           k == Before(b)
<1>1. /\ l \in Seq(Blocks) /\ Len(l) \in Nat
      /\ \A i \in Indices(l) : i \in Nat /\ l[i] \in Blocks
  BY DEF Sound, Indices
<1>2. k \in 0 .. Len(l) /\ \A i \in Indices(l) : l[i].at < b.at <=> i <= k
  BY BeforeIsPrefix
<1>3. /\ k > 0 => Top(l[k]) <= b.at
      /\ k < Len(l) => Top(b) <= l[k+1].at
  <2>1. k > 0 => k \in Indices(l)
    BY <1>1, <1>2 DEF Indices
  <2>2. k < Len(l) => k + 1 \in Indices(l)
    BY <1>1, <1>2 DEF Indices
  <2>3. Top(b) \in Int /\ b.at \in Int /\ \A i \in Indices(l) : Top(l[i]) \in Int /\ l[i].at \in Int
    BY <1>1 DEF Top, Blocks
  <2>4. QED  BY <2>1, <2>2, <2>3 DEF Refused
<1> HIDE DEF k
<1>4. ASSUME NEW i \in Indices(l), i < k PROVE Top(l[i]) < b.at
  <2>1. k \in Indices(l) /\ i # k
    BY <1>1, <1>2, <1>4 DEF Indices
  <2>2. Top(l[i]) < l[k].at /\ Top(l[k]) <= b.at
    BY <1>1, <1>2, <1>3, <1>4, <2>1 DEF Sound
  <2>3. l[k].at <= Top(l[k]) /\ l[k].at \in Int /\ Top(l[k]) \in Int /\ Top(l[i]) \in Int /\ b.at \in Int
    <3>1. l[i] \in Blocks /\ l[k] \in Blocks
      BY <1>1, <2>1
    <3>2. QED  BY ONLY <3>1, b \in Blocks DEF Top, Blocks
  <2>4. QED  BY <2>2, <2>3
<1>5. ASSUME NEW j \in Indices(l), k + 1 < j PROVE Top(b) < l[j].at
  <2>1. k + 1 \in Indices(l)
    BY <1>1, <1>2, <1>5 DEF Indices
  <2>2. Top(l[k+1]) < l[j].at /\ Top(b) <= l[k+1].at /\ l[k+1].len > 0
    <3>1. k < Len(l)
      BY <1>1, <1>2, <2>1 DEF Indices
    <3>2. QED  BY <1>3, <1>5, <2>1, <3>1 DEF Sound
  <2>3. l[k+1] \in Blocks /\ l[j] \in Blocks
    BY <1>1, <2>1
  <2>4. QED  BY <2>2, <2>3 DEF Top, Blocks
<1>6. CASE k > 0 /\ Top(l[k]) = b.at
  <2> DEFINE m == [l EXCEPT ![k].len = @ + b.len]
  <2>1. k \in Indices(l) /\ k \in 1 .. Len(l) /\ l[k] \in Blocks /\ l[k].len > 0
    BY <1>1, <1>2, <1>6 DEF Indices, Sound
  <2>2. Freed(b) = Joined(m, k)
    BY <1>6 DEF Freed, k
  <2>3. /\ m \in Seq(Blocks) /\ Indices(m) = Indices(l)
        /\ m[k] \in Blocks /\ m[k].at = l[k].at /\ m[k].len > 0 /\ Top(m[k]) = Top(b)
        /\ \A i \in Indices(l) : i # k => m[i] = l[i]
    <3>1. [l[k] EXCEPT !.len = @ + b.len] \in Blocks
      BY <2>1 DEF Blocks
    <3>2. m \in Seq(Blocks) /\ Len(m) = Len(l) /\ \A i \in Indices(l) : i # k => m[i] = l[i]
      BY <1>1, <2>1, <3>1 DEF Indices
    <3>3. m[k] = [l[k] EXCEPT !.len = @ + b.len]
      BY <1>1, <2>1
    <3>4. m[k].at = l[k].at /\ m[k].len = l[k].len + b.len
      BY <3>3, <2>1 DEF Blocks
    <3>5. QED  BY <3>1, <3>2, <3>3, <3>4, <2>1, <1>6 DEF Top, Blocks, Indices
  <2> HIDE DEF m
  <2>4. Touching(m, k)
    <3>1. ASSUME NEW i \in Indices(m) PROVE m[i].len > 0
      BY <2>3 DEF Sound
    <3>2. ASSUME NEW i \in Indices(m), NEW j \in Indices(m), i < j
          PROVE  Top(m[i]) < m[j].at \/ (i = k /\ j = k + 1 /\ Top(m[i]) = m[j].at)
      <4>1. i # j /\ Top(l[i]) < l[j].at
        BY <2>3, <3>2, <1>1 DEF Sound
      <4>2. CASE i = k
        <5>1. m[i] = m[k] /\ m[j] = l[j] /\ l[j].at \in Int /\ Top(b) \in Int
          <6>1. m[i] = m[k] /\ m[j] = l[j] /\ l[j] \in Blocks
            BY <4>1, <4>2, <2>3, <1>1
          <6>2. QED  BY <6>1 DEF Blocks, Top
        <5>2. CASE j = k + 1
          <6>1. k < Len(l)
            BY <5>2, <2>1, <2>3, <1>1 DEF Indices
          <6>2. Top(b) <= l[j].at
            BY <6>1, <1>3, <5>2
          <6>3. QED  BY <4>2, <5>1, <5>2, <6>2, <2>3
        <5>3. CASE k + 1 < j
          BY <5>1, <5>3, <1>5, <2>3
        <5>4. i \in Nat /\ j \in Nat /\ k \in Nat
          BY <1>1, <2>1, <2>3
        <5>5. j = k + 1 \/ k + 1 < j
          BY <3>2, <4>2, <5>4
        <5>6. QED  BY <5>2, <5>3, <5>5
      <4>3. CASE j = k
        BY <4>1, <4>3, <2>3
      <4>4. CASE i # k /\ j # k
        BY <4>1, <4>4, <2>3
      <4>5. QED  BY <4>2, <4>3, <4>4
    <3>3. QED  BY <2>3, <3>1, <3>2 DEF Touching
  <2>5. ASSUME NEW w PROVE Covers(m, w) <=> Covers(l, w) \/ w \in Words(b)
    <3>1. w \in Words(m[k]) <=> w \in Words(l[k]) \/ w \in Words(b)
      <4>1. ASSUME w \in Int
            PROVE  Holds(m[k], w) <=> Holds(l[k], w) \/ Holds(b, w)
        <5>1. l[k].at \in Nat /\ l[k].len \in Nat /\ b.at \in Nat /\ b.len \in Nat
          BY <2>1 DEF Blocks
        <5>2. Holds(m[k], w) <=> l[k].at <= w /\ w < Top(b)
          BY <2>3 DEF Holds
        <5>3. l[k].at + l[k].len = b.at
          BY <1>6 DEF Top
        <5>4. QED  BY <4>1, <2>1, <5>1, <5>2, <5>3 DEF Holds, Top
      <4>2. QED  BY <4>1, <2>1, <2>3, WordsOf
    <3>2. QED  BY <3>1, <2>1, <2>3 DEF Covers
  <2>6. k \in Indices(m)
    BY <2>1, <2>3
  <2>7. QED  BY <2>2, <2>4, <2>5, <2>6, JoinSound
<1>7. CASE ~ (k > 0 /\ Top(l[k]) = b.at)
  <2> DEFINE n == k + 1
             m == InsertAt(l, n, b)
             from(i) == IF i < n THEN i ELSE i - 1
  <2>1. Freed(b) = Joined(m, n)
    BY <1>7 DEF Freed, k
  <2>2. n \in 1 .. Len(l) + 1 /\ n = k + 1 /\ n - 1 = k /\ k \in Nat
    BY <1>1, <1>2
  <2> HIDE DEF n
  <2>3. /\ m \in Seq(Blocks) /\ Len(m) = Len(l) + 1
        /\ \A i \in 1 .. n - 1 : m[i] = l[i]
        /\ m[n] = b
        /\ \A i \in n + 1 .. Len(l) + 1 : m[i] = l[i - 1]
    BY <1>1, <2>2, InsertBlock
  <2> HIDE DEF m
  <2>4. n \in Indices(m)
    BY <2>2, <2>3, <1>1 DEF Indices
  <2>5. \A i \in Indices(m) : i # n => from(i) \in Indices(l) /\ m[i] = l[from(i)]
    BY <2>2, <2>3, <1>1 DEF Indices
  <2>6. \A i, j \in Indices(m) : i < j /\ i # n /\ j # n => from(i) < from(j)
    BY <2>2, <2>3, <1>1 DEF Indices
  <2>7. \A i \in Indices(l) : \E j \in Indices(m) : m[j] = l[i]
    <3>1. TAKE i \in Indices(l)
    <3>2. ASSUME i < n PROVE i \in Indices(m) /\ m[i] = l[i]
      BY <2>2, <2>3, <1>1, <3>2 DEF Indices
    <3>3. ASSUME i >= n PROVE i + 1 \in Indices(m) /\ m[i + 1] = l[i]
      <4>1. i + 1 \in n + 1 .. Len(l) + 1 /\ i + 1 - 1 = i
        BY <2>2, <1>1, <3>3 DEF Indices
      <4>2. QED  BY <4>1, <2>2, <2>3, <1>1 DEF Indices
    <3>4. QED  BY <3>2, <3>3, <2>2, <1>1
  <2>8. Touching(m, n)
    <3>1. ASSUME NEW i \in Indices(m) PROVE m[i].len > 0
      BY <2>3, <2>5 DEF Sound
    <3>2. ASSUME NEW i \in Indices(m), NEW j \in Indices(m), i < j
          PROVE  Top(m[i]) < m[j].at \/ (i = n /\ j = n + 1 /\ Top(m[i]) = m[j].at)
      <4>1. i # j /\ i \in Int /\ j \in Int
        BY <3>2 DEF Indices
      <4>2. CASE i = n
        <5>1. from(j) = j - 1 /\ from(j) \in Indices(l) /\ m[j] = l[from(j)] /\ m[i] = b
          BY <4>1, <4>2, <3>2, <2>2, <2>3, <2>5
        <5>2. CASE j = n + 1
          <6>1. from(j) = k + 1 /\ k < Len(l)
            BY <5>1, <5>2, <2>2, <1>1 DEF Indices
          <6>2. Top(b) <= l[from(j)].at
            BY <6>1, <1>3
          <6>3. Top(b) \in Int /\ l[from(j)].at \in Int
            BY <5>1, <1>1 DEF Top, Blocks
          <6>4. QED  BY <4>2, <5>1, <5>2, <6>2, <6>3
        <5>3. CASE n + 1 < j
          <6>1. k + 1 < from(j)
            BY <5>1, <5>3, <2>2, <4>1
          <6>2. QED  BY <5>1, <6>1, <1>5
        <5>4. QED  BY <5>2, <5>3, <4>1, <4>2, <3>2, <2>2
      <4>3. CASE j = n
        <5>1. from(i) = i /\ i \in Indices(l) /\ m[i] = l[i] /\ m[j] = b /\ i <= k
          BY <4>1, <4>3, <3>2, <2>2, <2>3, <2>5
        <5>2. CASE i < k
          BY <5>1, <5>2, <1>4
        <5>3. CASE i = k
          <6>1. Top(l[k]) # b.at /\ Top(l[k]) <= b.at
            BY <5>1, <5>3, <1>3, <1>7 DEF Indices
          <6>2. Top(l[k]) \in Int /\ b.at \in Int
            BY <5>1, <5>3, <1>1 DEF Top, Blocks
          <6>3. QED  BY <6>1, <6>2, <5>1, <5>3
        <5>4. QED  BY <5>1, <5>2, <5>3, <4>1, <2>2
      <4>4. CASE i # n /\ j # n
        BY <4>4, <3>2, <2>5, <2>6 DEF Sound
      <4>5. QED  BY <4>2, <4>3, <4>4
    <3>3. QED  BY <2>3, <3>1, <3>2 DEF Touching
  <2>9. ASSUME NEW w PROVE Covers(m, w) <=> Covers(l, w) \/ w \in Words(b)
    <3>1. ASSUME Covers(m, w) PROVE Covers(l, w) \/ w \in Words(b)
      BY <3>1, <2>3, <2>5 DEF Covers
    <3>2. ASSUME Covers(l, w) PROVE Covers(m, w)
      BY <3>2, <2>7 DEF Covers
    <3>3. ASSUME w \in Words(b) PROVE Covers(m, w)
      BY <3>3, <2>3, <2>4 DEF Covers
    <3>4. QED  BY <3>1, <3>2, <3>3
  <2>10. QED  BY <2>1, <2>4, <2>8, <2>9, JoinSound
<1>8. QED  BY <1>6, <1>7

------------------------------------------------------------------------------
(* Where a block handed out comes from.                                     *)

LEMMA RoundMbSize ==
  ASSUME NEW n \in Nat \ {0}
  PROVE  RoundMb(n) \in Nat /\ RoundMb(n) > 0
BY DEF RoundMb

LEMMA MaxInRange ==
  ASSUME NEW n \in Nat, NEW T, T \subseteq 0 .. n, T # {}
  PROVE  Max(T) \in T
<1> DEFINE D == {y \in Nat : y <= n /\ n - y \in T}
<1>1. D \subseteq Nat /\ D # {}
  <2>1. PICK x \in T : x \in 0 .. n
    OBVIOUS
  <2>2. n - x \in Nat /\ n - x <= n /\ n - (n - x) = x
    BY <2>1
  <2>3. n - x \in D
    BY <2>1, <2>2
  <2>4. QED  BY <2>3
<1>2. Min(D) \in D /\ \A y \in D : Min(D) <= y
  BY <1>1, MinNat
<1>3. PICK x \in T : x = n - Min(D)
  BY <1>2
<1>4. \A y \in T : y <= x
  <2>1. TAKE y \in T
  <2>2. y \in 0 .. n /\ n - y \in Nat /\ n - y <= n /\ n - (n - y) = y
    OBVIOUS
  <2>3. n - y \in D
    BY <2>2
  <2>4. Min(D) <= n - y /\ Min(D) \in Nat
    BY <1>2, <2>3
  <2>5. QED  BY <1>3, <2>2, <2>4
<1>5. QED  BY <1>4 DEF Max

\* List m is l after n words x at one end of block k were taken and the rest of it stayed.
TakesPart(l, k, n, x, rest, m) ==
  /\ n <= l[k].len
  /\ \/ x = Block(l[k].at, n) /\ rest = Block(l[k].at + n, l[k].len - n)
     \/ x = Block(Top(l[k]) - n, n) /\ rest = Block(l[k].at, l[k].len - n)
  /\ m = IF l[k].len = n THEN RemoveAt(l, k) ELSE [l EXCEPT ![k] = rest]

LEMMA TakenSound ==
  ASSUME NEW l, Sound(l), NEW k \in Indices(l), NEW n \in Nat \ {0},
         NEW x, NEW rest, NEW m, TakesPart(l, k, n, x, rest, m)
  PROVE  /\ Sound(m) /\ x \in Blocks /\ x.len > 0
         /\ \A w : Covers(m, w) <=> Covers(l, w) /\ w \notin Words(x)
         /\ \A w \in Words(x) : Covers(l, w)
<1> DEFINE b == l[k]
<1>1. b \in Blocks /\ b.len > 0
  BY DEF Sound, Indices
<1>2. b.at \in Nat /\ b.len \in Nat /\ Top(b) = b.at + b.len
  BY <1>1 DEF Blocks, Top
<1> HIDE DEF b
<1>3. \/ x = Block(b.at, n) /\ rest = Block(b.at + n, b.len - n)
      \/ x = Block(b.at + b.len - n, n) /\ rest = Block(b.at, b.len - n)
  BY <1>2 DEF b, TakesPart
<1>4. /\ x \in Blocks /\ x.len = n /\ b.at <= x.at /\ x.at + n <= b.at + b.len
      /\ b.len - n \in Nat
  <2>1. n <= b.len
    BY DEF b, TakesPart
  <2>2. QED  BY <1>2, <1>3, <2>1 DEF Block, Blocks
<1>5. x.len > 0
  BY <1>4
<1>6. \A w \in Words(x) : w \in Words(b)
  <2>1. TAKE w \in Words(x)
  <2>2. w \in Int /\ Holds(x, w)
    BY <1>4, WordsOf
  <2>3. Holds(b, w)
    BY <1>2, <1>4, <2>2 DEF Holds, Top, Blocks
  <2>4. QED  BY <1>1, <2>2, <2>3, WordsOf
<1>7. \A w \in Words(x) : Covers(l, w)
  BY <1>6 DEF Covers, b
<1>8. CASE b.len = n
  <2>1. Words(x) = Words(b)
    BY <1>2, <1>3, <1>8 DEF Words, Top, Block
  <2>2. m = RemoveAt(l, k)
    BY <1>8 DEF b, TakesPart
  <2>3. /\ Sound(RemoveAt(l, k))
        /\ \A w : Covers(RemoveAt(l, k), w) <=> Covers(l, w) /\ w \notin Words(l[k])
    BY RemoveSound
  <2>4. Sound(m) /\ \A w : Covers(m, w) <=> Covers(l, w) /\ w \notin Words(x)
    BY <2>1, <2>2, <2>3 DEF b
  <2>5. QED  BY <1>4, <1>5, <1>7, <2>4
<1>9. CASE b.len # n
  <2>1. /\ rest \in Blocks /\ rest.len > 0 /\ b.at <= rest.at /\ Top(rest) <= Top(b)
    BY <1>2, <1>3, <1>4, <1>9 DEF Block, Blocks, Top
  <2>2. m = [l EXCEPT ![k] = rest]
    BY <1>9 DEF b, TakesPart
  <2>3. /\ Sound(m)
        /\ \A w : Covers(m, w) <=> (Covers(l, w) /\ w \notin Words(b)) \/ w \in Words(rest)
    <3> DEFINE r == [l EXCEPT ![k] = rest]
    <3>1. rest \in Blocks /\ rest.len > 0 /\ l[k].at <= rest.at /\ Top(rest) <= Top(l[k])
      BY <2>1 DEF b
    <3>2. /\ Sound(r)
          /\ \A w : Covers(r, w) <=> (Covers(l, w) /\ w \notin Words(l[k])) \/ w \in Words(rest)
      BY <3>1, ShrinkSound
    <3> HIDE DEF r
    <3>3. m = r
      BY <2>2 DEF r
    <3>4. QED  BY <3>2, <3>3 DEF b
  <2>4. ASSUME NEW w PROVE w \in Words(rest) <=> w \in Words(b) /\ w \notin Words(x)
    <3>1. ASSUME w \in Int PROVE Holds(rest, w) <=> Holds(b, w) /\ ~Holds(x, w)
      BY <3>1, <1>2, <1>3, <1>4, <1>9 DEF Holds, Top, Block
    <3>2. QED  BY <3>1, <1>1, <1>4, <2>1, WordsOf
  <2>5. ASSUME NEW w PROVE Covers(m, w) <=> Covers(l, w) /\ w \notin Words(x)
    <3>1. w \in Words(b) => Covers(l, w)
      BY DEF Covers, b
    <3>2. QED  BY <1>6, <2>3, <2>4, <3>1
  <2>6. QED  BY <1>4, <1>5, <1>7, <2>3, <2>5
<1>10. QED  BY <1>8, <1>9

------------------------------------------------------------------------------
(* The inductive invariant.                                                 *)

\* WordsPartitioned of an arbitrary list, set of blocks and heap.
Partition(l, T, h) ==
  /\ \A t \in T : \A w \in Words(Returned(t)) : ~Covers(l, w)
  /\ \A t, u \in T : t # u => \A w \in Words(Returned(t)) : w \notin Words(Returned(u))
  /\ \A w : w \in 0 .. h - 1 <=> Covers(l, w) \/ \E t \in T : w \in Words(Returned(t))

IInv ==
  /\ heap \in Nat /\ honest \in BOOLEAN
  /\ Sound(memlist)
  /\ \A t \in taken : Returned(t) \in Blocks /\ Returned(t).len > 0
  /\ honest => Partition(memlist, taken, heap)
  /\ ~honest => taken = {}

\* A word handed out leaves the free list and joins the blocks taken.
LEMMA HandPartition ==
  ASSUME NEW h, NEW l, NEW m, NEW T, NEW t, Partition(l, T, h),
         \A w : Covers(m, w) <=> Covers(l, w) /\ w \notin Words(Returned(t)),
         \A w \in Words(Returned(t)) : Covers(l, w)
  PROVE  Partition(m, T \cup {t}, h)
BY DEF Partition

LEMMA FreePartition ==
  ASSUME NEW h, NEW l, NEW m, NEW T, NEW t \in T, Partition(l, T, h),
         \A w : Covers(m, w) <=> Covers(l, w) \/ w \in Words(Returned(t))
  PROVE  Partition(m, T \ {t}, h)
BY DEF Partition

\* A program that gives back what it was given is not refused.
LEMMA HonestAccepted ==
  IInv => \A t \in taken : ~Refused(Returned(t))
<1>1. SUFFICES ASSUME IInv, NEW t \in taken, Refused(Returned(t)) PROVE FALSE
  OBVIOUS
<1> DEFINE b == Returned(t)
           k == Before(b)
<1>2. /\ heap \in Nat /\ Sound(memlist) /\ b \in Blocks /\ b.len > 0
      /\ \A w \in Words(b) : ~Covers(memlist, w)
  BY <1>1 DEF IInv, Partition
<1>3. k \in 0 .. Len(memlist) /\ \A i \in Indices(memlist) : memlist[i].at < b.at <=> i <= k
  BY <1>2, BeforeIsPrefix
<1>4. \A i \in Indices(memlist) : memlist[i] \in Blocks /\ memlist[i].len > 0 /\ i \in Nat
  BY <1>2 DEF Sound, Indices
<1>5. Len(memlist) \in Nat
  BY <1>2 DEF Sound
<1>6. CASE k > 0 /\ Top(memlist[k]) > b.at
  <2>1. k \in Indices(memlist) /\ memlist[k].at < b.at
    BY <1>3, <1>5, <1>6 DEF Indices
  <2>2. b.at \in Int /\ Holds(b, b.at) /\ Holds(memlist[k], b.at)
    BY <1>2, <1>4, <1>6, <2>1 DEF Holds, Top, Blocks
  <2>3. b.at \in Words(b) /\ Covers(memlist, b.at)
    BY <1>2, <1>4, <2>1, <2>2, WordsOf DEF Covers
  <2>4. QED  BY <1>2, <2>3
<1>7. CASE k < Len(memlist) /\ Top(b) > memlist[k + 1].at
  <2> DEFINE c == memlist[k + 1]
  <2>1. k + 1 \in Indices(memlist) /\ ~(k + 1 <= k)
    BY <1>3, <1>5, <1>7 DEF Indices
  <2>2. c \in Blocks /\ c.len > 0 /\ ~(c.at < b.at) /\ c.at < Top(b)
    <3>1. c \in Blocks /\ c.len > 0 /\ ~(c.at < b.at) /\ Top(b) > c.at
      BY <1>3, <1>4, <1>7, <2>1
    <3>2. QED  BY <3>1, <1>2 DEF Blocks, Top
  <2>3. c.at \in Int /\ Holds(b, c.at) /\ Holds(c, c.at)
    BY <1>2, <2>2 DEF Holds, Top, Blocks
  <2>4. c.at \in Words(b) /\ Covers(memlist, c.at)
    BY <1>2, <2>1, <2>2, <2>3, WordsOf DEF Covers
  <2>5. QED  BY <1>2, <2>4
<1>8. QED  BY <1>1, <1>6, <1>7 DEF Refused

------------------------------------------------------------------------------
(* The steps.                                                               *)

LEMMA InitIInv == MemoryInit => IInv
<1>1. SUFFICES ASSUME MemoryInit PROVE IInv
  OBVIOUS
<1> DEFINE b == Block(0, heap)
<1>2. heap \in Nat /\ heap > 0 /\ memlist = <<b>> /\ taken = {} /\ honest = TRUE
  BY <1>1, MemoryAssumption DEF MemoryInit
<1>3. b \in Blocks /\ b.at = 0 /\ b.len = heap /\ Top(b) = heap
  BY <1>2 DEF Block, Blocks, Top
<1> HIDE DEF b
<1>4. memlist \in Seq(Blocks) /\ Indices(memlist) = {1} /\ memlist[1] = b
  BY <1>2, <1>3 DEF Indices
<1>5. Sound(memlist)
  BY <1>2, <1>3, <1>4 DEF Sound
<1>6. ASSUME NEW w PROVE w \in 0 .. heap - 1 <=> Covers(memlist, w)
  <2>1. w \in Words(b) <=> w \in 0 .. heap - 1
    BY <1>3 DEF Words
  <2>2. QED  BY <1>4, <2>1 DEF Covers
<1>7. Partition(memlist, taken, heap)
  BY <1>2, <1>6 DEF Partition
<1>8. QED  BY <1>2, <1>5, <1>7 DEF IInv

\* What getmem and getstk have in common: a part of a free block is handed out.
LEMMA TakeStep ==
  ASSUME IInv, NEW t, Sound(memlist'),
         Returned(t) \in Blocks, Returned(t).len > 0,
         \A w : Covers(memlist', w) <=> Covers(memlist, w) /\ w \notin Words(Returned(t)),
         \A w \in Words(Returned(t)) : Covers(memlist, w),
         Hand(t), UNCHANGED <<heap, honest>>
  PROVE  IInv'
<1>1. CASE honest
  <2>1. taken' = taken \cup {t} /\ Partition(memlist, taken, heap)
    BY <1>1 DEF Hand, IInv
  <2>2. Partition(memlist', taken', heap')
    BY <2>1, HandPartition
  <2>3. QED  BY <1>1, <2>1, <2>2 DEF IInv
<1>2. CASE ~honest
  BY <1>2 DEF Hand, IInv
<1>3. QED  BY <1>1, <1>2

LEMMA GetmemStep ==
  ASSUME IInv, NEW request \in Requests, Getmem(request)
  PROVE  IInv'
<1> DEFINE n == RoundMb(request)
           i == Min(Fits(n))
           b == memlist[i]
           t == [ret |-> b.at, ask |-> request, stack |-> FALSE]
           x == Block(b.at, n)
           rest == Block(b.at + n, b.len - n)
<1>1. n \in Nat \ {0}
  BY RoundMbSize, MemoryAssumption
<1>2. i \in Indices(memlist) /\ n <= b.len
  <2>1. Fits(n) \subseteq Nat /\ Fits(n) # {}
    BY DEF Fits, Getmem
  <2>2. i \in Fits(n)
    BY <2>1, MinNat
  <2> HIDE DEF n, i
  <2>3. i \in Indices(memlist) /\ b \in Blocks /\ b.len >= n
    BY <2>2 DEF Fits, Indices, IInv, Sound
  <2>4. QED  BY <2>3, <1>1 DEF Blocks
<1>3. /\ memlist' = IF b.len = n THEN RemoveAt(memlist, i) ELSE [memlist EXCEPT ![i] = rest]
      /\ Hand(t) /\ UNCHANGED <<heap, honest>>
  BY DEF Getmem
<1>4. Returned(t) = x
  BY DEF Returned
<1>5. Sound(memlist)
  BY DEF IInv
<1> HIDE DEF n, i
<1>6. TakesPart(memlist, i, n, x, rest, memlist')
  BY <1>2, <1>3 DEF TakesPart
<1> HIDE DEF b, x, t, rest
<1>7. /\ Sound(memlist') /\ x \in Blocks /\ x.len > 0
      /\ \A w : Covers(memlist', w) <=> Covers(memlist, w) /\ w \notin Words(x)
      /\ \A w \in Words(x) : Covers(memlist, w)
  BY <1>1, <1>2, <1>5, <1>6, TakenSound
<1>8. QED  BY <1>3, <1>4, <1>7, TakeStep

LEMMA GetstkStep ==
  ASSUME IInv, NEW request \in Requests, Getstk(request)
  PROVE  IInv'
<1> DEFINE n == RoundMb(request)
           i == Max(Fits(n))
           b == memlist[i]
           t == [ret |-> Top(b) - 1, ask |-> request, stack |-> TRUE]
           x == Block(Top(b) - n, n)
           rest == Block(b.at, b.len - n)
<1>1. n \in Nat \ {0}
  BY RoundMbSize, MemoryAssumption
<1>2. i \in Indices(memlist) /\ n <= b.len /\ b \in Blocks
  <2>1. Len(memlist) \in Nat /\ Fits(n) \subseteq 0 .. Len(memlist) /\ Fits(n) # {}
    BY DEF Fits, Getstk, IInv, Sound
  <2>2. i \in Fits(n)
    BY <2>1, MaxInRange
  <2> HIDE DEF n, i
  <2>3. i \in Indices(memlist) /\ b \in Blocks /\ b.len >= n
    BY <2>2 DEF Fits, Indices, IInv, Sound
  <2>4. QED  BY <2>3, <1>1 DEF Blocks
<1>3. /\ memlist' = IF b.len = n THEN RemoveAt(memlist, i)
                    ELSE [memlist EXCEPT ![i].len = @ - n]
      /\ Hand(t) /\ UNCHANGED <<heap, honest>>
  BY DEF Getstk
<1>4. Returned(t) = x
  <2> HIDE DEF n, i
  <2>1. Top(b) \in Int
    BY <1>2 DEF Top, Blocks
  <2>2. Top(b) - 1 - n + 1 = Top(b) - n
    BY <1>1, <2>1
  <2>3. Returned(t) = Block(Top(b) - 1 - n + 1, n)
    BY DEF Returned, n
  <2>4. QED  BY <2>2, <2>3
<1>5. Sound(memlist)
  BY DEF IInv
<1> HIDE DEF n, i
<1>6. [memlist EXCEPT ![i].len = @ - n] = [memlist EXCEPT ![i] = rest]
  <2>1. [b EXCEPT !.len = @ - n] = rest
    BY <1>2 DEF Blocks, Block
  <2>2. QED  BY <2>1
<1>7. memlist' = IF b.len = n THEN RemoveAt(memlist, i) ELSE [memlist EXCEPT ![i] = rest]
  BY <1>3, <1>6
<1>8. TakesPart(memlist, i, n, x, rest, memlist')
  BY <1>2, <1>7 DEF TakesPart
<1> HIDE DEF b, x, t, rest
<1>9. /\ Sound(memlist') /\ x \in Blocks /\ x.len > 0
      /\ \A w : Covers(memlist', w) <=> Covers(memlist, w) /\ w \notin Words(x)
      /\ \A w \in Words(x) : Covers(memlist, w)
  BY <1>1, <1>2, <1>5, <1>8, TakenSound
<1>10. QED  BY <1>3, <1>4, <1>9, TakeStep

LEMMA FreeStep ==
  ASSUME IInv, NEW t \in taken, Free(t)
  PROVE  IInv'
<1> DEFINE b == Returned(t)
<1>1. /\ heap \in Nat /\ Sound(memlist) /\ honest
      /\ b \in Blocks /\ b.len > 0 /\ Partition(memlist, taken, heap)
  BY DEF IInv
<1>2. /\ ~Refused(b) /\ memlist' = Freed(b) /\ taken' = taken \ {t}
      /\ heap' = heap /\ honest' = honest
  BY DEF Free
<1> HIDE DEF b
<1>3. /\ Sound(memlist')
      /\ \A w : Covers(memlist', w) <=> Covers(memlist, w) \/ w \in Words(b)
  BY <1>1, <1>2, FreedSound
<1>4. Partition(memlist', taken', heap)
  BY <1>1, <1>2, <1>3, FreePartition DEF b
<1>5. QED  BY <1>1, <1>2, <1>3, <1>4 DEF IInv

LEMMA FreeWrongStep ==
  ASSUME IInv, NEW b \in Blocks, b.len > 0, FreeWrong(b)
  PROVE  IInv'
<1>1. heap \in Nat /\ Sound(memlist)
  BY DEF IInv
<1>2. ~Refused(b) /\ memlist' = Freed(b) /\ honest' = FALSE /\ taken' = {} /\ heap' = heap
  BY DEF FreeWrong
<1>3. Sound(memlist')
  BY <1>1, <1>2, FreedSound
<1>4. QED  BY <1>1, <1>2, <1>3 DEF IInv

LEMMA NextIInv == IInv /\ [MemoryNext]_memVars => IInv'
<1>1. SUFFICES ASSUME IInv, [MemoryNext]_memVars PROVE IInv'
  OBVIOUS
<1>2. ASSUME NEW request \in Requests, Getmem(request) PROVE IInv'
  BY <1>1, <1>2, GetmemStep
<1>3. ASSUME NEW request \in Requests, Getstk(request) PROVE IInv'
  BY <1>1, <1>3, GetstkStep
<1>4. ASSUME NEW t \in taken, Free(t) PROVE IInv'
  BY <1>1, <1>4, FreeStep
<1>5. ASSUME NEW at \in 0 .. heap + NullStk, NEW request \in Requests,
             FreeWrong(Block(at, RoundMb(request)))
      PROVE  IInv'
  <2>1. RoundMb(request) \in Nat /\ RoundMb(request) > 0 /\ at \in Nat
    BY <1>1, RoundMbSize, MemoryAssumption DEF IInv
  <2> DEFINE b == Block(at, RoundMb(request))
  <2>2. b \in Blocks /\ b.len > 0
    BY <2>1 DEF Block, Blocks
  <2> HIDE DEF b
  <2>3. FreeWrong(b)
    BY <1>5 DEF b
  <2>4. QED  BY <1>1, <2>2, <2>3, FreeWrongStep
<1>6. CASE UNCHANGED memVars
  BY <1>1, <1>6 DEF memVars, IInv, Sound, Partition, Covers, Indices
<1>7. QED  BY <1>1, <1>2, <1>3, <1>4, <1>5, <1>6 DEF MemoryNext

------------------------------------------------------------------------------
(* The theorems.                                                            *)

LEMMA InvariantIInv == MemorySpec => []IInv
BY InitIInv, NextIInv, PTL DEF MemorySpec

\* The free list stays in order and with gaps between its blocks, whatever programs ask for
\* and give back: also blocks they do not have, wherever those end (getmem.c, getstk.c, freemem.c).
THEOREM FreeListCorrect == MemorySpec => []FreeListSound
<1>1. IInv => FreeListSound
  BY DEF IInv, FreeListSound, Sound, Indices
<1>2. QED  BY <1>1, InvariantIInv, PTL

\* While programs give back only what they were given, nothing is handed out twice and
\* nothing is lost: the splitting of getmem and getstk, the rounding of roundmb and the joining
\* of freemem agree.
THEOREM WordsCorrect == MemorySpec => []WordsPartitioned
<1>1. IInv => WordsPartitioned
  <2>1. SUFFICES ASSUME IInv, honest PROVE
          /\ \A t \in taken : Words(Returned(t)) \cap FreeWords = {}
          /\ \A t, u \in taken : t # u => Words(Returned(t)) \cap Words(Returned(u)) = {}
          /\ FreeWords \cup UNION {Words(Returned(t)) : t \in taken} = 0 .. heap - 1
    BY DEF WordsPartitioned
  <2>2. Partition(memlist, taken, heap)
    BY <2>1 DEF IInv
  <2>3. \A w : w \in FreeWords <=> Covers(memlist, w)
    BY DEF FreeWords, Covers, Indices
  <2>4. \A t \in taken : Words(Returned(t)) \cap FreeWords = {}
    BY <2>2, <2>3 DEF Partition
  <2>5. \A t, u \in taken : t # u => Words(Returned(t)) \cap Words(Returned(u)) = {}
    BY <2>2 DEF Partition
  <2>6. FreeWords \cup UNION {Words(Returned(t)) : t \in taken} = 0 .. heap - 1
    BY <2>2, <2>3 DEF Partition
  <2>7. QED  BY <2>4, <2>5, <2>6
<1>2. QED  BY <1>1, InvariantIInv, PTL

\* freemem never answers SYSERR to a program that gives back what it was given (freemem.c:28-32).
THEOREM NoHonestRefusal == MemorySpec => [](\A t \in taken : ~Refused(Returned(t)))
BY HonestAccepted, InvariantIInv, PTL
===============================================================================
