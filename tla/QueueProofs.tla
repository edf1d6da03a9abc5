----------------------------- MODULE QueueProofs -----------------------------
(***************************************************************************)
(* The queue array, for every number of processes and lists and all keys:  *)
(* its links form lists, and every search of a list ends at its tail.      *)
(***************************************************************************)
EXTENDS LinkedQueue, ListLemmas, FiniteSetTheorems

Tails == {TailOf(h) : h \in Lists}
Ahead == Listed \cup Lists               \* the entries whose qnext means something
Behind == Listed \cup Tails              \* and those whose qprev does

\* What the actions rely on: entries are given to lists in pairs, a process is on a list
\* that was given out, with a key no search passes at a tail.
Given == \E k \in 0 .. NQueues : nextqueue = NProc + 2 * k
HomesGiven == \A p \in Procs : home[p] \in Lists \cup {EMPTY}
KeysBounded ==
  /\ \A p \in Procs : qkey[p] \in 0 .. MAXINT
  /\ \A h \in Lists : qkey[TailOf(h)] = MAXINT

IInv == TypeOK /\ LinksInverse /\ Given /\ HomesGiven /\ KeysBounded

------------------------------------------------------------------------------
(* Where the entries are.                                                   *)

LEMMA HeadFacts ==
  ASSUME NEW h \in Heads
  PROVE  /\ h \in Int /\ h >= NProc /\ h \in Entries /\ TailOf(h) \in Entries
         /\ TailOf(h) \in Int /\ TailOf(h) # h /\ h # EMPTY /\ TailOf(h) # EMPTY
         /\ TailOf(h) \notin Heads /\ h \notin Procs /\ TailOf(h) \notin Procs
         /\ ListOf(h) = h /\ ListOf(TailOf(h)) = h
<1>1. PICK k \in 0 .. NQueues - 1 : h = NProc + 2 * k
  BY DEF Heads
<1>2. NProc \in Nat /\ NProc > 0 /\ NQueues \in Nat
  BY ProcsAssumption, QueuesAssumption
<1>3. h \in Entries /\ TailOf(h) \in Entries /\ h \in Int /\ TailOf(h) \in Int /\ h >= NProc
  BY <1>1, <1>2 DEF Entries, TailOf
<1>4. TailOf(h) \notin Heads
  <2>1. ASSUME NEW j \in 0 .. NQueues - 1 PROVE TailOf(h) # NProc + 2 * j
    BY <1>1, <1>2 DEF TailOf
  <2>2. QED  BY <2>1 DEF Heads
<1>5. h \notin Procs /\ TailOf(h) \notin Procs /\ TailOf(h) # h /\ h # EMPTY /\ TailOf(h) # EMPTY
  BY <1>2, <1>3 DEF Procs, TailOf, EMPTY
<1>6. ListOf(h) = h /\ ListOf(TailOf(h)) = h
  BY <1>3, <1>4, <1>5 DEF ListOf, TailOf
<1>7. QED  BY <1>3, <1>4, <1>5, <1>6

LEMMA ProcFacts ==
  ASSUME NEW p \in Procs
  PROVE  p \in Int /\ p < NProc /\ p \in Entries /\ p # EMPTY /\ ListOf(p) = home[p]
BY ProcsAssumption, QueuesAssumption DEF Procs, Entries, EMPTY, ListOf

\* The entries that lead on, and those that lead back, are those of processes on a list
\* and the ends of lists that were given out.
LEMMA Places ==
  ASSUME NEW i
  PROVE  /\ i \in Ahead <=> (i \in Procs /\ home[i] # EMPTY) \/ i \in Lists
         /\ i \in Behind <=> (i \in Procs /\ home[i] # EMPTY) \/ i \in Tails
         /\ i \in Lists => i \in Heads /\ i \notin Procs
         /\ i \in Tails => i \notin Procs /\ i \notin Heads
                           /\ i = TailOf(ListOf(i)) /\ ListOf(i) \in Lists
         /\ i \in Ahead \cup Behind => i \in Entries /\ i \in Int
<1>1. i \in Lists => i \in Heads /\ i \notin Procs /\ i \in Entries /\ i \in Int
  BY HeadFacts DEF Lists
<1>2. i \in Tails => /\ i \notin Procs /\ i \notin Heads /\ i \in Entries /\ i \in Int
                     /\ i = TailOf(ListOf(i)) /\ ListOf(i) \in Lists
  <2>1. SUFFICES ASSUME NEW h \in Lists, i = TailOf(h)
                 PROVE  /\ i \notin Procs /\ i \notin Heads /\ i \in Entries /\ i \in Int
                        /\ i = TailOf(ListOf(i)) /\ ListOf(i) \in Lists
    BY DEF Tails
  <2>2. h \in Heads
    BY DEF Lists
  <2>3. QED  BY <2>1, <2>2, HeadFacts
<1>3. i \in Listed <=> i \in Procs /\ home[i] # EMPTY
  BY DEF Listed
<1>4. i \in Procs => i \in Entries /\ i \in Int
  BY ProcFacts
<1>5. QED  BY <1>1, <1>2, <1>3, <1>4 DEF Ahead, Behind

\* LinksInverse in these terms.
LeadsOn(i) ==
  qnext[i] \in Behind /\ ListOf(qnext[i]) = ListOf(i) /\ qprev[qnext[i]] = i
LeadsBack(i) ==
  qprev[i] \in Ahead /\ ListOf(qprev[i]) = ListOf(i) /\ qnext[qprev[i]] = i

LEMMA LinksLead ==
  LinksInverse <=> (\A i \in Ahead : LeadsOn(i)) /\ (\A i \in Behind : LeadsBack(i))
BY DEF LinksInverse, LeadsOn, LeadsBack, Ahead, Behind, Tails

------------------------------------------------------------------------------
(* What the assignments to the links do.                                    *)

\* Putting a process between two neighbours of a list keeps the links inverse.
LEMMA LinkInKeeps ==
  ASSUME TypeOK, LinksInverse, NEW p \in Procs, home[p] = EMPTY, NEW h \in Lists,
         NEW prev, NEW next, next \in Behind, ListOf(next) = h, qprev[next] = prev,
         LinkIn(p, prev, next), home' = [home EXCEPT ![p] = h], nextqueue' = nextqueue
  PROVE  /\ LinksInverse'
         /\ qnext' \in [Entries -> Entries \cup {EMPTY}]
         /\ qprev' \in [Entries -> Entries \cup {EMPTY}]
<1>1. h \in Heads /\ h # EMPTY /\ h \notin Procs
  BY HeadFacts DEF Lists
<1>2. p \notin Ahead /\ p \notin Behind /\ p \in Entries /\ p \notin Heads
  <2>1. p \notin Lists /\ p \notin Tails /\ p \in Entries
    BY Places, ProcFacts
  <2>2. p \notin Heads
    BY HeadFacts
  <2>3. QED  BY <2>1, <2>2, Places
<1>3. /\ \A i \in Ahead : LeadsOn(i) /\ i \in Entries
      /\ \A i \in Behind : LeadsBack(i) /\ i \in Entries
  BY LinksLead, Places
<1>4. prev \in Ahead /\ ListOf(prev) = h /\ qnext[prev] = next /\ prev # p /\ next # p
  BY <1>2, <1>3 DEF LeadsBack
<1>5. \A i \in Entries :
        /\ qnext'[i] = IF i = prev THEN p ELSE IF i = p THEN next ELSE qnext[i]
        /\ qprev'[i] = IF i = next THEN p ELSE IF i = p THEN prev ELSE qprev[i]
  BY <1>2, <1>3, <1>4 DEF TypeOK, LinkIn
<1>6. Ahead' = Ahead \cup {p} /\ Behind' = Behind \cup {p}
  <2>1. Lists' = Lists /\ Tails' = Tails
    BY DEF Lists, Tails
  <2>2. Listed' = Listed \cup {p}
    BY <1>1 DEF TypeOK, Listed
  <2>3. QED  BY <2>1, <2>2 DEF Ahead, Behind
<1>7. \A i : ListOf(i)' = IF i = p THEN h ELSE ListOf(i)
  BY DEF ListOf, TypeOK
<1>8. ASSUME NEW i \in Ahead \cup {p} PROVE LeadsOn(i)'
  <2>1. CASE i = p
    BY <2>1, <1>2, <1>3, <1>4, <1>5, <1>6, <1>7 DEF LeadsOn
  <2>2. CASE i = prev
    BY <2>2, <1>2, <1>3, <1>4, <1>5, <1>6, <1>7 DEF LeadsOn
  <2>3. CASE i # p /\ i # prev
    <3>1. LeadsOn(i) /\ i \in Entries
      BY <2>3, <1>3
    <3>2. qnext[i] # next /\ qnext[i] # p /\ qnext[i] \in Entries
      BY <2>3, <3>1, <1>2, <1>3 DEF LeadsOn
    <3>3. QED  BY <2>3, <3>1, <3>2, <1>5, <1>6, <1>7 DEF LeadsOn
  <2>4. QED  BY <2>1, <2>2, <2>3
<1>9. ASSUME NEW i \in Behind \cup {p} PROVE LeadsBack(i)'
  <2>1. CASE i = p
    BY <2>1, <1>2, <1>3, <1>4, <1>5, <1>6, <1>7 DEF LeadsBack
  <2>2. CASE i = next
    BY <2>2, <1>2, <1>3, <1>4, <1>5, <1>6, <1>7 DEF LeadsBack
  <2>3. CASE i # p /\ i # next
    <3>1. LeadsBack(i) /\ i \in Entries
      BY <2>3, <1>3
    <3>2. qprev[i] # prev /\ qprev[i] # p /\ qprev[i] \in Entries
      BY <2>3, <3>1, <1>2, <1>3, <1>4 DEF LeadsBack
    <3>3. QED  BY <2>3, <3>1, <3>2, <1>5, <1>6, <1>7 DEF LeadsBack
  <2>4. QED  BY <2>1, <2>2, <2>3
<1>10. LinksInverse'
  <2>1. LinksInverse' <=> (\A i \in Ahead' : LeadsOn(i)') /\ (\A i \in Behind' : LeadsBack(i)')
    BY DEF LinksInverse, LeadsOn, LeadsBack, Ahead, Behind, Tails
  <2>2. QED  BY <2>1, <1>6, <1>8, <1>9
<1>11. QED  BY <1>2, <1>3, <1>4, <1>10 DEF TypeOK, LinkIn

\* Taking a process off its list keeps them inverse for the others.
LEMMA UnlinkKeeps ==
  ASSUME TypeOK, LinksInverse, NEW p \in Procs, home[p] # EMPTY,
         Unlink(p), home' = [home EXCEPT ![p] = EMPTY], nextqueue' = nextqueue
  PROVE  /\ LinksInverse'
         /\ qnext' \in [Entries -> Entries \cup {EMPTY}]
         /\ qprev' \in [Entries -> Entries \cup {EMPTY}]
<1> DEFINE prev == qprev[p]
           next == qnext[p]
<1>1. p \in Ahead /\ p \in Behind /\ p \in Entries
  BY Places
<1>2. /\ \A i \in Ahead : LeadsOn(i) /\ i \in Entries
      /\ \A i \in Behind : LeadsBack(i) /\ i \in Entries
  BY LinksLead, Places
<1>3. /\ prev \in Ahead /\ ListOf(prev) = ListOf(p) /\ qnext[prev] = p /\ prev \in Entries
      /\ next \in Behind /\ ListOf(next) = ListOf(p) /\ qprev[next] = p /\ next \in Entries
  BY <1>1, <1>2 DEF LeadsOn, LeadsBack
<1>4. \A i \in Entries : /\ qnext'[i] = IF i = prev THEN next ELSE qnext[i]
                         /\ qprev'[i] = IF i = next THEN prev ELSE qprev[i]
  BY <1>3 DEF TypeOK, Unlink
<1>5. Ahead' = Ahead \ {p} /\ Behind' = Behind \ {p}
  <2>1. Lists' = Lists /\ Tails' = Tails
    BY DEF Lists, Tails
  <2>2. Listed' = Listed \ {p}
    BY DEF TypeOK, Listed
  <2>3. p \notin Lists /\ p \notin Tails
    BY Places
  <2>4. QED  BY <2>1, <2>2, <2>3 DEF Ahead, Behind
<1>6. \A i : i # p => ListOf(i)' = ListOf(i)
  BY DEF ListOf, TypeOK
<1>7. qnext' \in [Entries -> Entries \cup {EMPTY}] /\ qprev' \in [Entries -> Entries \cup {EMPTY}]
  BY <1>3 DEF TypeOK, Unlink
<1> HIDE DEF prev, next
<1>8. ASSUME NEW i \in Ahead \ {p} PROVE LeadsOn(i)'
  <2>1. CASE i = prev
    <3>1. next # p
      BY <2>1, <1>3, <1>8, <1>2 DEF LeadsOn, prev, next
    <3>2. QED  BY <2>1, <3>1, <1>3, <1>4, <1>5, <1>6, <1>8 DEF LeadsOn
  <2>2. CASE i # prev
    <3>1. LeadsOn(i) /\ i \in Entries
      BY <1>2
    <3>2. qnext[i] # p /\ qnext[i] # next /\ qnext[i] \in Entries
      BY <2>2, <3>1, <1>2, <1>3, <1>8 DEF LeadsOn, prev
    <3>3. QED  BY <2>2, <3>1, <3>2, <1>4, <1>5, <1>6, <1>8 DEF LeadsOn
  <2>3. QED  BY <2>1, <2>2
<1>9. ASSUME NEW i \in Behind \ {p} PROVE LeadsBack(i)'
  <2>1. CASE i = next
    <3>1. prev # p
      BY <2>1, <1>3, <1>9, <1>2 DEF LeadsBack, prev, next
    <3>2. QED  BY <2>1, <3>1, <1>3, <1>4, <1>5, <1>6, <1>9 DEF LeadsBack
  <2>2. CASE i # next
    <3>1. LeadsBack(i) /\ i \in Entries
      BY <1>2
    <3>2. qprev[i] # p /\ qprev[i] # prev /\ qprev[i] \in Entries
      BY <2>2, <3>1, <1>2, <1>3, <1>9 DEF LeadsBack, next
    <3>3. QED  BY <2>2, <3>1, <3>2, <1>4, <1>5, <1>6, <1>9 DEF LeadsBack
  <2>3. QED  BY <2>1, <2>2
<1>10. LinksInverse'
  <2>1. LinksInverse' <=> (\A i \in Ahead' : LeadsOn(i)') /\ (\A i \in Behind' : LeadsBack(i)')
    BY DEF LinksInverse, LeadsOn, LeadsBack, Ahead, Behind, Tails
  <2>2. QED  BY <2>1, <1>5, <1>8, <1>9
<1>11. QED  BY <1>7, <1>10

------------------------------------------------------------------------------
(* Walks.                                                                   *)

Positions == 0 .. NProc + 1
Step(v) == IF v \in Entries THEN qnext[v] ELSE EMPTY

\* The first n entries of a walk from h.
Begins(g, h, n) ==
  /\ g \in [Positions -> Entries \cup {EMPTY}]
  /\ g[0] = h /\ \A k \in 1 .. n : g[k] = Step(g[k-1])

\* A walk exists, for no initial part of it is the shortest that does not.
LEMMA WalkSteps ==
  ASSUME TypeOK, NEW h \in Lists
  PROVE  /\ Walk(h) \in [Positions -> Entries \cup {EMPTY}] /\ Walk(h)[0] = h
         /\ \A n \in 1 .. NProc + 1 : Walk(h)[n] = Step(Walk(h)[n-1])
<1> DEFINE N == NProc + 1
           B == {n \in 0 .. N : ~ \E g : Begins(g, h, n)}
<1>1. N \in Nat /\ N > 0 /\ Positions = 0 .. N
  BY ProcsAssumption DEF Positions
<1>2. h \in Entries
  BY HeadFacts DEF Lists
<1>3. \A v : Step(v) \in Entries \cup {EMPTY}
  BY DEF TypeOK, Step
<1> HIDE DEF N
<1>4. B = {}
  <2>1. SUFFICES ASSUME B # {} PROVE FALSE
    OBVIOUS
  <2> DEFINE m == Min(B)
  <2>2. m \in B /\ \A y \in B : m <= y
    <3>1. B \subseteq Nat
      BY <1>1
    <3> HIDE DEF B
    <3>2. QED  BY <2>1, <3>1, MinNat
  <2>3. m \in 0 .. N /\ ~ \E g : Begins(g, h, m)
    BY <2>2
  <2> HIDE DEF m
  <2>4. CASE m = 0
    <3>1. Begins([i \in Positions |-> h], h, 0)
      BY <1>1, <1>2 DEF Begins
    <3>2. QED  BY <2>3, <2>4, <3>1
  <2>5. CASE m # 0
    <3> DEFINE k == m - 1
    <3>1. k \in 0 .. N /\ ~(m <= k) /\ m = k + 1
      BY <1>1, <2>3, <2>5
    <3> HIDE DEF k
    <3>2. k \notin B
      BY <2>2, <3>1
    <3>3. PICK g : Begins(g, h, k)
      BY <3>1, <3>2
    <3> DEFINE g2 == [g EXCEPT ![m] = Step(g[k])]
    <3>4. /\ g2 \in [Positions -> Entries \cup {EMPTY}]
          /\ \A i \in Positions : g2[i] = IF i = m THEN Step(g[k]) ELSE g[i]
      BY <1>1, <1>3, <2>3, <3>3 DEF Begins
    <3> HIDE DEF g2
    <3>5. g2[0] = h
      BY <1>1, <2>5, <3>3, <3>4 DEF Begins
    <3>6. ASSUME NEW i \in 1 .. m PROVE g2[i] = Step(g2[i-1])
      <4>1. i \in Positions /\ i - 1 \in Positions /\ i - 1 # m
        BY <1>1, <2>3, <3>6
      <4>2. CASE i = m
        BY <1>1, <2>3, <3>1, <3>4, <4>1, <4>2
      <4>3. CASE i # m
        <5>1. i \in 1 .. k
          BY <1>1, <2>3, <3>1, <4>3
        <5>2. QED  BY <3>3, <3>4, <4>1, <4>3, <5>1 DEF Begins
      <4>4. QED  BY <4>2, <4>3
    <3>7. Begins(g2, h, m)
      BY <3>4, <3>5, <3>6 DEF Begins
    <3>8. QED  BY <2>3, <3>7
  <2>6. QED  BY <2>4, <2>5
<1>5. PICK g : Begins(g, h, N)
  <2>1. N \in 0 .. N
    BY <1>1
  <2>2. \A n \in 0 .. N : n \notin B => \E g : Begins(g, h, n)
    OBVIOUS
  <2> HIDE DEF B
  <2>3. QED  BY <1>4, <2>1, <2>2
<1> DEFINE Is(f) ==
      f = [n \in 0 .. NProc + 1 |->
             IF n = 0 THEN h ELSE IF f[n-1] \in Entries THEN qnext[f[n-1]] ELSE EMPTY]
<1>6. Is(g)
  BY <1>5, ProcsAssumption DEF Begins, Step, Positions, N
<1>7. Walk(h) = CHOOSE f : Is(f)
  BY DEF Walk
<1>8. Is(Walk(h))
  <2> HIDE DEF Is
  <2>1. QED  BY <1>6, <1>7
<1>9. Walk(h) = [n \in 0 .. NProc + 1 |->
                   IF n = 0 THEN h
                   ELSE IF Walk(h)[n-1] \in Entries THEN qnext[Walk(h)[n-1]] ELSE EMPTY]
  BY <1>8
<1> DEFINE w == Walk(h)
<1> HIDE DEF w
<1>10. w = [n \in 0 .. NProc + 1 |->
              IF n = 0 THEN h ELSE IF w[n-1] \in Entries THEN qnext[w[n-1]] ELSE EMPTY]
  BY <1>9 DEF w
<1>11. w[0] = h /\ \A n \in 1 .. NProc + 1 : w[n] = Step(w[n-1])
  BY <1>10, ProcsAssumption DEF Step
<1>12. w \in [Positions -> Entries \cup {EMPTY}]
  <2>1. \A n \in Positions : w[n] \in Entries \cup {EMPTY}
    BY <1>1, <1>2, <1>3, <1>11 DEF N
  <2>2. QED  BY <1>10, <2>1 DEF Positions
<1>13. QED  BY <1>11, <1>12 DEF w

\* As long as a walk has not come to the tail it is among the processes of its list,
\* and every link it follows can be followed back.
LEMMA WalkStays ==
  ASSUME TypeOK, LinksInverse, NEW h \in Lists, NEW n \in 1 .. NProc + 1,
         \A i \in 1 .. n - 1 : Walk(h)[i] # TailOf(h)
  PROVE  /\ \A i \in 1 .. n : /\ Walk(h)[i] \in Behind /\ ListOf(Walk(h)[i]) = h
                              /\ qprev[Walk(h)[i]] = Walk(h)[i-1]
         /\ \A i \in 1 .. n - 1 : Walk(h)[i] \in Listed
<1> DEFINE w == Walk(h)
           Good(i) == w[i] \in Behind /\ ListOf(w[i]) = h /\ qprev[w[i]] = w[i-1]
           B == {i \in 1 .. n : ~Good(i)}
<1>1. n \in Nat /\ n >= 1 /\ n <= NProc + 1 /\ NProc \in Nat
  BY ProcsAssumption
<1>2. w[0] = h /\ \A i \in 1 .. NProc + 1 : w[i] = Step(w[i-1])
  BY WalkSteps
<1>3. \A i \in 1 .. n - 1 : w[i] # TailOf(h)
  OBVIOUS
<1>4. \A i \in Ahead : LeadsOn(i) /\ i \in Entries
  BY LinksLead, Places
<1> HIDE DEF w
<1>5. \A i \in 1 .. n - 1 : Good(i) => w[i] \in Listed
  <2>1. TAKE i \in 1 .. n - 1
  <2>2. HAVE Good(i)
  <2>3. w[i] \in Tails => w[i] = TailOf(h)
    BY <2>2, Places
  <2>4. QED  BY <1>3, <2>2, <2>3 DEF Behind
<1>6. ASSUME NEW v \in Ahead, ListOf(v) = h, NEW i \in 1 .. n, w[i-1] = v PROVE Good(i)
  <2>1. w[i] = qnext[v]
    BY <1>1, <1>2, <1>4, <1>6 DEF Step
  <2>2. QED  BY <1>4, <1>6, <2>1 DEF LeadsOn
<1>7. B = {}
  <2>1. SUFFICES ASSUME B # {} PROVE FALSE
    OBVIOUS
  <2> DEFINE m == Min(B)
  <2>2. m \in B /\ \A y \in B : m <= y
    BY <1>1, <2>1, MinNat
  <2>3. m \in 1 .. n /\ ~Good(m) /\ \A y \in 1 .. n : ~(m <= y) => Good(y)
    BY <2>2
  <2> HIDE DEF m, Good
  <2>4. CASE m = 1
    <3>1. h \in Ahead /\ ListOf(h) = h
      BY HeadFacts DEF Ahead, Lists
    <3>2. m - 1 = 0
      BY <2>4
    <3>3. QED  BY <1>2, <1>6, <2>3, <3>1, <3>2
  <2>5. CASE m # 1
    <3> DEFINE k == m - 1
    <3>1. k \in 1 .. n - 1 /\ k \in 1 .. n /\ ~(m <= k)
      BY <1>1, <2>3, <2>5
    <3> HIDE DEF k
    <3>2. Good(k)
      BY <2>3, <3>1
    <3>3. w[k] \in Ahead /\ ListOf(w[k]) = h
      BY <1>5, <3>1, <3>2 DEF Ahead, Good
    <3>4. QED  BY <1>6, <2>3, <3>3 DEF k
  <2>6. QED  BY <2>4, <2>5
<1>8. \A i \in 1 .. n : Good(i)
  BY <1>7
<1>9. \A i \in 1 .. n - 1 : w[i] \in Listed
  <2> HIDE DEF Good
  <2>1. \A i \in 1 .. n - 1 : i \in 1 .. n
    BY <1>1
  <2>2. QED  BY <1>5, <1>8, <2>1
<1>10. QED  BY <1>8, <1>9 DEF w

\* A walk comes to the tail: it could not visit more processes than there are without
\* visiting one twice, and then the first one visited twice would follow two entries.
LEMMA WalkEnds ==
  ASSUME TypeOK, LinksInverse, NEW h \in Lists
  PROVE  \E n \in 1 .. NProc + 1 :
           Walk(h)[n] = TailOf(h) /\ \A i \in 1 .. n - 1 : Walk(h)[i] # TailOf(h)
<1> DEFINE w == Walk(h)
           N == NProc + 1
           T == {n \in 1 .. N : w[n] = TailOf(h)}
<1>1. NProc \in Nat /\ N \in Nat /\ N > 0 /\ N = NProc + 1
  BY ProcsAssumption
<1>2. T # {}
  <2>1. SUFFICES ASSUME T = {} PROVE FALSE
    OBVIOUS
  <2>2. \A n \in 1 .. N : w[n] # TailOf(h)
    BY <2>1
  <2>3. \A i \in 1 .. N : w[i] \in Behind /\ ListOf(w[i]) = h /\ qprev[w[i]] = w[i-1]
    <3>1. N \in 1 .. NProc + 1 /\ \A i \in 1 .. N - 1 : w[i] # TailOf(h)
      BY <1>1, <2>2
    <3> HIDE DEF N
    <3>2. QED  BY <3>1, WalkStays
  <2>4. w[0] = h /\ h \notin Procs
    BY WalkSteps, HeadFacts DEF Lists
  <2> HIDE DEF w, N
  <2>5. \A i \in 1 .. N : w[i] \in Procs
    <3>1. ASSUME NEW i \in 1 .. N PROVE w[i] \in Procs
      <4>1. w[i] \in Tails => w[i] = TailOf(h)
        BY <2>3, Places
      <4>2. QED  BY <2>2, <2>3, <4>1 DEF Behind, Listed
    <3>2. QED  BY <3>1
  <2> DEFINE D == {i \in 1 .. N : \E j \in 1 .. N : i < j /\ w[i] = w[j]}
  <2>6. D # {}
    <3> DEFINE f == [i \in 1 .. N |-> w[i]]
    <3>1. f \in [1 .. N -> Procs]
      BY <2>5
    <3>2. /\ IsFiniteSet(1 .. N) /\ Cardinality(1 .. N) = N
          /\ IsFiniteSet(Procs) /\ Cardinality(Procs) = NProc
      <4>1. /\ IsFiniteSet(1 .. N) /\ Cardinality(1 .. N) = IF 1 > N THEN 0 ELSE N - 1 + 1
            /\ IsFiniteSet(0 .. NProc - 1)
            /\ Cardinality(0 .. NProc - 1) = IF 0 > NProc - 1 THEN 0 ELSE NProc - 1 - 0 + 1
        BY <1>1, FS_Interval
      <4>2. NProc # 0
        BY ProcsAssumption
      <4>3. QED  BY <1>1, <4>1, <4>2 DEF Procs
    <3> HIDE DEF f
    <3>3. PICK i, j \in 1 .. N : i # j /\ f[i] = f[j]
      <4>1. Cardinality(Procs) < Cardinality(1 .. N)
        BY <1>1, <3>2
      <4>2. QED  BY <3>1, <3>2, <4>1, FS_PigeonHole
    <3>4. w[i] = w[j]
      BY <3>3 DEF f
    <3>5. i < j \/ j < i
      BY <1>1, <3>3
    <3>6. QED  BY <3>4, <3>5
  <2> DEFINE m == Min(D)
  <2>7. m \in D /\ \A y \in D : m <= y
    <3>1. D \subseteq Nat
      BY <1>1
    <3> HIDE DEF D
    <3>2. QED  BY <2>6, <3>1, MinNat
  <2>8. m \in 1 .. N
    BY <2>7
  <2>9. PICK j \in 1 .. N : m < j /\ w[m] = w[j]
    BY <2>7
  <2> HIDE DEF m
  <2>10. w[m-1] = w[j-1]
    BY <2>3, <2>8, <2>9
  <2>11. j - 1 \in 1 .. N
    BY <1>1, <2>8, <2>9
  <2>12. CASE m = 1
    BY <2>4, <2>5, <2>10, <2>11, <2>12
  <2>13. CASE m # 1
    <3>1. m - 1 \in 1 .. N /\ m - 1 < j - 1 /\ ~(m <= m - 1)
      BY <1>1, <2>8, <2>9, <2>13
    <3>2. m - 1 \in D
      BY <2>10, <2>11, <3>1
    <3>3. QED  BY <2>7, <3>1, <3>2
  <2>14. QED  BY <2>12, <2>13
<1> DEFINE n == Min(T)
<1>3. n \in T /\ \A y \in T : n <= y
  <2>1. T \subseteq Nat
    BY <1>1
  <2> HIDE DEF T
  <2>2. QED  BY <1>2, <2>1, MinNat
<1>4. n \in 1 .. N /\ w[n] = TailOf(h)
  BY <1>3
<1> HIDE DEF n, w
<1>5. ASSUME NEW i \in 1 .. n - 1 PROVE w[i] # TailOf(h)
  <2>1. i \in 1 .. N /\ ~(n <= i)
    BY <1>1, <1>4, <1>5
  <2>2. QED  BY <1>3, <2>1
<1>6. QED  BY <1>4, <1>5 DEF w

\* Where a walk has come to before or at the tail: what LinkInKeeps asks of a place.
LEMMA WalkPlaces ==
  ASSUME TypeOK, LinksInverse, NEW h \in Lists
  PROVE  \E e \in 1 .. NProc + 1 :
           /\ Walk(h)[e] = TailOf(h)
           /\ \A i \in 1 .. e - 1 : Walk(h)[i] \in Listed
           /\ \A i \in 1 .. e : /\ Walk(h)[i] \in Behind /\ ListOf(Walk(h)[i]) = h
                                /\ qprev[Walk(h)[i]] = Walk(h)[i-1]
BY WalkEnds, WalkStays

\* insert's search stops on the list.
LEMMA InsertStops ==
  ASSUME TypeOK, LinksInverse, KeysBounded, NEW h \in Lists, NEW x \in 0 .. MAXINT
  PROVE  LET next == Walk(h)[Stops(Walk(h), x)]
         IN  next \in Behind /\ ListOf(next) = h
<1> DEFINE w == Walk(h)
           T == {n \in 1 .. NProc + 1 : w[n] \in Entries /\ qkey[w[n]] >= x}
           m == Min(T)
<1>1. NProc \in Nat
  BY ProcsAssumption
<1>2. PICK e \in 1 .. NProc + 1 :
        w[e] = TailOf(h) /\ \A i \in 1 .. e : w[i] \in Behind /\ ListOf(w[i]) = h
  BY WalkPlaces
<1>3. Stops(w, x) = m
  BY DEF Stops
<1>4. e \in T
  <2>1. TailOf(h) \in Entries
    BY HeadFacts DEF Lists
  <2>2. MAXINT >= x
    BY DEF MAXINT
  <2>3. QED  BY <1>2, <2>1, <2>2 DEF KeysBounded
<1>5. m \in T /\ \A y \in T : m <= y
  <2>1. T \subseteq Nat /\ T # {}
    BY <1>1, <1>4
  <2> HIDE DEF T
  <2>2. QED  BY <2>1, MinNat
<1>6. m \in 1 .. NProc + 1 /\ m <= e
  BY <1>4, <1>5
<1> HIDE DEF m, w
<1>7. m \in 1 .. e
  BY <1>1, <1>6
<1>8. QED  BY <1>2, <1>3, <1>7 DEF w

------------------------------------------------------------------------------
(* What insertd's key is reduced to.                                        *)

Searched == 1 .. NProc + 1
Cut(v) == IF v \in Entries THEN qkey[v] ELSE 0

\* The first n remainders of x along a walk w.
Reduces(g, w, x, n) ==
  /\ g \in [Searched -> Int]
  /\ g[1] = x /\ \A k \in 2 .. n : g[k] = g[k-1] - Cut(w[k-1])

\* The remainders exist, as the walk does.
LEMMA LeftSteps ==
  ASSUME TypeOK, NEW w, NEW x \in Int
  PROVE  /\ Left(w, x) \in [Searched -> Int] /\ Left(w, x)[1] = x
         /\ \A n \in 2 .. NProc + 1 : Left(w, x)[n] = Left(w, x)[n-1] - Cut(w[n-1])
<1> DEFINE N == NProc + 1
           B == {n \in 1 .. N : ~ \E g : Reduces(g, w, x, n)}
<1>1. N \in Nat /\ N > 0 /\ Searched = 1 .. N
  BY ProcsAssumption DEF Searched
<1>2. \A v : Cut(v) \in Int
  <2>1. \A v \in Entries : qkey[v] \in 0 .. MININT
    BY DEF TypeOK
  <2>2. QED  BY <2>1 DEF Cut
<1> HIDE DEF N
<1>3. B = {}
  <2>1. SUFFICES ASSUME B # {} PROVE FALSE
    OBVIOUS
  <2> DEFINE m == Min(B)
  <2>2. m \in B /\ \A y \in B : m <= y
    <3>1. B \subseteq Nat
      BY <1>1
    <3> HIDE DEF B
    <3>2. QED  BY <2>1, <3>1, MinNat
  <2>3. m \in 1 .. N /\ ~ \E g : Reduces(g, w, x, m)
    BY <2>2
  <2> HIDE DEF m
  <2>4. CASE m = 1
    <3>1. Reduces([i \in Searched |-> x], w, x, 1)
      BY <1>1 DEF Reduces
    <3>2. QED  BY <2>3, <2>4, <3>1
  <2>5. CASE m # 1
    <3> DEFINE k == m - 1
    <3>1. k \in 1 .. N /\ ~(m <= k) /\ m = k + 1
      BY <1>1, <2>3, <2>5
    <3> HIDE DEF k
    <3>2. k \notin B
      BY <2>2, <3>1
    <3>3. PICK g : Reduces(g, w, x, k)
      BY <3>1, <3>2
    <3> DEFINE g2 == [g EXCEPT ![m] = g[k] - Cut(w[k])]
    <3>4. /\ g2 \in [Searched -> Int]
          /\ \A i \in Searched : g2[i] = IF i = m THEN g[k] - Cut(w[k]) ELSE g[i]
      BY <1>1, <1>2, <2>3, <3>1, <3>3 DEF Reduces
    <3> HIDE DEF g2
    <3>5. g2[1] = x
      BY <1>1, <2>5, <3>3, <3>4 DEF Reduces
    <3>6. ASSUME NEW i \in 2 .. m PROVE g2[i] = g2[i-1] - Cut(w[i-1])
      <4>1. i \in Searched /\ i - 1 \in Searched /\ i - 1 # m
        BY <1>1, <2>3, <3>6
      <4>2. CASE i = m
        <5>1. i - 1 = k
          BY <3>1, <4>2
        <5>2. QED  BY <3>4, <4>1, <4>2, <5>1
      <4>3. CASE i # m
        <5>1. i \in 2 .. k
          BY <1>1, <2>3, <3>1, <4>3
        <5>2. QED  BY <3>3, <3>4, <4>1, <4>3, <5>1 DEF Reduces
      <4>4. QED  BY <4>2, <4>3
    <3>7. Reduces(g2, w, x, m)
      BY <3>4, <3>5, <3>6 DEF Reduces
    <3>8. QED  BY <2>3, <3>7
  <2>6. QED  BY <2>4, <2>5
<1>4. PICK g : Reduces(g, w, x, N)
  <2>1. N \in 1 .. N
    BY <1>1
  <2>2. \A n \in 1 .. N : n \notin B => \E g : Reduces(g, w, x, n)
    OBVIOUS
  <2> HIDE DEF B
  <2>3. QED  BY <1>3, <2>1, <2>2
<1> DEFINE Is(f) ==
      f = [n \in 1 .. NProc + 1 |->
             IF n = 1 THEN x
             ELSE IF w[n-1] \in Entries THEN f[n-1] - qkey[w[n-1]] ELSE f[n-1]]
<1>5. Is(g)
  <2>1. ASSUME NEW n \in Searched
        PROVE  g[n] = IF n = 1 THEN x
                      ELSE IF w[n-1] \in Entries THEN g[n-1] - qkey[w[n-1]] ELSE g[n-1]
    <3>1. n # 1 => n \in 2 .. N /\ n - 1 \in Searched
      BY <1>1, <2>1
    <3>2. QED  BY <1>4, <3>1 DEF Reduces, Cut
  <2>2. QED  BY <1>4, <2>1 DEF Reduces, Searched
<1>6. Left(w, x) = CHOOSE f : Is(f)
  BY DEF Left
<1>7. Is(Left(w, x))
  <2> HIDE DEF Is
  <2>1. QED  BY <1>5, <1>6
<1> DEFINE r == Left(w, x)
<1>8. r = [n \in Searched |->
              IF n = 1 THEN x ELSE IF w[n-1] \in Entries THEN r[n-1] - qkey[w[n-1]] ELSE r[n-1]]
  BY <1>7 DEF Searched
<1> HIDE DEF r
<1>9. \A n \in Searched : r[n] \in Int
  <2> DEFINE C == {n \in Searched : r[n] \notin Int}
  <2>1. SUFFICES ASSUME C # {} PROVE FALSE
    OBVIOUS
  <2> DEFINE m == Min(C)
  <2>2. m \in C /\ \A y \in C : m <= y
    <3>1. C \subseteq Nat
      BY <1>1
    <3> HIDE DEF C
    <3>2. QED  BY <2>1, <3>1, MinNat
  <2> HIDE DEF m
  <2>3. m \in Searched /\ r[m] \notin Int
    BY <2>2
  <2>4. m # 1
    BY <1>1, <1>8, <2>3
  <2>5. m - 1 \in Searched /\ ~(m <= m - 1)
    BY <1>1, <2>3, <2>4
  <2>6. r[m-1] \in Int
    BY <2>2, <2>5
  <2>7. w[m-1] \in Entries => qkey[w[m-1]] \in Int
    BY <1>2 DEF Cut
  <2>8. QED  BY <1>8, <2>3, <2>4, <2>6, <2>7
<1>10. r \in [Searched -> Int]
  BY <1>8, <1>9
<1>11. r[1] = x
  BY <1>1, <1>8
<1>12. ASSUME NEW n \in 2 .. NProc + 1 PROVE r[n] = r[n-1] - Cut(w[n-1])
  <2>1. n \in Searched /\ n # 1 /\ n - 1 \in Searched
    BY <1>12, ProcsAssumption DEF Searched
  <2>2. QED  BY <1>8, <1>9, <2>1 DEF Cut
<1>13. QED  BY <1>10, <1>11, <1>12 DEF r

\* insertd's search stops on the list too: while it goes on, what is left of the key
\* stays a key, and the tail's is no less.
LEMMA InsertdStops ==
  ASSUME TypeOK, LinksInverse, KeysBounded, NEW h \in Lists, NEW x \in 0 .. MAXINT
  PROVE  LET w == Walk(h)
             rem == Left(w, x)
             n == DeltaStops(w, rem)
         IN  /\ w[n] \in Behind /\ ListOf(w[n]) = h /\ qprev[w[n]] = w[n-1]
             /\ rem[n] \in 0 .. MAXINT /\ qkey[w[n]] >= rem[n]
             /\ n \in 1 .. NProc + 1
             /\ \A i \in 1 .. NProc + 1 : w[i] \in Entries /\ qkey[w[i]] >= rem[i] => n <= i
             /\ \E e \in n .. NProc + 1 : w[e] = TailOf(h) /\ \A i \in 1 .. e - 1 : w[i] \in Listed
<1> DEFINE w == Walk(h)
           rem == Left(w, x)
           T == {n \in 1 .. NProc + 1 : w[n] \in Entries /\ qkey[w[n]] >= rem[n]}
           m == Min(T)
<1>1. NProc \in Nat /\ x \in Int
  BY ProcsAssumption
<1>2. PICK e \in 1 .. NProc + 1 :
        /\ w[e] = TailOf(h) /\ \A i \in 1 .. e - 1 : w[i] \in Listed
        /\ \A i \in 1 .. e : w[i] \in Behind /\ ListOf(w[i]) = h /\ qprev[w[i]] = w[i-1]
  BY WalkPlaces
<1>3. DeltaStops(w, rem) = m
  BY DEF DeltaStops
<1>4. /\ rem[1] = x /\ \A n \in 2 .. NProc + 1 : rem[n] = rem[n-1] - Cut(w[n-1])
      /\ \A n \in 1 .. NProc + 1 : rem[n] \in Int
  BY <1>1, LeftSteps DEF Searched
<1>5. \A i \in 1 .. e : w[i] \in Entries /\ qkey[w[i]] \in Int /\ qkey[w[i]] >= 0
  <2>1. \A i \in 1 .. e : w[i] \in Entries
    BY <1>2, Places
  <2>2. \A v \in Entries : qkey[v] \in 0 .. MININT
    BY DEF TypeOK
  <2>3. QED  BY <2>1, <2>2
<1>6. qkey[w[e]] = MAXINT
  BY <1>2 DEF KeysBounded
<1> HIDE DEF w, rem
<1>7. ASSUME NEW k \in 1 .. e, \A i \in 1 .. k - 1 : i \notin T
      PROVE  rem[k] \in 0 .. MAXINT
  <2> DEFINE C == {i \in 1 .. k : rem[i] \notin 0 .. MAXINT}
             c == Min(C)
  <2>1. SUFFICES ASSUME C # {} PROVE FALSE
    BY <1>1, <1>7
  <2>2. c \in C /\ \A y \in C : c <= y
    <3>1. C \subseteq Nat
      OBVIOUS
    <3> HIDE DEF C
    <3>2. QED  BY <2>1, <3>1, MinNat
  <2>3. c \in 1 .. k /\ rem[c] \notin 0 .. MAXINT
    BY <2>2
  <2> HIDE DEF c
  <2>4. c # 1
    BY <1>4, <2>3
  <2> DEFINE d == c - 1
  <2>5. d \in 1 .. k - 1 /\ d \in 1 .. k /\ d \in 1 .. e /\ d \in 1 .. NProc + 1
        /\ c \in 2 .. NProc + 1 /\ ~(c <= d)
    BY <1>1, <1>2, <1>7, <2>3, <2>4
  <2>6. rem[c] = rem[d] - Cut(w[d])
    BY <1>4, <2>5
  <2> HIDE DEF d
  <2>7. rem[d] \in 0 .. MAXINT
    BY <2>2, <2>5
  <2>8. w[d] \in Entries /\ qkey[w[d]] \in Int /\ qkey[w[d]] >= 0
    BY <1>5, <2>5
  <2>9. ~(qkey[w[d]] >= rem[d])
    BY <1>7, <2>5, <2>8
  <2>10. rem[c] \in 0 .. MAXINT
    <3>1. MAXINT \in Int
      BY DEF MAXINT
    <3>2. rem[c] = rem[d] - qkey[w[d]]
      BY <2>6, <2>8 DEF Cut
    <3>3. QED  BY <2>7, <2>8, <2>9, <3>1, <3>2
  <2>11. QED  BY <2>3, <2>10
<1>8. \E i \in 1 .. e : i \in T
  <2>1. SUFFICES ASSUME \A i \in 1 .. e : i \notin T PROVE FALSE
    OBVIOUS
  <2>2. e \in 1 .. e /\ \A i \in 1 .. e - 1 : i \in 1 .. e
    BY <1>1
  <2>3. rem[e] \in 0 .. MAXINT
    <3> HIDE DEF T
    <3>1. QED  BY <1>7, <2>1, <2>2
  <2>4. e \in T
    <3>1. MAXINT \in Int
      BY DEF MAXINT
    <3>2. MAXINT >= rem[e]
      BY <2>3, <3>1
    <3>3. QED  BY <1>5, <1>6, <2>2, <3>2
  <2>5. QED  BY <2>1, <2>2, <2>4
<1>9. m \in T /\ \A y \in T : m <= y
  <2>1. T \subseteq Nat /\ T # {}
    BY <1>1, <1>8
  <2> HIDE DEF T
  <2>2. QED  BY <2>1, MinNat
<1>10. m \in 1 .. NProc + 1 /\ w[m] \in Entries /\ qkey[w[m]] >= rem[m]
  BY <1>9
<1> HIDE DEF m
<1>11. m \in 1 .. e
  BY <1>1, <1>8, <1>9, <1>10
<1>12. rem[m] \in 0 .. MAXINT
  <2>1. \A i \in 1 .. m - 1 : ~(m <= i)
    BY <1>10
  <2> HIDE DEF T
  <2>2. QED  BY <1>7, <1>9, <1>11, <2>1
<1>13. \A i \in 1 .. NProc + 1 : w[i] \in Entries /\ qkey[w[i]] >= rem[i] => m <= i
  BY <1>9
<1>14. e \in m .. NProc + 1
  <2> HIDE DEF T
  <2>1. QED  BY <1>1, <1>2, <1>11
<1>15. QED  BY <1>2, <1>3, <1>10, <1>11, <1>12, <1>13, <1>14 DEF w, rem

\* In a state of the invariant every search of a list ends.
LEMMA SearchesStop ==
  ASSUME TypeOK, LinksInverse, KeysBounded
  PROVE  SearchStops
BY WalkPlaces DEF SearchStops, KeysBounded

------------------------------------------------------------------------------
(* The invariant.                                                           *)

LEMMA InitInv == Init => IInv
<1> SUFFICES ASSUME Init PROVE IInv
  OBVIOUS
<1>1. NProc \in Nat \ {0} /\ NQueues \in Nat \ {0}
  BY ProcsAssumption, QueuesAssumption
<1>2. Lists = {} /\ Listed = {}
  <2>1. \A h \in Heads : ~(h < nextqueue)
    BY <1>1, HeadFacts DEF Init
  <2>2. QED  BY <2>1 DEF Init, Lists, Listed
<1>3. TypeOK
  <2>1. 0 \in 0 .. MININT /\ NProc \in NProc .. NProc + 2 * NQueues /\ 0 \in Entries
    BY <1>1 DEF MININT, Entries
  <2>2. QED  BY <2>1 DEF Init, TypeOK
<1>4. LinksInverse
  BY <1>2 DEF LinksInverse
<1>5. Given
  <2>1. 0 \in 0 .. NQueues /\ nextqueue = NProc + 2 * 0
    BY <1>1 DEF Init
  <2>2. QED  BY <2>1 DEF Given
<1>6. HomesGiven /\ KeysBounded
  <2>1. HomesGiven
    BY <1>2 DEF Init, HomesGiven
  <2>2. ASSUME NEW p \in Procs PROVE qkey[p] \in 0 .. MAXINT
    <3>1. p \in Entries
      BY ProcFacts
    <3>2. qkey[p] = 0
      BY <3>1 DEF Init
    <3>3. QED  BY <3>2 DEF MAXINT
  <2>3. QED  BY <1>2, <2>1, <2>2 DEF KeysBounded
<1>7. QED  BY <1>3, <1>4, <1>5, <1>6 DEF IInv

\* Lists that were given out before keep their ends.
LEMMA NewqueueInv ==
  ASSUME IInv, Newqueue
  PROVE  IInv'
<1> DEFINE h == nextqueue
<1>1. /\ TypeOK /\ LinksInverse /\ Given /\ HomesGiven /\ KeysBounded
      /\ NProc \in Nat \ {0} /\ NQueues \in Nat \ {0}
  BY ProcsAssumption, QueuesAssumption DEF IInv
<1>2. /\ h \in Heads /\ h \in Int /\ h \in Entries /\ TailOf(h) \in Entries /\ h # EMPTY
      /\ TailOf(h) # h /\ TailOf(h) \notin Heads /\ h \notin Procs /\ TailOf(h) \notin Procs
      /\ ListOf(h) = h /\ ListOf(TailOf(h)) = h
  BY HeadFacts DEF Newqueue
<1>3. nextqueue' = h + 2 /\ home' = home /\ ret' = ret
  BY DEF Newqueue
<1>4. Lists' = Lists \cup {h}
  <2>1. ASSUME NEW g \in Heads PROVE g < h + 2 <=> g < h \/ g = h
    <3>1. PICK j \in 0 .. NQueues - 1 : g = NProc + 2 * j
      BY DEF Heads
    <3>2. PICK k \in 0 .. NQueues - 1 : h = NProc + 2 * k
      BY <1>2 DEF Heads
    <3>3. QED  BY <1>1, <3>1, <3>2
  <2>2. QED  BY <1>2, <1>3, <2>1 DEF Lists
<1>5. Listed' = Listed /\ h \notin Lists /\ TailOf(h) \notin Tails
  <2>1. h \notin Lists
    BY <1>2 DEF Lists
  <2>2. QED  BY <1>2, <1>3, <2>1, Places DEF Listed
<1>6. Ahead' = Ahead \cup {h} /\ Behind' = Behind \cup {TailOf(h)}
  <2>1. Tails' = Tails \cup {TailOf(h)}
    BY <1>4 DEF Tails
  <2>2. QED  BY <1>4, <1>5, <2>1 DEF Ahead, Behind
<1>7. \A i : ListOf(i)' = ListOf(i)
  BY <1>3 DEF ListOf
<1>8. /\ h \notin Ahead /\ h \notin Behind /\ TailOf(h) \notin Ahead /\ TailOf(h) \notin Behind
  BY <1>2, <1>5, Places
<1>9. \A i \in Entries :
        /\ qnext'[i] = IF i = h THEN TailOf(h) ELSE IF i = TailOf(h) THEN EMPTY ELSE qnext[i]
        /\ qprev'[i] = IF i = h THEN EMPTY ELSE IF i = TailOf(h) THEN h ELSE qprev[i]
        /\ qkey'[i] = IF i = h THEN MININT ELSE IF i = TailOf(h) THEN MAXINT ELSE qkey[i]
  <2> HIDE DEF h
  <2>1. /\ qnext' = [qnext EXCEPT ![h] = TailOf(h), ![TailOf(h)] = EMPTY]
        /\ qprev' = [qprev EXCEPT ![h] = EMPTY, ![TailOf(h)] = h]
        /\ qkey' = [qkey EXCEPT ![h] = MININT, ![TailOf(h)] = MAXINT]
    BY DEF Newqueue, h
  <2>2. QED  BY <1>1, <1>2, <2>1 DEF TypeOK
<1>10. TypeOK'
  <2>1. nextqueue' \in NProc .. NProc + 2 * NQueues
    <3>1. PICK k \in 0 .. NQueues - 1 : h = NProc + 2 * k
      BY <1>2 DEF Heads
    <3>2. QED  BY <1>1, <1>3, <3>1
  <2>2. qnext' \in [Entries -> Entries \cup {EMPTY}] /\ qprev' \in [Entries -> Entries \cup {EMPTY}]
    BY <1>1, <1>2 DEF TypeOK, Newqueue
  <2>3. qkey' \in [Entries -> 0 .. MININT]
    <3>1. MAXINT \in 0 .. MININT /\ MININT \in 0 .. MININT
      BY DEF MAXINT, MININT
    <3>2. QED  BY <1>1, <1>2, <3>1 DEF TypeOK, Newqueue
  <2>4. QED  BY <1>1, <1>3, <2>1, <2>2, <2>3 DEF TypeOK
<1> HIDE DEF h
<1>11. /\ \A i \in Ahead : LeadsOn(i) /\ i \in Entries
       /\ \A i \in Behind : LeadsBack(i) /\ i \in Entries
  BY <1>1, LinksLead, Places
<1>12. ASSUME NEW i \in Ahead \cup {h} PROVE LeadsOn(i)'
  <2>1. CASE i = h
    BY <2>1, <1>2, <1>6, <1>7, <1>9 DEF LeadsOn
  <2>2. CASE i # h
    <3>1. i \in Ahead /\ LeadsOn(i) /\ i \in Entries /\ i # TailOf(h)
      BY <2>2, <1>8, <1>11
    <3>2. qnext[i] \in Behind /\ qnext[i] \in Entries /\ qnext[i] # h /\ qnext[i] # TailOf(h)
      BY <3>1, <1>8, <1>11 DEF LeadsOn
    <3>3. QED  BY <2>2, <3>1, <3>2, <1>6, <1>7, <1>9 DEF LeadsOn
  <2>3. QED  BY <2>1, <2>2
<1>13. ASSUME NEW i \in Behind \cup {TailOf(h)} PROVE LeadsBack(i)'
  <2>1. CASE i = TailOf(h)
    BY <2>1, <1>2, <1>6, <1>7, <1>9 DEF LeadsBack
  <2>2. CASE i # TailOf(h)
    <3>1. i \in Behind /\ LeadsBack(i) /\ i \in Entries /\ i # h
      BY <2>2, <1>8, <1>11
    <3>2. qprev[i] \in Ahead /\ qprev[i] \in Entries /\ qprev[i] # h /\ qprev[i] # TailOf(h)
      BY <3>1, <1>8, <1>11 DEF LeadsBack
    <3>3. QED  BY <2>2, <3>1, <3>2, <1>6, <1>7, <1>9 DEF LeadsBack
  <2>3. QED  BY <2>1, <2>2
<1>14. LinksInverse'
  <2>1. LinksInverse' <=> (\A i \in Ahead' : LeadsOn(i)') /\ (\A i \in Behind' : LeadsBack(i)')
    BY DEF LinksInverse, LeadsOn, LeadsBack, Ahead, Behind, Tails
  <2>2. QED  BY <2>1, <1>6, <1>12, <1>13
<1>15. Given'
  <2>1. PICK k \in 0 .. NQueues - 1 : h = NProc + 2 * k
    BY <1>2 DEF Heads
  <2>2. k + 1 \in 0 .. NQueues /\ nextqueue' = NProc + 2 * (k + 1)
    BY <1>1, <1>3, <2>1
  <2>3. QED  BY <2>2 DEF Given
<1>16. HomesGiven' /\ KeysBounded'
  <2>1. HomesGiven'
    BY <1>1, <1>3, <1>4 DEF HomesGiven
  <2>2. \A p \in Procs : qkey'[p] \in 0 .. MAXINT
    <3>1. \A p \in Procs : p \in Entries /\ p # h /\ p # TailOf(h)
      BY <1>2, ProcFacts
    <3>2. QED  BY <1>1, <1>9, <3>1 DEF KeysBounded
  <2>3. ASSUME NEW g \in Lists' PROVE qkey'[TailOf(g)] = MAXINT
    <3>1. CASE g = h
      BY <1>2, <1>9, <3>1
    <3>2. CASE g # h
      <4>1. g \in Lists
        BY <1>4, <3>2
      <4>2. TailOf(g) \in Tails /\ TailOf(g) \in Entries /\ TailOf(g) # h
        BY <4>1, <1>2, Places, HeadFacts DEF Tails, Lists
      <4>3. QED  BY <1>1, <1>5, <1>9, <4>1, <4>2 DEF KeysBounded
    <3>3. QED  BY <3>1, <3>2
  <2>4. QED  BY <2>1, <2>2, <2>3 DEF KeysBounded
<1>17. QED  BY <1>10, <1>14, <1>15, <1>16 DEF IInv

\* A step that changes keys of processes alone, and to keys.
KeysKept ==
  /\ qkey' \in [Entries -> 0 .. MININT]
  /\ \A i \in Entries : qkey'[i] = qkey[i] \/ (i \in Procs /\ qkey'[i] \in 0 .. MAXINT)

LEMMA KeysKeptBounded ==
  ASSUME TypeOK, KeysBounded, KeysKept, nextqueue' = nextqueue
  PROVE  KeysBounded'
<1>1. \A p \in Procs : qkey'[p] \in 0 .. MAXINT
  BY ProcFacts DEF KeysBounded, KeysKept
<1>2. ASSUME NEW h \in Lists' PROVE qkey'[TailOf(h)] = MAXINT
  <2>1. h \in Lists /\ TailOf(h) \in Entries /\ TailOf(h) \notin Procs
    BY HeadFacts DEF Lists
  <2>2. QED  BY <2>1 DEF KeysBounded, KeysKept
<1>3. QED  BY <1>1, <1>2 DEF KeysBounded

LEMMA KeyWidths == MAXINT \in Nat /\ MININT \in Nat /\ MAXINT <= MININT
BY DEF MAXINT, MININT

\* One key of a process is set.
LEMMA KeySet ==
  ASSUME TypeOK, NEW p \in Procs, NEW x \in 0 .. MAXINT, qkey' = [qkey EXCEPT ![p] = x]
  PROVE  KeysKept
<1>1. p \in Entries /\ x \in 0 .. MININT
  <2>1. p \in Entries
    BY ProcFacts
  <2>2. x \in 0 .. MININT
    BY KeyWidths
  <2>3. QED  BY <2>1, <2>2
<1>2. QED  BY <1>1 DEF TypeOK, KeysKept

LEMMA UnchangedKeys ==
  ASSUME TypeOK, qkey' = qkey
  PROVE  KeysKept
BY DEF TypeOK, KeysKept

\* What enqueue, insert and insertd have in common.
LEMMA PlaceInv ==
  ASSUME IInv, NEW p \in Procs, home[p] = EMPTY, NEW h \in Lists,
         NEW prev, NEW next, next \in Behind, ListOf(next) = h, qprev[next] = prev,
         LinkIn(p, prev, next), home' = [home EXCEPT ![p] = h],
         nextqueue' = nextqueue, ret' = ret, KeysKept
  PROVE  IInv'
<1>1. TypeOK /\ LinksInverse /\ Given /\ HomesGiven /\ KeysBounded
  BY DEF IInv
<1>2. /\ LinksInverse' /\ qnext' \in [Entries -> Entries \cup {EMPTY}]
      /\ qprev' \in [Entries -> Entries \cup {EMPTY}]
  BY <1>1, LinkInKeeps
<1>3. Lists' = Lists /\ h \in Heads
  BY DEF Lists
<1>4. TypeOK'
  BY <1>1, <1>2, <1>3 DEF TypeOK, KeysKept
<1>5. HomesGiven' /\ Given'
  BY <1>1, <1>3 DEF HomesGiven, Given, TypeOK
<1>6. QED  BY <1>1, <1>2, <1>4, <1>5, KeysKeptBounded DEF IInv

LEMMA EnqueueInv ==
  ASSUME IInv, NEW p \in Procs, NEW h \in Lists, Enqueue(p, h)
  PROVE  IInv'
<1>1. TypeOK
  BY DEF IInv
<1>2. TailOf(h) \in Behind /\ ListOf(TailOf(h)) = h
  BY HeadFacts DEF Behind, Tails, Lists
<1>3. KeysKept
  BY <1>1, UnchangedKeys DEF Enqueue
<1>4. QED  BY <1>2, <1>3, PlaceInv DEF Enqueue

LEMMA InsertInv ==
  ASSUME IInv, NEW p \in Procs, NEW h \in Lists, NEW x \in 0 .. MAXINT, Insert(p, h, x)
  PROVE  IInv'
<1> DEFINE next == Walk(h)[Stops(Walk(h), x)]
<1>1. TypeOK /\ LinksInverse /\ KeysBounded
  BY DEF IInv
<1>2. next \in Behind /\ ListOf(next) = h
  BY <1>1, InsertStops
<1>3. /\ home[p] = EMPTY /\ LinkIn(p, qprev[next], next) /\ home' = [home EXCEPT ![p] = h]
      /\ nextqueue' = nextqueue /\ ret' = ret /\ qkey' = [qkey EXCEPT ![p] = x]
  BY DEF Insert
<1> HIDE DEF next
<1>4. KeysKept
  BY <1>1, <1>3, KeySet
<1>5. QED  BY <1>2, <1>3, <1>4, PlaceInv

\* insertd also takes what is left of the key from the key of the entry behind.
LEMMA InsertdInv ==
  ASSUME IInv, NEW p \in Procs, NEW h \in Lists, NEW x \in 0 .. MAXINT, Insertd(p, h, x)
  PROVE  IInv'
<1> DEFINE f == Walk(h)
           n == DeltaStops(f, Left(f, x))
           next == f[n]
           prev == f[n-1]
           left == Left(f, x)[n]
           own == [qkey EXCEPT ![p] = left]
<1>1. TypeOK /\ LinksInverse /\ KeysBounded
  BY DEF IInv
<1>2. /\ next \in Behind /\ ListOf(next) = h /\ qprev[next] = prev
      /\ left \in 0 .. MAXINT /\ qkey[next] >= left
  BY <1>1, InsertdStops
<1>3. /\ home[p] = EMPTY /\ LinkIn(p, prev, next) /\ home' = [home EXCEPT ![p] = h]
      /\ nextqueue' = nextqueue /\ ret' = ret
      /\ qkey' = IF Shorten(next, left) THEN [own EXCEPT ![next] = @ - left] ELSE own
  BY DEF Insertd
<1>4. next # p
  BY <1>3, <1>2, Places
<1> HIDE DEF f, n, next, prev, left, own
<1>5. KeysKept
  <2>1. CASE Shorten(next, left)
    <3>1. next \in Procs /\ next \in Entries /\ p \in Entries
      <4>1. next \in Int /\ next \in Entries /\ next < NProc /\ p \in Entries
        BY <1>2, <2>1, Places, ProcFacts DEF Shorten
      <4>2. next \in Procs
        BY <4>1, ProcsAssumption, QueuesAssumption DEF Entries, Procs
      <4>3. QED  BY <4>1, <4>2
    <3> DEFINE less == qkey[next] - left
    <3>2. less \in 0 .. MAXINT
      <4>1. qkey[next] \in 0 .. MAXINT
        BY <1>1, <3>1 DEF KeysBounded
      <4>2. QED  BY <1>2, <4>1, KeyWidths
    <3>3. less \in 0 .. MININT /\ left \in 0 .. MININT
      <4> HIDE DEF less
      <4>1. QED  BY <1>2, <3>2, KeyWidths
    <3>4. qkey' = [own EXCEPT ![next] = @ - left]
      BY <1>3, <2>1
    <3>5. /\ own \in [Entries -> 0 .. MININT]
          /\ \A i \in Entries : own[i] = IF i = p THEN left ELSE qkey[i]
      BY <1>1, <3>1, <3>3 DEF TypeOK, own
    <3> HIDE DEF less
    <3>6. own[next] - left = less
      BY <1>4, <3>1, <3>5 DEF less
    <3>7. qkey' = [own EXCEPT ![next] = less]
      BY <3>4, <3>6
    <3>8. QED  BY <1>2, <3>1, <3>2, <3>3, <3>5, <3>7 DEF KeysKept
  <2>2. CASE ~Shorten(next, left)
    <3>1. qkey' = [qkey EXCEPT ![p] = left]
      BY <1>3, <2>2 DEF own
    <3>2. QED  BY <1>1, <1>2, <3>1, KeySet
  <2>3. QED  BY <2>1, <2>2
<1>6. QED  BY <1>2, <1>3, <1>5, PlaceInv

\* A process leaves its list.
LEMMA TakeInv ==
  ASSUME IInv, NEW p \in Procs, home[p] # EMPTY, Take(p), ret' \in Procs \cup {EMPTY}
  PROVE  IInv'
<1>1. TypeOK /\ LinksInverse /\ Given /\ HomesGiven /\ KeysBounded
  BY DEF IInv
<1>2. /\ Unlink(p) /\ home' = [home EXCEPT ![p] = EMPTY]
      /\ qkey' = qkey /\ nextqueue' = nextqueue
  BY DEF Take
<1>3. /\ LinksInverse' /\ qnext' \in [Entries -> Entries \cup {EMPTY}]
      /\ qprev' \in [Entries -> Entries \cup {EMPTY}]
  BY <1>1, <1>2, UnlinkKeeps
<1>4. Lists' = Lists
  BY <1>2 DEF Lists
<1>5. TypeOK'
  BY <1>1, <1>2, <1>3 DEF TypeOK
<1>6. Given' /\ HomesGiven'
  BY <1>1, <1>2, <1>4 DEF HomesGiven, Given, TypeOK
<1>7. KeysBounded'
  BY <1>1, <1>2, UnchangedKeys, KeysKeptBounded
<1>8. QED  BY <1>3, <1>5, <1>6, <1>7 DEF IInv

\* A step that leaves the array and the lists alone.
LEMMA QueueStutters ==
  ASSUME IInv, qkey' = qkey, qnext' = qnext, qprev' = qprev, nextqueue' = nextqueue,
         home' = home, ret' \in Procs \cup {EMPTY}
  PROVE  IInv'
<1>1. Lists' = Lists /\ Listed' = Listed /\ \A i : ListOf(i)' = ListOf(i)
  BY DEF Lists, Listed, ListOf
<1>2. TypeOK'
  BY DEF IInv, TypeOK
<1>3. LinksInverse'
  BY <1>1 DEF IInv, LinksInverse
<1>4. Given' /\ HomesGiven' /\ KeysBounded'
  BY <1>1 DEF IInv, Given, HomesGiven, KeysBounded
<1>5. QED  BY <1>2, <1>3, <1>4 DEF IInv

\* An end of a list is a process that is on a list, or no process.
LEMMA GetFromInv ==
  ASSUME IInv, NEW p, p \in Ahead \cup Behind, GetFrom(p)
  PROVE  IInv'
<1>1. CASE p < NProc /\ Take(p) /\ ret' = p
  <2>1. p \in Entries /\ p \in Int /\ p < NProc
    BY <1>1, Places
  <2>2. p \in Procs
    BY <2>1, ProcsAssumption, QueuesAssumption DEF Entries, Procs
  <2>3. home[p] # EMPTY
    BY <2>2, Places
  <2>4. QED  BY <1>1, <2>2, <2>3, TakeInv
<1>2. CASE ret' = EMPTY /\ UNCHANGED <<qkey, links, nextqueue, home>>
  BY <1>2, QueueStutters DEF links
<1>3. QED  BY <1>1, <1>2 DEF GetFrom

LEMMA SetKeyInv ==
  ASSUME IInv, NEW p \in Procs, NEW x \in 0 .. MAXINT, SetKey(p, x)
  PROVE  IInv'
<1>1. TypeOK /\ LinksInverse /\ Given /\ HomesGiven /\ KeysBounded
  BY DEF IInv
<1>2. /\ qkey' = [qkey EXCEPT ![p] = x] /\ qnext' = qnext /\ qprev' = qprev
      /\ nextqueue' = nextqueue /\ home' = home /\ ret' = ret
  BY DEF SetKey, links
<1>3. KeysKept
  BY <1>1, <1>2, KeySet
<1>4. Lists' = Lists /\ Listed' = Listed /\ \A i : ListOf(i)' = ListOf(i)
  BY <1>2 DEF Lists, Listed, ListOf
<1>5. TypeOK'
  BY <1>1, <1>2, <1>3 DEF TypeOK, KeysKept
<1>6. LinksInverse'
  BY <1>1, <1>2, <1>4 DEF LinksInverse
<1>7. Given' /\ HomesGiven'
  BY <1>1, <1>2, <1>4 DEF Given, HomesGiven
<1>8. QED  BY <1>1, <1>2, <1>3, <1>5, <1>6, <1>7, KeysKeptBounded DEF IInv

LEMMA NextInv ==
  IInv /\ [Next]_vars => IInv'
<1> SUFFICES ASSUME IInv, [Next]_vars PROVE IInv'
  OBVIOUS
<1>1. TypeOK /\ LinksInverse
  BY DEF IInv
<1>2. \A x \in Keys : x \in 0 .. MAXINT
  BY KeyAssumption
<1>3. CASE Newqueue
  BY <1>3, NewqueueInv
<1>4. ASSUME NEW p \in Procs, Dequeue(p) PROVE IInv'
  <2>1. home[p] # EMPTY /\ Take(p) /\ ret' \in Procs \cup {EMPTY}
    BY <1>1, <1>4 DEF Dequeue, TypeOK
  <2>2. QED  BY <2>1, TakeInv
<1>5. ASSUME NEW p \in Procs, NEW x \in Keys, SetKey(p, x) PROVE IInv'
  BY <1>2, <1>5, SetKeyInv
<1>6. ASSUME NEW h \in Lists, Getfirst(h) PROVE IInv'
  <2>1. qnext[h] \in Behind
    BY <1>1, LinksLead DEF LeadsOn, Ahead
  <2>2. QED  BY <1>6, <2>1, GetFromInv DEF Getfirst
<1>7. ASSUME NEW h \in Lists, Getlast(h) PROVE IInv'
  <2>1. TailOf(h) \in Behind
    BY DEF Behind, Tails
  <2>2. qprev[TailOf(h)] \in Ahead
    BY <1>1, <2>1, LinksLead DEF LeadsBack
  <2>3. QED  BY <1>7, <2>2, GetFromInv DEF Getlast
<1>8. ASSUME NEW p \in Procs, NEW h \in Lists, Enqueue(p, h) PROVE IInv'
  BY <1>8, EnqueueInv
<1>9. ASSUME NEW p \in Procs, NEW h \in Lists, NEW x \in Keys, Insert(p, h, x) PROVE IInv'
  BY <1>2, <1>9, InsertInv
<1>10. ASSUME NEW p \in Procs, NEW h \in Lists, NEW x \in Keys, Insertd(p, h, x) PROVE IInv'
  BY <1>2, <1>10, InsertdInv
<1>11. CASE UNCHANGED vars
  <2>1. /\ qkey' = qkey /\ qnext' = qnext /\ qprev' = qprev /\ nextqueue' = nextqueue
        /\ home' = home /\ ret' \in Procs \cup {EMPTY}
    BY <1>1, <1>11 DEF vars, links, TypeOK
  <2>2. QED  BY <2>1, QueueStutters
<1>12. QED
  BY <1>3, <1>4, <1>5, <1>6, <1>7, <1>8, <1>9, <1>10, <1>11 DEF Next

LEMMA SpecInv == Spec => []IInv
BY InitInv, NextInv, PTL DEF Spec

------------------------------------------------------------------------------
(* What the queue array guarantees.                                         *)

\* The fields hold what their readers take them for: no key is ever negative, although
\* insertd takes the key of one entry from another's.
THEOREM QueueTypeCorrect == Spec => []TypeOK
<1>1. IInv => TypeOK
  BY DEF IInv
<1>2. QED  BY <1>1, SpecInv, PTL

\* Whatever enqueue, insert, insertd, dequeue, getfirst and getlast do, going on from an
\* entry of a list and back again ends where it began, on the same list.
THEOREM LinksCorrect == Spec => []LinksInverse
<1>1. IInv => LinksInverse
  BY DEF IInv
<1>2. QED  BY <1>1, SpecInv, PTL

\* No search by insert or insertd leaves its list or goes on for ever: it comes to the
\* tail, whose key is MAXINT, within as many links as there are processes and one.
THEOREM SearchesEnd == Spec => []SearchStops
<1>1. IInv => SearchStops
  BY SearchesStop DEF IInv
<1>2. QED  BY <1>1, SpecInv, PTL

------------------------------------------------------------------------------
(* The links are the lists of AbsQueue.                                     *)

\* The entries of list h when the processes on it are l, in order: its head, them, its tail.
Entry(l, h, i) == IF i = 0 THEN h ELSE IF i <= Len(l) THEN l[i] ELSE TailOf(h)

\* The links lead from the head through l to the tail.
Follows(l, h) == \A i \in 0 .. Len(l) : qnext[Entry(l, h, i)] = Entry(l, h, i + 1)

\* There is one such list, and ListAt finds it.
FollowedIsList ==
  TypeOK => \A h \in Lists, l \in Seq(Procs) : IsInjective(l) /\ Follows(l, h) => ListAt(h) = l

LEMMA FollowedOnce == FollowedIsList
<1> SUFFICES ASSUME TypeOK, NEW h \in Lists, NEW l \in Seq(Procs), IsInjective(l), Follows(l, h)
             PROVE  ListAt(h) = l
  BY DEF FollowedIsList
<1> DEFINE w == Walk(h)
           n == Len(l) + 1
<1>1. NProc \in Nat /\ Len(l) \in Nat /\ n \in Nat /\ h \in Heads
  BY ProcsAssumption DEF Lists
<1>2. Len(l) <= NProc
  <2>1. SUFFICES ASSUME NProc < Len(l) PROVE FALSE
    BY <1>1
  <2> DEFINE f == [i \in 1 .. Len(l) |-> l[i]]
  <2>2. f \in [1 .. Len(l) -> Procs]
    OBVIOUS
  <2>3. /\ IsFiniteSet(1 .. Len(l)) /\ Cardinality(1 .. Len(l)) = Len(l)
        /\ IsFiniteSet(Procs) /\ Cardinality(Procs) = NProc
    <3>1. /\ IsFiniteSet(1 .. Len(l))
          /\ Cardinality(1 .. Len(l)) = IF 1 > Len(l) THEN 0 ELSE Len(l) - 1 + 1
          /\ IsFiniteSet(0 .. NProc - 1)
          /\ Cardinality(0 .. NProc - 1) = IF 0 > NProc - 1 THEN 0 ELSE NProc - 1 - 0 + 1
      BY <1>1, FS_Interval
    <3>2. NProc # 0
      BY ProcsAssumption
    <3>3. QED  BY <1>1, <2>1, <3>1, <3>2 DEF Procs
  <2>4. Cardinality(Procs) < Cardinality(1 .. Len(l))
    BY <2>1, <2>3
  <2> HIDE DEF f
  <2>5. PICK i, j \in 1 .. Len(l) : i # j /\ f[i] = f[j]
    BY <2>2, <2>3, <2>4, FS_PigeonHole
  <2>6. l[i] = l[j]
    BY <2>5 DEF f
  <2>7. QED  BY <2>5, <2>6, DistinctEntries
<1>3. w[0] = h /\ \A i \in 1 .. NProc + 1 : w[i] = Step(w[i-1])
  BY WalkSteps
<1>4. \A i \in 0 .. Len(l) : Entry(l, h, i) \in Entries
  <2>1. h \in Entries
    BY <1>1, HeadFacts
  <2>2. \A i \in 1 .. Len(l) : l[i] \in Entries
    BY ProcFacts
  <2>3. QED  BY <1>1, <2>1, <2>2 DEF Entry
<1> HIDE DEF w
<1>5. \A i \in 0 .. n : w[i] = Entry(l, h, i)
  <2> DEFINE B == {i \in 0 .. n : w[i] # Entry(l, h, i)}
             m == Min(B)
  <2>1. SUFFICES ASSUME B # {} PROVE FALSE
    OBVIOUS
  <2>2. m \in B /\ \A y \in B : m <= y
    <3>1. B \subseteq Nat
      BY <1>1
    <3> HIDE DEF B
    <3>2. QED  BY <2>1, <3>1, MinNat
  <2>3. m \in 0 .. n /\ w[m] # Entry(l, h, m)
    BY <2>2
  <2>4. m # 0
    BY <1>3, <2>3 DEF Entry
  <2>5. m \in 1 .. NProc + 1 /\ m - 1 \in 0 .. n /\ m - 1 \in 0 .. Len(l) /\ ~(m <= m - 1)
        /\ (m - 1) + 1 = m
    <3> HIDE DEF m
    <3>1. QED  BY <1>1, <1>2, <2>3, <2>4
  <2>6. w[m-1] = Entry(l, h, m-1)
    BY <2>2, <2>5
  <2>7. w[m] = qnext[Entry(l, h, m-1)]
    BY <1>3, <1>4, <2>5, <2>6 DEF Step
  <2>8. qnext[Entry(l, h, m-1)] = Entry(l, h, m)
    <3> HIDE DEF m
    <3>1. QED  BY <2>5 DEF Follows
  <2>9. QED  BY <2>3, <2>7, <2>8
<1>6. w[n] \notin Procs /\ \A i \in 1 .. Len(l) : w[i] = l[i] /\ l[i] \in Procs
  <2>1. w[n] = TailOf(h)
    BY <1>1, <1>5 DEF Entry
  <2>2. \A i \in 1 .. Len(l) : w[i] = l[i]
    BY <1>1, <1>5 DEF Entry
  <2>3. QED  BY <1>1, <2>1, <2>2, HeadFacts
<1> DEFINE T == {i \in 1 .. NProc + 1 : w[i] \notin Procs}
<1>7. Min(T) = n
  <2>1. n \in T /\ \A y \in T : n <= y
    BY <1>1, <1>2, <1>6
  <2>2. Min(T) \in T /\ \A y \in T : Min(T) <= y
    <3>1. T \subseteq Nat /\ T # {}
      BY <1>1, <2>1
    <3> HIDE DEF T
    <3>2. QED  BY <3>1, MinNat
  <2>3. Min(T) \in Nat
    BY <1>1, <2>2
  <2> HIDE DEF T, n
  <2>4. QED  BY <1>1, <2>1, <2>2, <2>3
<1>8. ListAt(h) = [i \in 1 .. Min(T) - 1 |-> w[i]]
  BY DEF ListAt, w
<1>9. ListAt(h) = [i \in 1 .. Len(l) |-> l[i]]
  <2>1. Min(T) - 1 = Len(l)
    BY <1>1, <1>7
  <2> HIDE DEF T, n
  <2>2. QED  BY <1>6, <1>8, <2>1
<1>10. l = [i \in 1 .. Len(l) |-> l[i]]
  OBVIOUS
<1>11. QED  BY <1>9, <1>10


\* What ListAt finds: processes of that list, each once, and the links lead through them
\* and back.
LEMMA ListFacts ==
  ASSUME TypeOK, LinksInverse, NEW h \in Lists
  PROVE  LET l == ListAt(h) IN
         /\ l \in Seq(Procs) /\ IsInjective(l) /\ Follows(l, h) /\ Len(l) <= NProc
         /\ \A i \in 1 .. Len(l) : home[l[i]] = h
         /\ \A i \in 0 .. Len(l) + 1 : Walk(h)[i] = Entry(l, h, i)
         /\ \A i \in 1 .. Len(l) + 1 : /\ Entry(l, h, i) \in Behind /\ ListOf(Entry(l, h, i)) = h
                                       /\ qprev[Entry(l, h, i)] = Entry(l, h, i - 1)
<1> DEFINE w == Walk(h)
           T == {i \in 1 .. NProc + 1 : w[i] \notin Procs}
<1>1. PICK e \in 1 .. NProc + 1 :
        /\ w[e] = TailOf(h) /\ \A i \in 1 .. e - 1 : w[i] \in Listed
        /\ \A i \in 1 .. e : w[i] \in Behind /\ ListOf(w[i]) = h /\ qprev[w[i]] = w[i-1]
  BY WalkPlaces
<1>2. NProc \in Nat /\ e \in Nat /\ e >= 1 /\ e <= NProc + 1 /\ h \in Heads
  BY ProcsAssumption DEF Lists
<1>3. w[0] = h /\ \A i \in 1 .. NProc + 1 : w[i] = Step(w[i-1])
  BY WalkSteps
<1>4. ListAt(h) = [i \in 1 .. Min(T) - 1 |-> w[i]]
  BY DEF ListAt
<1> HIDE DEF w
<1>5. \A i \in 1 .. e - 1 : w[i] \in Procs /\ w[i] \in Entries /\ home[w[i]] = h
  <2>1. ASSUME NEW i \in 1 .. e - 1 PROVE w[i] \in Procs /\ w[i] \in Entries /\ home[w[i]] = h
    <3>1. w[i] \in Procs /\ ListOf(w[i]) = h
      BY <1>1, <1>2 DEF Listed
    <3>2. QED  BY <3>1, ProcFacts
  <2>2. QED  BY <2>1
<1>6. Min(T) = e
  <2>1. e \in T
    BY <1>1, <1>2, HeadFacts
  <2>2. \A y \in T : e <= y
    BY <1>2, <1>5
  <2>3. Min(T) \in T /\ \A y \in T : Min(T) <= y
    <3>1. T \subseteq Nat /\ T # {}
      BY <1>2, <2>1
    <3> HIDE DEF T
    <3>2. QED  BY <3>1, MinNat
  <2>4. Min(T) \in Nat
    BY <1>2, <2>3
  <2> HIDE DEF T
  <2>5. QED  BY <1>2, <2>1, <2>2, <2>3, <2>4
<1> DEFINE l == ListAt(h)
<1>7. l = [i \in 1 .. e - 1 |-> w[i]]
  BY <1>4, <1>6
<1> HIDE DEF l, T
<1>8. l \in Seq(Procs) /\ Len(l) = e - 1 /\ \A i \in 1 .. Len(l) : l[i] = w[i]
  <2>1. e - 1 \in Nat
    BY <1>2
  <2>2. l \in [1 .. e - 1 -> Procs]
    BY <1>5, <1>7
  <2>3. l \in Seq(Procs) /\ Len(l) = e - 1
    BY <2>1, <2>2
  <2>4. QED  BY <1>7, <2>3
<1>9. \A i \in 0 .. e : w[i] = Entry(l, h, i)
  <2>1. ASSUME NEW i \in 0 .. e PROVE w[i] = Entry(l, h, i)
    <3>1. CASE i = 0
      BY <1>3, <3>1 DEF Entry
    <3>2. CASE i = e
      BY <1>1, <1>2, <1>8, <3>2 DEF Entry
    <3>3. CASE i # 0 /\ i # e
      BY <1>2, <1>8, <3>3 DEF Entry
    <3>4. QED  BY <3>1, <3>2, <3>3
  <2>2. QED  BY <2>1
<1>10. Follows(l, h)
  <2>1. SUFFICES ASSUME NEW i \in 0 .. Len(l) PROVE qnext[Entry(l, h, i)] = Entry(l, h, i + 1)
    BY DEF Follows
  <2>2. /\ i \in 0 .. e /\ i + 1 \in 0 .. e /\ i + 1 \in 1 .. NProc + 1 /\ (i + 1) - 1 = i
        /\ i # 0 => i \in 1 .. e - 1
    BY <1>2, <1>8
  <2>3. w[i] \in Entries
    BY <1>2, <1>3, <1>5, <2>2, HeadFacts
  <2>4. w[i+1] = qnext[w[i]]
    BY <1>3, <2>2, <2>3 DEF Step
  <2>5. QED  BY <1>9, <2>2, <2>4
<1>11. IsInjective(l)
  <2>1. SUFFICES ASSUME ~IsInjective(l) PROVE FALSE
    OBVIOUS
  <2> DEFINE D == {i \in 1 .. Len(l) : \E j \in 1 .. Len(l) : i < j /\ w[i] = w[j]}
             m == Min(D)
  <2>2. D # {}
    <3>1. PICK i, j \in 1 .. Len(l) : l[i] = l[j] /\ i # j
      BY <1>8, <2>1, DistinctEntries
    <3>2. w[i] = w[j] /\ (i < j \/ j < i)
      BY <1>8, <3>1
    <3>3. QED  BY <3>1, <3>2
  <2>3. m \in D /\ \A y \in D : m <= y
    <3>1. D \subseteq Nat
      BY <1>2, <1>8
    <3> HIDE DEF D
    <3>2. QED  BY <2>2, <3>1, MinNat
  <2>4. m \in 1 .. e - 1
    BY <1>8, <2>3
  <2>5. PICK j \in 1 .. e - 1 : m < j /\ w[m] = w[j]
    BY <1>8, <2>3
  <2> HIDE DEF m
  <2>6. w[m-1] = w[j-1]
    BY <1>1, <1>2, <2>4, <2>5
  <2>7. j - 1 \in 1 .. e - 1
    BY <1>2, <2>4, <2>5
  <2>8. CASE m = 1
    BY <1>2, <1>3, <1>5, <2>6, <2>7, <2>8, HeadFacts
  <2>9. CASE m # 1
    <3>1. m - 1 \in 1 .. e - 1 /\ m - 1 < j - 1 /\ ~(m <= m - 1)
      BY <1>2, <2>4, <2>5, <2>9
    <3>2. m - 1 \in D
      BY <1>8, <2>6, <2>7, <3>1
    <3>3. QED  BY <2>3, <3>1, <3>2
  <2>10. QED  BY <2>8, <2>9
<1>12. \A i \in 1 .. Len(l) : home[l[i]] = h
  BY <1>5, <1>8
<1>13. Len(l) <= NProc /\ Len(l) + 1 = e
  BY <1>2, <1>8
<1>14. \A i \in 1 .. e : i \in 0 .. e /\ i - 1 \in 0 .. e
  BY <1>2
<1>15. \A i \in 1 .. e : /\ Entry(l, h, i) \in Behind /\ ListOf(Entry(l, h, i)) = h
                         /\ qprev[Entry(l, h, i)] = Entry(l, h, i - 1)
  BY <1>1, <1>9, <1>14
<1>16. QED  BY <1>8, <1>9, <1>10, <1>11, <1>12, <1>13, <1>15 DEF w, l

\* Every process on a list is one the links from its head lead to: no ring of links stands
\* beside the lists, which LinksInverse would allow.
Reached == \A p \in Procs, h \in Heads : home[p] = h => p \in ToSet(ListAt(h))
QueueInv == IInv /\ Reached

\* The entries of a list are distinct.
LEMMA EntriesDistinct ==
  ASSUME NEW h \in Heads, NEW l \in Seq(Procs), IsInjective(l)
  PROVE  /\ \A i \in 0 .. Len(l) + 1 : Entry(l, h, i) \in Entries
         /\ \A i, j \in 0 .. Len(l) + 1 : Entry(l, h, i) = Entry(l, h, j) => i = j
         /\ \A p \in Procs, i \in 0 .. Len(l) + 1 : p \notin ToSet(l) => Entry(l, h, i) # p
         /\ Entry(l, h, 0) = h /\ Entry(l, h, Len(l) + 1) = TailOf(h)
         /\ \A i \in 1 .. Len(l) : Entry(l, h, i) = l[i] /\ l[i] \in Procs
<1>1. /\ h \in Entries /\ TailOf(h) \in Entries /\ h # TailOf(h)
      /\ h \notin Procs /\ TailOf(h) \notin Procs
  BY HeadFacts
<1>2. /\ \A i \in 1 .. Len(l) : l[i] \in Procs /\ l[i] \in Entries /\ l[i] \in ToSet(l)
      /\ \A i, j \in 1 .. Len(l) : l[i] = l[j] => i = j
  BY ProcFacts, SetOfList, DistinctEntries
<1>3. /\ Entry(l, h, 0) = h /\ Entry(l, h, Len(l) + 1) = TailOf(h)
      /\ \A i \in 1 .. Len(l) : Entry(l, h, i) = l[i]
  BY DEF Entry
<1>4. \A i \in 0 .. Len(l) + 1 : i = 0 \/ i = Len(l) + 1 \/ i \in 1 .. Len(l)
  OBVIOUS
<1>5. QED  BY <1>1, <1>2, <1>3, <1>4

\* A list whose links a step leaves alone stays.
LEMMA ListKept ==
  ASSUME TypeOK, LinksInverse, TypeOK', NEW h \in Lists, h \in Lists',
         \A i \in 0 .. Len(ListAt(h)) :
           qnext'[Entry(ListAt(h), h, i)] = qnext[Entry(ListAt(h), h, i)]
  PROVE  ListAt(h)' = ListAt(h)
<1> DEFINE l == ListAt(h)
<1>1. l \in Seq(Procs) /\ IsInjective(l) /\ Follows(l, h)
  BY ListFacts
<1>2. FollowedIsList'
  BY FollowedOnce, PTL
<1>3. h \in Lists'
  OBVIOUS
<1>4. \A i \in 0 .. Len(l) : qnext'[Entry(l, h, i)] = Entry(l, h, i + 1)
  BY <1>1 DEF Follows
<1>5. \A g \in Lists', m \in Seq(Procs) :
        IsInjective(m) /\ (\A i \in 0 .. Len(m) : qnext'[Entry(m, g, i)] = Entry(m, g, i + 1))
          => ListAt(g)' = m
  BY <1>2 DEF FollowedIsList, Follows
<1> HIDE DEF l
<1>6. ListAt(h)' = l
  BY <1>1, <1>3, <1>4, <1>5
<1>7. QED  BY <1>6 DEF l

\* A process put between two neighbours of a list is on that list there, and the other
\* lists stay.
LEMMA PlaceLists ==
  ASSUME QueueInv, IInv', NEW p \in Procs, home[p] = EMPTY, NEW h \in Lists,
         NEW k \in 1 .. Len(ListAt(h)) + 1,
         LinkIn(p, Entry(ListAt(h), h, k - 1), Entry(ListAt(h), h, k)),
         home' = [home EXCEPT ![p] = h], nextqueue' = nextqueue
  PROVE  /\ \A g \in Heads : ListAt(g)' = IF g = h THEN InsertAt(ListAt(h), k, p) ELSE ListAt(g)
         /\ Reached'
<1> DEFINE l == ListAt(h)
           prev == Entry(l, h, k - 1)
           next == Entry(l, h, k)
           r == InsertAt(l, k, p)
<1>1. TypeOK /\ LinksInverse /\ TypeOK' /\ Reached /\ HomesGiven
  BY DEF QueueInv, IInv
<1>2. /\ l \in Seq(Procs) /\ IsInjective(l) /\ Follows(l, h)
      /\ \A i \in 1 .. Len(l) : home[l[i]] = h
      /\ \A i \in 1 .. Len(l) + 1 : /\ Entry(l, h, i) \in Behind /\ ListOf(Entry(l, h, i)) = h
                                    /\ qprev[Entry(l, h, i)] = Entry(l, h, i - 1)
  BY <1>1, ListFacts
<1>3. h \in Heads /\ h # EMPTY /\ p \in Entries /\ Lists' = Lists
  BY HeadFacts, ProcFacts DEF Lists
<1>4. LinkIn(p, prev, next) /\ k \in 1 .. Len(l) + 1
  OBVIOUS
<1> HIDE DEF l, prev, next, r
<1>5. p \notin ToSet(l)
  BY <1>2, <1>3, SetOfList
<1>6. /\ \A i \in 0 .. Len(l) + 1 : Entry(l, h, i) \in Entries /\ Entry(l, h, i) # p
      /\ \A i, j \in 0 .. Len(l) + 1 : Entry(l, h, i) = Entry(l, h, j) => i = j
  BY <1>2, <1>3, <1>5, EntriesDistinct
<1>7. /\ k \in 0 .. Len(l) + 1 /\ k - 1 \in 0 .. Len(l) + 1 /\ k \in Nat /\ Len(l) \in Nat
      /\ prev \in Entries /\ prev # p
  <2>1. k \in 0 .. Len(l) + 1 /\ k - 1 \in 0 .. Len(l) + 1 /\ k \in Nat /\ Len(l) \in Nat
    BY <1>2, <1>4
  <2>2. QED  BY <1>6, <2>1 DEF prev
<1>8. \A i \in Entries : qnext'[i] = IF i = prev THEN p ELSE IF i = p THEN next ELSE qnext[i]
  BY <1>1, <1>3, <1>4, <1>7 DEF TypeOK, LinkIn
<1>9. /\ r \in Seq(Procs) /\ IsInjective(r) /\ ToSet(r) = ToSet(l) \cup {p} /\ Len(r) = Len(l) + 1
      /\ \A i \in 1 .. k - 1 : r[i] = l[i]
      /\ r[k] = p
      /\ \A i \in k + 1 .. Len(l) + 1 : r[i] = l[i - 1]
  BY <1>2, <1>4, <1>5, InsertAtDistinct, InsertAtList DEF r
<1>10. \A i \in 0 .. Len(l) + 2 :
         Entry(r, h, i) = IF i < k THEN Entry(l, h, i) ELSE IF i = k THEN p ELSE Entry(l, h, i - 1)
  <2>1. ASSUME NEW i \in 0 .. Len(l) + 2
        PROVE  Entry(r, h, i) = IF i < k THEN Entry(l, h, i) ELSE IF i = k THEN p ELSE Entry(l, h, i - 1)
    <3>1. CASE i < k
      BY <1>4, <1>7, <1>9, <3>1 DEF Entry
    <3>2. CASE i = k
      BY <1>4, <1>7, <1>9, <3>2 DEF Entry
    <3>3. CASE i > k
      <4>1. /\ i \in Int /\ i # 0 /\ i - 1 # 0 /\ ~(i < k) /\ i # k
            /\ i - 1 <= Len(l) <=> i <= Len(r)
            /\ i <= Len(r) => i \in k + 1 .. Len(l) + 1
        BY <1>4, <1>7, <1>9, <3>3
      <4>2. QED  BY <1>9, <4>1 DEF Entry
    <3>4. QED  BY <1>7, <3>1, <3>2, <3>3
  <2>2. QED  BY <2>1
<1>11. \A i \in 0 .. Len(r) : qnext'[Entry(r, h, i)] = Entry(r, h, i + 1)
  <2>1. SUFFICES ASSUME NEW i \in 0 .. Len(l) + 1 PROVE qnext'[Entry(r, h, i)] = Entry(r, h, i + 1)
    BY <1>9
  <2>2. i \in 0 .. Len(l) + 2 /\ i + 1 \in 0 .. Len(l) + 2 /\ i \in Nat /\ (i + 1) - 1 = i
    BY <1>7
  <2>3. CASE i < k - 1
    <3>1. i \in 0 .. Len(l) /\ i < k /\ i + 1 < k /\ i # k - 1
      BY <1>4, <1>7, <2>2, <2>3
    <3>2. Entry(l, h, i) # prev /\ Entry(l, h, i) # p /\ Entry(l, h, i) \in Entries
      BY <1>6, <1>7, <3>1 DEF prev
    <3>3. qnext'[Entry(l, h, i)] = Entry(l, h, i + 1)
      BY <1>2, <1>8, <3>1, <3>2 DEF Follows
    <3>4. QED  BY <1>10, <2>2, <3>1, <3>3
  <2>4. CASE i = k - 1
    <3>1. i < k /\ i + 1 = k /\ ~(k < k)
      BY <1>7, <2>4
    <3>2. Entry(r, h, i) = prev /\ Entry(r, h, i + 1) = p
      BY <1>10, <2>2, <2>4, <3>1 DEF prev
    <3>3. QED  BY <1>7, <1>8, <3>2
  <2>5. CASE i = k
    <3>1. ~(i < k) /\ ~(i + 1 < k) /\ i + 1 # k
      BY <1>7, <2>5
    <3>2. Entry(r, h, i) = p /\ Entry(r, h, i + 1) = next
      BY <1>10, <2>2, <2>5, <3>1 DEF next
    <3>3. QED  BY <1>3, <1>7, <1>8, <3>2
  <2>6. CASE i > k
    <3>1. /\ i - 1 \in 0 .. Len(l) /\ i - 1 # k - 1 /\ ~(i < k) /\ i # k /\ ~(i + 1 < k) /\ i + 1 # k
          /\ (i - 1) + 1 = i
      BY <1>4, <1>7, <2>2, <2>6
    <3>2. i - 1 \in 0 .. Len(l) + 1
      BY <1>7, <3>1
    <3>3. Entry(l, h, i - 1) # prev /\ Entry(l, h, i - 1) # p /\ Entry(l, h, i - 1) \in Entries
      BY <1>6, <1>7, <3>1, <3>2 DEF prev
    <3>4. qnext'[Entry(l, h, i - 1)] = Entry(l, h, i)
      <4>1. qnext[Entry(l, h, i - 1)] = Entry(l, h, (i - 1) + 1)
        BY <1>2, <3>1 DEF Follows
      <4>2. QED  BY <1>8, <3>1, <3>3, <4>1
    <3>5. Entry(r, h, i) = Entry(l, h, i - 1) /\ Entry(r, h, i + 1) = Entry(l, h, i)
      BY <1>10, <2>2, <3>1
    <3>6. QED  BY <3>4, <3>5
  <2>7. QED  BY <1>7, <2>2, <2>3, <2>4, <2>5, <2>6
<1>12. ListAt(h)' = r
  <2>1. FollowedIsList'
    BY FollowedOnce, PTL
  <2>2. \A g \in Lists', m \in Seq(Procs) :
          IsInjective(m) /\ (\A i \in 0 .. Len(m) : qnext'[Entry(m, g, i)] = Entry(m, g, i + 1))
            => ListAt(g)' = m
    BY <1>1, <2>1 DEF FollowedIsList, Follows
  <2>3. QED  BY <1>3, <1>9, <1>11, <2>2
<1>13. ASSUME NEW g \in Lists, g # h PROVE ListAt(g)' = ListAt(g)
  <2> DEFINE m == ListAt(g)
  <2>1. g \in Heads
    BY DEF Lists
  <2>2. /\ m \in Seq(Procs) /\ IsInjective(m)
        /\ \A i \in 1 .. Len(m) : home[m[i]] = g
        /\ \A i \in 1 .. Len(m) + 1 : ListOf(Entry(m, g, i)) = g
    BY <1>1, ListFacts
  <2>3. g # EMPTY /\ ListOf(g) = g
    BY <2>1, HeadFacts
  <2> HIDE DEF m
  <2>4. p \notin ToSet(m)
    BY <2>2, <2>3, SetOfList
  <2>5. /\ \A i \in 0 .. Len(m) + 1 : Entry(m, g, i) \in Entries /\ Entry(m, g, i) # p
        /\ Entry(m, g, 0) = g
    BY <2>1, <2>2, <2>4, EntriesDistinct
  <2>6. ListOf(prev) = h
    <3>1. CASE k = 1
      <4>1. prev = h
        BY <3>1 DEF prev, Entry
      <4>2. QED  BY <1>3, <4>1, HeadFacts
    <3>2. CASE k # 1
      <4>1. k - 1 \in 1 .. Len(l) + 1
        BY <1>4, <1>7, <3>2
      <4>2. QED  BY <1>2, <4>1 DEF prev
    <3>3. QED  BY <3>1, <3>2
  <2>7. ASSUME NEW i \in 0 .. Len(m) PROVE qnext'[Entry(m, g, i)] = qnext[Entry(m, g, i)]
    <3>1. /\ i \in 0 .. Len(m) + 1
          /\ i # 0 => i \in 1 .. Len(m) + 1
      BY <2>2
    <3>2. ListOf(Entry(m, g, i)) = g
      BY <2>2, <2>3, <2>5, <3>1
    <3>3. QED  BY <1>8, <1>13, <2>5, <2>6, <3>1, <3>2
  <2>8. QED  BY <1>1, <1>3, <2>7, ListKept DEF m
<1>14. ASSUME NEW g \in Heads, g \notin Lists PROVE ListAt(g)' = ListAt(g)
  BY <1>3, <1>14 DEF ListAt
<1>15. \A g \in Heads : ListAt(g)' = IF g = h THEN r ELSE ListAt(g)
  BY <1>12, <1>13, <1>14
<1>16. Reached'
  <2>1. SUFFICES ASSUME NEW q \in Procs, NEW g \in Heads, home'[q] = g PROVE q \in ToSet(ListAt(g)')
    BY DEF Reached
  <2>2. home'[q] = IF q = p THEN h ELSE home[q]
    BY <1>1 DEF TypeOK
  <2>3. CASE q = p
    BY <1>9, <1>12, <2>1, <2>2, <2>3
  <2>4. CASE q # p
    <3>1. q \in ToSet(ListAt(g))
      BY <1>1, <2>1, <2>2, <2>4 DEF Reached
    <3>2. QED  BY <1>9, <1>15, <3>1 DEF l
  <2>5. QED  BY <2>3, <2>4
<1>17. QED  BY <1>15, <1>16 DEF r, l

\* Where a process stands on its list: Delete takes it out there, and leaves other lists alone.
LEMMA DeleteThere ==
  ASSUME NEW l \in Seq(Procs), IsInjective(l), NEW k \in 1 .. Len(l)
  PROVE  Delete(l, l[k]) = RemoveAt(l, k)
<1>1. \A i \in 1 .. Len(l) : l[i] = l[k] <=> i = k
  BY DistinctEntries
<1> DEFINE c == CHOOSE i \in 1 .. Len(l) : l[i] = l[k]
<1>2. c = k
  BY <1>1
<1>3. Delete(l, l[k]) = RemoveAt(l, c)
  BY DEF Delete
<1>4. QED  BY <1>2, <1>3

LEMMA DeleteElsewhere ==
  ASSUME NEW l \in Seq(Procs), NEW p, p \notin ToSet(l)
  PROVE  Delete(l, p) = l
BY SetOfList DEF Delete

\* A process taken off its list is off it, and the others stay where they are.
LEMMA TakeLists ==
  ASSUME QueueInv, IInv', NEW p \in Procs, home[p] # EMPTY, Unlink(p),
         home' = [home EXCEPT ![p] = EMPTY], nextqueue' = nextqueue
  PROVE  /\ \A g \in Heads : ListAt(g)' = Delete(ListAt(g), p)
         /\ Reached'
<1>1. TypeOK /\ LinksInverse /\ TypeOK' /\ Reached /\ HomesGiven
  BY DEF QueueInv, IInv
<1>2. PICK h \in Lists : h = home[p] /\ h \in Heads /\ h # EMPTY /\ Lists' = Lists
  BY <1>1 DEF HomesGiven, Lists
<1> DEFINE l == ListAt(h)
<1>3. /\ l \in Seq(Procs) /\ IsInjective(l) /\ Follows(l, h)
      /\ \A i \in 1 .. Len(l) + 1 : /\ ListOf(Entry(l, h, i)) = h
                                    /\ qprev[Entry(l, h, i)] = Entry(l, h, i - 1)
  BY <1>1, <1>2, ListFacts
<1>4. p \in ToSet(l)
  BY <1>1, <1>2 DEF Reached
<1> HIDE DEF l
<1>5. PICK k \in 1 .. Len(l) : l[k] = p
  BY <1>3, <1>4, SetOfList
<1>6. /\ \A i \in 0 .. Len(l) + 1 : Entry(l, h, i) \in Entries
      /\ \A i, j \in 0 .. Len(l) + 1 : Entry(l, h, i) = Entry(l, h, j) => i = j
  BY <1>2, <1>3, EntriesDistinct
<1>7. /\ k \in 0 .. Len(l) + 1 /\ k - 1 \in 0 .. Len(l) + 1 /\ k + 1 \in 0 .. Len(l) + 1
      /\ k \in 1 .. Len(l) + 1 /\ k \in 0 .. Len(l) /\ k \in Nat /\ Len(l) \in Nat
      /\ k >= 1 /\ k <= Len(l)
  BY <1>3, <1>5
<1>8. /\ p = Entry(l, h, k) /\ qprev[p] = Entry(l, h, k - 1) /\ qnext[p] = Entry(l, h, k + 1)
      /\ qprev[p] \in Entries
  <2>1. p = Entry(l, h, k)
    BY <1>5, <1>7 DEF Entry
  <2>2. qprev[Entry(l, h, k)] = Entry(l, h, k - 1) /\ qnext[Entry(l, h, k)] = Entry(l, h, k + 1)
    BY <1>3, <1>7 DEF Follows
  <2>3. Entry(l, h, k - 1) \in Entries
    BY <1>6, <1>7
  <2>4. QED  BY <2>1, <2>2, <2>3
<1>9. \A i \in Entries : qnext'[i] = IF i = qprev[p] THEN qnext[p] ELSE qnext[i]
  BY <1>1, <1>8 DEF TypeOK, Unlink
<1> DEFINE r == RemoveAt(l, k)
<1>10. /\ r \in Seq(Procs) /\ IsInjective(r) /\ ToSet(r) = ToSet(l) \ {p} /\ Len(r) = Len(l) - 1
       /\ \A i \in 1 .. k - 1 : r[i] = l[i]
       /\ \A i \in k .. Len(l) - 1 : r[i] = l[i + 1]
  <2>1. l \in Seq(Procs) /\ IsInjective(l)
    BY <1>3
  <2>2. r \in Seq(Procs) /\ IsInjective(r) /\ ToSet(r) = ToSet(l) \ {l[k]} /\ Len(r) = Len(l) - 1
    BY ONLY <2>1, k \in 1 .. Len(l), RemoveAtDistinct
  <2>3. (\A i \in 1 .. k - 1 : r[i] = l[i]) /\ (\A i \in k .. Len(l) - 1 : r[i] = l[i + 1])
    BY ONLY <2>1, k \in 1 .. Len(l), RemoveAtList
  <2> HIDE DEF r
  <2>4. QED  BY ONLY <1>5, <2>2, <2>3
<1> HIDE DEF r
<1>11. \A i \in 0 .. Len(l) : Entry(r, h, i) = IF i < k THEN Entry(l, h, i) ELSE Entry(l, h, i + 1)
  <2>1. ASSUME NEW i \in 0 .. Len(l)
        PROVE  Entry(r, h, i) = IF i < k THEN Entry(l, h, i) ELSE Entry(l, h, i + 1)
    <3>1. CASE i < k
      <4>1. /\ i \in Int /\ i <= Len(l) /\ i <= Len(r)
            /\ i # 0 => i \in 1 .. k - 1
        BY <1>7, <1>10, <3>1
      <4>2. QED  BY <1>10, <3>1, <4>1 DEF Entry
    <3>2. CASE ~(i < k)
      <4>1. /\ i \in Int /\ i # 0 /\ i + 1 # 0
            /\ i + 1 <= Len(l) <=> i <= Len(r)
            /\ i <= Len(r) => i \in k .. Len(l) - 1
        BY <1>7, <1>10, <3>2
      <4>2. QED  BY <1>10, <3>2, <4>1 DEF Entry
    <3>3. QED  BY <3>1, <3>2
  <2>2. QED  BY <2>1
<1>12. \A i \in 0 .. Len(r) : qnext'[Entry(r, h, i)] = Entry(r, h, i + 1)
  <2>1. SUFFICES ASSUME NEW i \in 0 .. Len(l) - 1 PROVE qnext'[Entry(r, h, i)] = Entry(r, h, i + 1)
    BY <1>10
  <2>2. /\ i \in 0 .. Len(l) /\ i + 1 \in 0 .. Len(l) /\ i \in 0 .. Len(l) + 1
        /\ i + 1 \in 0 .. Len(l) + 1 /\ i \in Nat
    BY <1>7
  <2>3. CASE i < k - 1
    <3>1. i < k /\ i + 1 < k /\ i # k - 1
      BY <1>7, <2>2, <2>3
    <3>2. Entry(l, h, i) # qprev[p] /\ Entry(l, h, i) \in Entries
      BY <1>6, <1>7, <1>8, <2>2, <3>1
    <3>3. qnext[Entry(l, h, i)] = Entry(l, h, i + 1)
      BY <1>3, <2>2 DEF Follows
    <3>4. QED  BY <1>9, <1>11, <2>2, <3>1, <3>2, <3>3
  <2>4. CASE i = k - 1
    <3>1. i < k /\ ~(i + 1 < k) /\ (i + 1) + 1 = k + 1
      BY <1>7, <2>4
    <3>2. Entry(r, h, i) = Entry(l, h, k - 1) /\ Entry(r, h, i + 1) = Entry(l, h, k + 1)
      BY <1>11, <2>2, <2>4, <3>1
    <3>3. QED  BY <1>8, <1>9, <3>2
  <2>5. CASE i > k - 1
    <3>1. ~(i < k) /\ ~(i + 1 < k) /\ i + 1 # k - 1
      BY <1>7, <2>2, <2>5
    <3>2. Entry(l, h, i + 1) # qprev[p] /\ Entry(l, h, i + 1) \in Entries
      BY <1>6, <1>7, <1>8, <2>2, <3>1
    <3>3. qnext[Entry(l, h, i + 1)] = Entry(l, h, (i + 1) + 1)
      BY <1>3, <2>2 DEF Follows
    <3>4. QED  BY <1>9, <1>11, <2>2, <3>1, <3>2, <3>3
  <2>6. QED  BY <1>7, <2>2, <2>3, <2>4, <2>5
<1>13. ListAt(h)' = r
  <2>1. FollowedIsList'
    BY FollowedOnce, PTL
  <2>2. \A g \in Lists', m \in Seq(Procs) :
          IsInjective(m) /\ (\A i \in 0 .. Len(m) : qnext'[Entry(m, g, i)] = Entry(m, g, i + 1))
            => ListAt(g)' = m
    BY <1>1, <2>1 DEF FollowedIsList, Follows
  <2>3. \A g \in Lists : (\A i \in 0 .. Len(r) : qnext'[Entry(r, g, i)] = Entry(r, g, i + 1))
                           => ListAt(g)' = r
    BY <1>2, <1>10, <2>2
  <2>4. QED  BY <1>2, <1>12, <2>3
<1>14. ASSUME NEW g \in Lists, g # h PROVE ListAt(g)' = ListAt(g) /\ p \notin ToSet(ListAt(g))
  <2> DEFINE m == ListAt(g)
  <2>1. g \in Heads
    BY DEF Lists
  <2>2. /\ m \in Seq(Procs) /\ IsInjective(m)
        /\ \A i \in 1 .. Len(m) : home[m[i]] = g
        /\ \A i \in 1 .. Len(m) + 1 : ListOf(Entry(m, g, i)) = g
    BY <1>1, ListFacts
  <2>3. ListOf(g) = g
    BY <2>1, HeadFacts
  <2> HIDE DEF m
  <2>4. p \notin ToSet(m)
    BY <1>2, <1>14, <2>2, SetOfList
  <2>5. /\ \A i \in 0 .. Len(m) + 1 : Entry(m, g, i) \in Entries
        /\ Entry(m, g, 0) = g
    BY <2>1, <2>2, EntriesDistinct
  <2>6. ListOf(qprev[p]) = h
    <3>1. CASE k = 1
      <4>1. qprev[p] = h
        BY <1>8, <3>1 DEF Entry
      <4>2. QED  BY <1>2, <4>1, HeadFacts
    <3>2. CASE k # 1
      <4>1. k - 1 \in 1 .. Len(l) + 1
        BY <1>7, <3>2
      <4>2. QED  BY <1>3, <1>8, <4>1
    <3>3. QED  BY <3>1, <3>2
  <2>7. ASSUME NEW i \in 0 .. Len(m) PROVE qnext'[Entry(m, g, i)] = qnext[Entry(m, g, i)]
    <3>1. /\ i \in 0 .. Len(m) + 1
          /\ i # 0 => i \in 1 .. Len(m) + 1
      BY <2>2
    <3>2. ListOf(Entry(m, g, i)) = g
      BY <2>2, <2>3, <2>5, <3>1
    <3>3. QED  BY <1>9, <1>14, <2>5, <2>6, <3>1, <3>2
  <2>8. QED  BY <1>1, <1>2, <2>4, <2>7, ListKept DEF m
<1>15. ASSUME NEW g \in Heads, g \notin Lists PROVE ListAt(g)' = ListAt(g) /\ ListAt(g) = <<>>
  BY <1>2, <1>15 DEF ListAt
<1>16. ASSUME NEW g \in Heads PROVE ListAt(g)' = Delete(ListAt(g), p)
  <2>1. CASE g = h
    <3>1. Delete(l, p) = r
      BY <1>3, <1>5, DeleteThere DEF r
    <3>2. QED  BY <1>13, <2>1, <3>1 DEF l
  <2>2. CASE g # h /\ g \in Lists
    <3>1. ListAt(g) \in Seq(Procs)
      BY <1>1, <2>2, ListFacts
    <3>2. QED  BY <1>14, <2>2, <3>1, DeleteElsewhere
  <2>3. CASE g \notin Lists
    <3>1. Delete(<<>>, p) = <<>>
      BY DEF Delete
    <3>2. QED  BY <1>15, <2>3, <3>1
  <2>4. QED  BY <2>1, <2>2, <2>3
<1>17. Reached'
  <2>1. SUFFICES ASSUME NEW q \in Procs, NEW g \in Heads, home'[q] = g PROVE q \in ToSet(ListAt(g)')
    BY DEF Reached
  <2>2. q # p /\ home[q] = g
    BY <1>1, <2>1, HeadFacts DEF TypeOK
  <2>3. q \in ToSet(ListAt(g)) /\ g \in Lists
    BY <1>1, <2>1, <2>2, HeadFacts DEF Reached, HomesGiven
  <2>4. QED  BY <1>10, <1>13, <1>14, <2>2, <2>3 DEF l
<1>18. QED  BY <1>16, <1>17

------------------------------------------------------------------------------
(* Where insert and insertd put a process.                                  *)

Keyed == [p \in Procs |-> qkey[p]]      \* the keys, as AbsQueue has them

\* insert's search stops where the first key that is no less stands, or at the tail.
LEMMA InsertStopsThere ==
  ASSUME TypeOK, LinksInverse, KeysBounded, NEW h \in Lists, NEW x \in 0 .. MAXINT
  PROVE  LET l == ListAt(h)
             k == InsertPos(l, Keyed, x)
         IN  /\ Stops(Walk(h), x) = k /\ k \in 1 .. Len(l) + 1
             /\ Walk(h)[k] = Entry(l, h, k) /\ qprev[Entry(l, h, k)] = Entry(l, h, k - 1)
<1> DEFINE l == ListAt(h)
           w == Walk(h)
           n == Len(l) + 1
           S == {i \in 1 .. NProc + 1 : w[i] \in Entries /\ qkey[w[i]] >= x}
           I == {i \in 1 .. Len(l) : Keyed[l[i]] >= x}
           s == Min(S)
           k == IF I = {} THEN n ELSE Min(I)
<1>1. /\ l \in Seq(Procs) /\ IsInjective(l) /\ Len(l) <= NProc
      /\ \A i \in 0 .. Len(l) + 1 : w[i] = Entry(l, h, i)
      /\ \A i \in 1 .. Len(l) + 1 : qprev[Entry(l, h, i)] = Entry(l, h, i - 1)
  BY ListFacts
<1>2. NProc \in Nat /\ h \in Heads
  BY ProcsAssumption DEF Lists
<1>3. Stops(w, x) = s /\ InsertPos(l, Keyed, x) = k
  BY DEF Stops, InsertPos
<1> HIDE DEF l, w
<1>4. /\ Len(l) \in Nat /\ n \in Nat /\ n \in 1 .. NProc + 1
      /\ \A i \in 1 .. Len(l) : /\ i \in 1 .. NProc + 1 /\ i \in 0 .. Len(l) + 1 /\ i # n /\ i <= n
      /\ n \in 0 .. Len(l) + 1
  BY <1>1, <1>2
<1>5. /\ \A i \in 1 .. Len(l) : w[i] = l[i] /\ l[i] \in Procs
      /\ w[n] = TailOf(h)
  BY <1>1, <1>2, <1>4, EntriesDistinct
<1>6. n \in S
  <2>1. qkey[w[n]] = MAXINT /\ w[n] \in Entries /\ MAXINT >= x
    <3>1. qkey[TailOf(h)] = MAXINT
      BY DEF KeysBounded
    <3>2. TailOf(h) \in Entries
      BY <1>2, HeadFacts
    <3>3. MAXINT >= x
      BY DEF MAXINT
    <3>4. QED  BY <1>5, <3>1, <3>2, <3>3
  <2>2. QED  BY <1>4, <2>1
<1>7. \A i \in 1 .. Len(l) : i \in S <=> i \in I
  BY <1>4, <1>5, ProcFacts DEF Keyed
<1>8. s \in S /\ \A y \in S : s <= y
  <2>1. S \subseteq Nat
    BY <1>2
  <2> HIDE DEF S
  <2>2. QED  BY <1>6, <2>1, MinNat
<1>9. /\ I # {} => Min(I) \in I /\ \A y \in I : Min(I) <= y
      /\ \A y \in I : y \in 1 .. Len(l)
  <2>1. I \subseteq Nat /\ \A y \in I : y \in 1 .. Len(l)
    BY <1>4
  <2> HIDE DEF I
  <2>2. QED  BY <2>1, MinNat
<1>10. s \in 1 .. NProc + 1
  BY <1>8
<1> HIDE DEF S, I, s
<1>11. s \in 1 .. n
  <2>1. s <= n
    BY <1>6, <1>8
  <2> HIDE DEF n
  <2>2. QED  BY <1>2, <1>4, <1>10, <2>1
<1>12. s = k
  <2>1. CASE I = {}
    <3>1. s \notin 1 .. Len(l)
      BY <1>7, <1>8, <2>1
    <3>2. QED  BY <1>4, <1>11, <2>1, <3>1
  <2>2. CASE I # {}
    <3>1. Min(I) \in S /\ s <= Min(I) /\ Min(I) \in 1 .. Len(l)
      BY <1>7, <1>8, <1>9, <2>2
    <3>2. s \in 1 .. Len(l)
      BY <1>4, <1>11, <3>1
    <3>3. Min(I) <= s
      BY <1>7, <1>8, <1>9, <2>2, <3>2
    <3>4. QED  BY <1>4, <2>2, <3>1, <3>2, <3>3
  <2>3. QED  BY <2>1, <2>2
<1>13. k \in 1 .. Len(l) + 1 /\ k \in 0 .. Len(l) + 1
  BY <1>4, <1>11, <1>12
<1>14. QED  BY <1>1, <1>3, <1>12, <1>13 DEF l, w

\* What is left of insertd's key at each place of the list is what AbsQueue's key is reduced to.
LEMMA SameRemainders ==
  ASSUME TypeOK, LinksInverse, NEW h \in Lists, NEW x \in 0 .. MAXINT
  PROVE  \A i \in 1 .. Len(ListAt(h)) + 1 : Remaining(ListAt(h), Keyed, x)[i] = Left(Walk(h), x)[i]
<1> DEFINE l == ListAt(h)
           w == Walk(h)
           n == Len(l) + 1
           rem == Left(w, x)
           r == Remaining(l, Keyed, x)
           g == [i \in 1 .. Len(l) + 1 |-> rem[i]]
           Is(f) == f = [i \in 1 .. Len(l) + 1 |-> IF i = 1 THEN x ELSE f[i-1] - Keyed[l[i-1]]]
<1>1. /\ l \in Seq(Procs) /\ IsInjective(l) /\ Len(l) <= NProc
      /\ \A i \in 0 .. Len(l) + 1 : w[i] = Entry(l, h, i)
  BY ListFacts
<1>2. NProc \in Nat /\ x \in Int /\ Len(l) \in Nat /\ h \in Heads
  BY <1>1, ProcsAssumption DEF Lists
<1> HIDE DEF l, w
<1>3. /\ rem \in [Searched -> Int] /\ rem[1] = x
      /\ \A i \in 2 .. NProc + 1 : rem[i] = rem[i-1] - Cut(w[i-1])
  BY <1>2, LeftSteps
<1> HIDE DEF rem
<1>4. ASSUME NEW i \in 2 .. n PROVE rem[i] = rem[i-1] - Keyed[l[i-1]]
  <2>1. i \in 2 .. NProc + 1 /\ i - 1 \in 1 .. Len(l) /\ i - 1 \in 0 .. Len(l) + 1
    BY <1>1, <1>2, <1>4
  <2>2. w[i-1] = l[i-1] /\ l[i-1] \in Procs /\ l[i-1] \in Entries
    <3>1. w[i-1] = Entry(l, h, i - 1)
      BY <1>1, <2>1
    <3>2. Entry(l, h, i - 1) = l[i-1] /\ l[i-1] \in Procs
      <4>1. l \in Seq(Procs) /\ IsInjective(l) /\ h \in Heads /\ i - 1 \in 1 .. Len(l)
        BY <1>1, <1>2, <2>1
      <4>2. QED  BY ONLY <4>1, EntriesDistinct
    <3>3. l[i-1] \in Entries
      BY ONLY <3>2, ProcFacts
    <3>4. QED  BY <3>1, <3>2, <3>3
  <2>3. QED  BY <1>3, <2>1, <2>2 DEF Cut, Keyed
<1>5. Is(g)
  <2>1. ASSUME NEW i \in 1 .. Len(l) + 1
        PROVE  rem[i] = IF i = 1 THEN x ELSE g[i-1] - Keyed[l[i-1]]
    <3>1. i # 1 => i \in 2 .. n /\ i - 1 \in 1 .. Len(l) + 1
      BY <1>2, <2>1
    <3>2. QED  BY <1>3, <1>4, <3>1
  <2>2. QED  BY <2>1
<1>6. r = CHOOSE f : Is(f)
  BY DEF Remaining
<1>7. Is(r)
  <2> HIDE DEF Is, r, g
  <2>1. QED  BY <1>5, <1>6
<1> HIDE DEF r, g
<1>8. r = [i \in 1 .. Len(l) + 1 |-> IF i = 1 THEN x ELSE r[i-1] - Keyed[l[i-1]]]
  BY <1>7
<1>9. \A i \in 1 .. n : r[i] = rem[i]
  <2> DEFINE B == {i \in 1 .. n : r[i] # rem[i]}
             m == Min(B)
  <2>1. SUFFICES ASSUME B # {} PROVE FALSE
    OBVIOUS
  <2>2. m \in B /\ \A y \in B : m <= y
    <3>1. B \subseteq Nat
      BY <1>2
    <3> HIDE DEF B
    <3>2. QED  BY <2>1, <3>1, MinNat
  <2>3. m \in 1 .. n /\ r[m] # rem[m]
    BY <2>2
  <2> HIDE DEF m
  <2>4. m # 1
    BY <1>2, <1>3, <1>8, <2>3
  <2>5. m \in 2 .. n /\ m - 1 \in 1 .. n /\ ~(m <= m - 1)
    BY <1>2, <2>3, <2>4
  <2>6. r[m-1] = rem[m-1]
    BY <2>2, <2>5
  <2>7. r[m] = r[m-1] - Keyed[l[m-1]]
    BY <1>8, <2>3, <2>4
  <2>8. QED  BY <1>4, <2>3, <2>5, <2>6, <2>7
<1>10. QED  BY <1>9 DEF l, w, r, rem

\* insertd's search stops where AbsQueue's key is not passed, with the same remainder.
LEMMA InsertdStopsThere ==
  ASSUME TypeOK, LinksInverse, KeysBounded, NEW h \in Lists, NEW x \in 0 .. MAXINT
  PROVE  LET l == ListAt(h)
             w == Walk(h)
             rem == Left(w, x)
             k == DeltaPos(l, Keyed, x)
         IN  /\ DeltaStops(w, rem) = k /\ k \in 1 .. Len(l) + 1
             /\ w[k] = Entry(l, h, k) /\ w[k-1] = Entry(l, h, k - 1)
             /\ Remaining(l, Keyed, x)[k] = rem[k] /\ rem[k] \in 0 .. MAXINT
<1> DEFINE l == ListAt(h)
           w == Walk(h)
           n == Len(l) + 1
           rem == Left(w, x)
           r == Remaining(l, Keyed, x)
           s == DeltaStops(w, rem)
           I == {i \in 1 .. Len(l) : Keyed[l[i]] >= r[i]}
           k == IF I = {} THEN n ELSE Min(I)
<1>1. /\ l \in Seq(Procs) /\ IsInjective(l) /\ Len(l) <= NProc
      /\ \A i \in 0 .. Len(l) + 1 : w[i] = Entry(l, h, i)
  BY ListFacts
<1>2. NProc \in Nat /\ Len(l) \in Nat /\ h \in Heads
  BY <1>1, ProcsAssumption DEF Lists
<1>3. /\ s \in 1 .. NProc + 1 /\ qkey[w[s]] >= rem[s] /\ rem[s] \in 0 .. MAXINT
      /\ \A i \in 1 .. NProc + 1 : w[i] \in Entries /\ qkey[w[i]] >= rem[i] => s <= i
      /\ \E e \in s .. NProc + 1 : w[e] = TailOf(h) /\ \A i \in 1 .. e - 1 : w[i] \in Listed
  BY InsertdStops
<1>4. PICK e \in s .. NProc + 1 : w[e] = TailOf(h) /\ \A i \in 1 .. e - 1 : w[i] \in Listed
  BY <1>3
<1>5. \A i \in 1 .. n : r[i] = rem[i]
  BY SameRemainders
<1>6. DeltaPos(l, Keyed, x) = k
  BY DEF DeltaPos
<1> HIDE DEF l, w, rem, r, s
<1>7. /\ \A i \in 1 .. Len(l) : /\ i \in 1 .. NProc + 1 /\ i \in 0 .. Len(l) + 1 /\ i \in 1 .. n
      /\ n \in 0 .. Len(l) + 1 /\ n \in 1 .. NProc + 1
  BY <1>1, <1>2
<1>8. /\ \A i \in 1 .. Len(l) : w[i] = l[i] /\ l[i] \in Procs
      /\ w[n] = TailOf(h)
  BY <1>1, <1>2, <1>7, EntriesDistinct
<1>9. s \in 1 .. n
  <2>1. w[n] \notin Listed
    BY <1>2, <1>8, HeadFacts DEF Listed
  <2>2. n \notin 1 .. e - 1
    BY <1>4, <2>1
  <2>3. QED  BY <1>2, <1>3, <1>4, <1>7, <2>2
<1>10. ASSUME NEW i \in 1 .. Len(l) PROVE i \in I <=> qkey[w[i]] >= rem[i] /\ w[i] \in Entries
  BY <1>5, <1>7, <1>8, ProcFacts DEF Keyed
<1>11. \A i \in I : i \in 1 .. Len(l)
  OBVIOUS
<1>12. I # {} => Min(I) \in I /\ \A y \in I : Min(I) <= y
  <2>1. I \subseteq Nat
    BY <1>2
  <2> HIDE DEF I
  <2>2. QED  BY <2>1, MinNat
<1> HIDE DEF I
<1>13. s \in 1 .. Len(l) => s \in I
  BY <1>3, <1>8, <1>10, ProcFacts
<1>14. \A i \in I : s <= i
  BY <1>3, <1>7, <1>10, <1>11
<1>15. s = k
  <2>1. CASE I = {}
    <3>1. s \notin 1 .. Len(l)
      BY <1>13, <2>1
    <3>2. QED  BY <1>2, <1>9, <2>1, <3>1
  <2>2. CASE I # {}
    <3>1. s <= Min(I) /\ Min(I) \in 1 .. Len(l)
      BY <1>11, <1>12, <1>14, <2>2
    <3>2. s \in 1 .. Len(l)
      BY <1>2, <1>9, <3>1
    <3>3. Min(I) <= s
      BY <1>12, <1>13, <2>2, <3>2
    <3>4. QED  BY <1>2, <2>2, <3>1, <3>2, <3>3
  <2>3. QED  BY <2>1, <2>2
<1>16. k \in 1 .. n /\ k \in 0 .. Len(l) + 1 /\ k - 1 \in 0 .. Len(l) + 1
  BY <1>2, <1>9, <1>15
<1> HIDE DEF k
<1>17. QED  BY <1>1, <1>3, <1>5, <1>6, <1>15, <1>16 DEF l, w, rem, r, s

------------------------------------------------------------------------------
(* Every step on the links is a step of AbsQueue.                           *)

\* The operators on lists that AbsQueue uses are those of QueueOps.
LEMMA SameOperators ==
  ASSUME NEW l, NEW k, NEW e, NEW key
  PROVE  /\ AbsQ!ToSet(l) = ToSet(l) /\ AbsQ!InsertAt(l, k, e) = InsertAt(l, k, e)
         /\ AbsQ!InsertPos(l, key, e) = InsertPos(l, key, e)
         /\ AbsQ!DeltaPos(l, key, e) = DeltaPos(l, key, e)
         /\ AbsQ!Remaining(l, key, e) = Remaining(l, key, e)
         /\ AbsQ!Delete(l, e) = Delete(l, e) /\ AbsQ!Last(l) = Last(l)
         /\ AbsQ!EMPTY = EMPTY
<1>1. AbsQ!ToSet(l) = ToSet(l) /\ AbsQ!Last(l) = Last(l) /\ AbsQ!EMPTY = EMPTY
  BY DEF AbsQ!ToSet, ToSet, AbsQ!Last, Last, AbsQ!EMPTY, EMPTY
<1>2. AbsQ!InsertAt(l, k, e) = InsertAt(l, k, e)
  BY DEF AbsQ!InsertAt, InsertAt
<1>3. ASSUME NEW i PROVE AbsQ!RemoveAt(l, i) = RemoveAt(l, i)
  BY DEF AbsQ!RemoveAt, RemoveAt
<1>4. AbsQ!Delete(l, e) = Delete(l, e)
  BY <1>3 DEF AbsQ!Delete, Delete
<1>5. ASSUME NEW T PROVE AbsQ!Min(T) = Min(T)
  BY DEF AbsQ!Min, Min
<1>6. AbsQ!InsertPos(l, key, e) = InsertPos(l, key, e)
  BY <1>5 DEF AbsQ!InsertPos, InsertPos
<1>7. AbsQ!Remaining(l, key, e) = Remaining(l, key, e)
  BY DEF AbsQ!Remaining, Remaining
<1>8. AbsQ!DeltaPos(l, key, e) = DeltaPos(l, key, e)
  BY <1>5, <1>7 DEF AbsQ!DeltaPos, DeltaPos
<1>9. QED  BY <1>1, <1>2, <1>4, <1>6, <1>7, <1>8

\* The processes on no list of AbsQueue are those whose callers know them on none.
LEMMA OffTheLists ==
  ASSUME QueueInv, NEW p \in Procs
  PROVE  p \in AbsQ!Off <=> home[p] = EMPTY
<1>1. TypeOK /\ LinksInverse /\ Reached /\ HomesGiven
  BY DEF QueueInv, IInv
<1>2. ASSUME home[p] = EMPTY, NEW h \in Heads PROVE p \notin ToSet(ListAt(h))
  <2>1. CASE h \in Lists
    <3>1. ListAt(h) \in Seq(Procs) /\ \A i \in 1 .. Len(ListAt(h)) : home[ListAt(h)[i]] = h
      BY <1>1, <2>1, ListFacts
    <3>2. h # EMPTY
      BY HeadFacts
    <3>3. QED  BY <1>2, <3>1, <3>2, SetOfList
  <2>2. CASE h \notin Lists
    <3>1. ListAt(h) = <<>>
      BY <2>2 DEF ListAt
    <3>2. ToSet(<<>>) = {}
      BY DEF ToSet
    <3>3. QED  BY <3>1, <3>2
  <2>3. QED  BY <2>1, <2>2
<1>3. ASSUME home[p] # EMPTY PROVE \E h \in Heads : p \in ToSet(ListAt(h))
  BY <1>1, <1>3 DEF HomesGiven, Lists, Reached
<1>4. QED  BY <1>2, <1>3, SameOperators DEF AbsQ!Off

\* Putting a process between two entries is putting it there in AbsQueue.
LEMMA PlaceMaps ==
  ASSUME QueueInv, IInv', NEW p \in Procs, home[p] = EMPTY, NEW h \in Lists,
         NEW k \in 1 .. Len(ListAt(h)) + 1,
         LinkIn(p, Entry(ListAt(h), h, k - 1), Entry(ListAt(h), h, k)),
         home' = [home EXCEPT ![p] = h], nextqueue' = nextqueue
  PROVE  p \in AbsQ!Off /\ AbsQ!PutAt(p, h, k) /\ Reached'
<1>1. /\ \A g \in Heads : ListAt(g)' = IF g = h THEN InsertAt(ListAt(h), k, p) ELSE ListAt(g)
      /\ Reached'
  BY PlaceLists
<1>2. p \in AbsQ!Off
  BY OffTheLists
<1>3. AbsQ!PutAt(p, h, k)
  <2>1. h \in Heads
    BY DEF Lists
  <2>2. [g \in Heads |-> ListAt(g)'] = [[g \in Heads |-> ListAt(g)] EXCEPT ![h] = InsertAt(@, k, p)]
    BY <1>1, <2>1
  <2> DEFINE f == [g \in Heads |-> ListAt(g)]
  <2>3. AbsQ!InsertAt(f[h], k, p) = InsertAt(f[h], k, p)
    BY SameOperators
  <2>4. f' = [f EXCEPT ![h] = AbsQ!InsertAt(f[h], k, p)]
    BY ONLY <2>2, <2>3
  <2>5. QED  BY <2>4 DEF AbsQ!PutAt
<1>4. QED  BY <1>1, <1>2, <1>3

LEMMA EnqueueMaps ==
  ASSUME QueueInv, NEW p \in Procs, NEW h \in Lists, Enqueue(p, h)
  PROVE  AbsQ!Enqueue(p, h) /\ Reached'
<1> DEFINE l == ListAt(h)
           k == Len(l) + 1
<1>1. TypeOK /\ LinksInverse /\ IInv'
  BY EnqueueInv DEF QueueInv, IInv
<1>2. /\ home[p] = EMPTY /\ LinkIn(p, qprev[TailOf(h)], TailOf(h)) /\ home' = [home EXCEPT ![p] = h]
      /\ qkey' = qkey /\ nextqueue' = nextqueue /\ ret' = ret
  BY DEF Enqueue
<1>3. /\ l \in Seq(Procs) /\ IsInjective(l)
      /\ \A i \in 1 .. Len(l) + 1 : qprev[Entry(l, h, i)] = Entry(l, h, i - 1)
  BY <1>1, ListFacts
<1>4. k \in 1 .. Len(l) + 1
  BY <1>3
<1>5. Entry(l, h, k) = TailOf(h) /\ qprev[TailOf(h)] = Entry(l, h, k - 1)
  <2>1. Entry(l, h, k) = TailOf(h)
    BY <1>3 DEF Entry
  <2>2. qprev[Entry(l, h, k)] = Entry(l, h, k - 1)
    BY <1>3, <1>4
  <2>3. QED  BY <2>1, <2>2
<1> HIDE DEF k
<1>6. p \in AbsQ!Off /\ AbsQ!PutAt(p, h, k) /\ Reached'
  BY <1>1, <1>2, <1>4, <1>5, PlaceMaps
<1>7. h \in Heads
  BY DEF Lists
<1>8. QED  BY <1>2, <1>6, <1>7 DEF AbsQ!Enqueue, k

LEMMA InsertMaps ==
  ASSUME QueueInv, NEW p \in Procs, NEW h \in Lists, NEW x \in 0 .. MAXINT, Insert(p, h, x)
  PROVE  AbsQ!Insert(p, h, x) /\ Reached'
<1> DEFINE l == ListAt(h)
           k == InsertPos(l, Keyed, x)
           next == Walk(h)[Stops(Walk(h), x)]
<1>1. TypeOK /\ LinksInverse /\ KeysBounded /\ IInv'
  BY InsertInv DEF QueueInv, IInv
<1>2. /\ home[p] = EMPTY /\ LinkIn(p, qprev[next], next) /\ home' = [home EXCEPT ![p] = h]
      /\ qkey' = [qkey EXCEPT ![p] = x] /\ nextqueue' = nextqueue /\ ret' = ret
  BY DEF Insert
<1>3. /\ Stops(Walk(h), x) = k /\ k \in 1 .. Len(l) + 1 /\ Walk(h)[k] = Entry(l, h, k)
      /\ qprev[Entry(l, h, k)] = Entry(l, h, k - 1)
  BY <1>1, InsertStopsThere
<1>4. next = Entry(l, h, k) /\ qprev[next] = Entry(l, h, k - 1)
  BY <1>3
<1> HIDE DEF next, k
<1>5. p \in AbsQ!Off /\ AbsQ!PutAt(p, h, k) /\ Reached'
  BY <1>1, <1>2, <1>3, <1>4, PlaceMaps
<1>6. [q \in Procs |-> qkey'[q]] = [Keyed EXCEPT ![p] = x]
  BY <1>1, <1>2, ProcFacts DEF TypeOK, Keyed
<1>7. h \in Heads /\ [g \in Heads |-> ListAt(g)][h] = l
  BY DEF Lists
<1>8. QED  BY <1>2, <1>5, <1>6, <1>7, SameOperators DEF AbsQ!Insert, k, Keyed

LEMMA InsertdMaps ==
  ASSUME QueueInv, NEW p \in Procs, NEW h \in Lists, NEW x \in 0 .. MAXINT, Insertd(p, h, x)
  PROVE  AbsQ!InsertDelta(p, h, x) /\ Reached'
<1> DEFINE l == ListAt(h)
           k == DeltaPos(l, Keyed, x)
           w == Walk(h)
           n == DeltaStops(w, Left(w, x))
           left == Left(w, x)[n]
           own == [qkey EXCEPT ![p] = left]
           mine == [Keyed EXCEPT ![p] = left]
<1>1. TypeOK /\ LinksInverse /\ KeysBounded /\ IInv'
  BY InsertdInv DEF QueueInv, IInv
<1>2. /\ home[p] = EMPTY /\ LinkIn(p, w[n-1], w[n]) /\ home' = [home EXCEPT ![p] = h]
      /\ qkey' = IF Shorten(w[n], left) THEN [own EXCEPT ![w[n]] = @ - left] ELSE own
      /\ nextqueue' = nextqueue /\ ret' = ret
  BY DEF Insertd
<1>3. /\ n = k /\ k \in 1 .. Len(l) + 1 /\ w[k] = Entry(l, h, k) /\ w[k-1] = Entry(l, h, k - 1)
      /\ Remaining(l, Keyed, x)[k] = left /\ left \in 0 .. MAXINT
  BY <1>1, InsertdStopsThere
<1>4. l \in Seq(Procs) /\ IsInjective(l) /\ h \in Heads /\ \A i \in 1 .. Len(l) : home[l[i]] = h
  BY <1>1, ListFacts DEF Lists
<1> HIDE DEF l, k, w, n
<1>5. p \in AbsQ!Off /\ AbsQ!PutAt(p, h, k) /\ Reached'
  BY <1>1, <1>2, <1>3, PlaceMaps DEF l
<1>6. Keyed \in [Procs -> Int] /\ qkey \in [Entries -> Int] /\ p \in Entries /\ left \in Int
  <2>1. \A i \in Entries : qkey[i] \in Int
    BY <1>1 DEF TypeOK
  <2>2. qkey \in [Entries -> Int] /\ left \in Int
    BY <1>1, <1>3, <2>1 DEF TypeOK
  <2>3. QED  BY <2>1, <2>2, ProcFacts DEF Keyed
<1> HIDE DEF left
<1>7. \A q \in Procs : own[q] = mine[q] /\ q \in Entries
  BY <1>6, ProcFacts DEF Keyed
<1>8. Keyed' = IF k > Len(l) THEN mine ELSE [mine EXCEPT ![l[k]] = @ - left]
  <2>1. CASE k > Len(l)
    <3>1. w[n] = TailOf(h)
      BY <1>3, <1>4, <2>1 DEF Entry
    <3>2. ~(w[n] < NProc)
      BY <1>4, <3>1, HeadFacts, ProcsAssumption DEF TailOf
    <3>3. qkey' = own
      BY <1>2, <3>2 DEF Shorten
    <3>4. Keyed' = [q \in Procs |-> own[q]]
      BY <3>3 DEF Keyed
    <3>5. Keyed' = mine
      BY <1>6, <1>7, <3>4
    <3>6. QED  BY <2>1, <3>5
  <2>2. CASE ~(k > Len(l))
    <3>1. k \in 1 .. Len(l) /\ k # 0 /\ k <= Len(l)
      BY <1>3, <1>4, <2>2
    <3>2. w[n] = l[k] /\ l[k] \in Procs /\ l[k] < NProc /\ l[k] \in Entries
      BY <1>3, <1>4, <3>1, ProcFacts DEF Entry
    <3>3. qkey' = [own EXCEPT ![l[k]] = @ - left]
      BY <1>2, <3>2 DEF Shorten
    <3>4. own[l[k]] = mine[l[k]]
      BY <1>7, <3>2
    <3> DEFINE less == mine[l[k]] - left
    <3>5. qkey' = [own EXCEPT ![l[k]] = less]
      BY <3>3, <3>4
    <3> HIDE DEF less
    <3>6. \A q \in Procs : qkey'[q] = IF q = l[k] THEN less ELSE mine[q]
      BY <1>6, <1>7, <3>2, <3>5
    <3>7. Keyed' = [mine EXCEPT ![l[k]] = less]
      BY <1>6, <3>6 DEF Keyed
    <3>8. QED  BY <2>2, <3>7 DEF less
  <2>3. QED  BY <2>1, <2>2
<1>9. [g \in Heads |-> ListAt(g)][h] = l
  BY <1>4 DEF l
<1> DEFINE A == [g \in Heads |-> ListAt(g)][h]
           K == [q \in Procs |-> qkey[q]]
<1>10. AbsQ!DeltaPos(A, K, x) = k /\ AbsQ!Remaining(A, K, x)[k] = left
  BY <1>3, <1>9, SameOperators DEF k, Keyed
<1>11. K' = IF k > Len(A) THEN [K EXCEPT ![p] = left]
            ELSE [[K EXCEPT ![p] = left] EXCEPT ![A[k]] = @ - left]
  BY <1>8, <1>9 DEF Keyed
<1> HIDE DEF k
<1>12. QED  BY <1>2, <1>5, <1>10, <1>11 DEF AbsQ!InsertDelta

LEMMA TakeMaps ==
  ASSUME QueueInv, NEW p \in Procs, home[p] # EMPTY, Take(p), ret' \in Procs \cup {EMPTY}
  PROVE  AbsQ!TakeOff(p) /\ p \notin AbsQ!Off /\ Reached'
<1>1. TypeOK /\ IInv'
  BY TakeInv DEF QueueInv, IInv
<1>2. Unlink(p) /\ home' = [home EXCEPT ![p] = EMPTY] /\ qkey' = qkey /\ nextqueue' = nextqueue
  BY DEF Take
<1>3. /\ \A g \in Heads : ListAt(g)' = Delete(ListAt(g), p)
      /\ Reached'
  BY <1>1, <1>2, TakeLists
<1>4. p \notin AbsQ!Off
  BY OffTheLists
<1>5. [g \in Heads |-> ListAt(g)'] = [g \in Heads |-> AbsQ!Delete([i \in Heads |-> ListAt(i)][g], p)]
  BY <1>3, SameOperators
<1>6. [q \in Procs |-> qkey'[q]] = [q \in Procs |-> qkey[q]]
  BY <1>2
<1>7. QED  BY <1>3, <1>4, <1>5, <1>6 DEF AbsQ!TakeOff

\* What a step that leaves the array alone leaves alone of AbsQueue.
LEMMA ArrayAlone ==
  ASSUME qkey' = qkey, qnext' = qnext, nextqueue' = nextqueue
  PROVE  /\ \A h \in Heads : ListAt(h)' = ListAt(h)
         /\ [h \in Heads |-> ListAt(h)]' = [h \in Heads |-> ListAt(h)]
         /\ [p \in Procs |-> qkey[p]]' = [p \in Procs |-> qkey[p]]
<1>1. ASSUME NEW h \in Heads PROVE ListAt(h)' = ListAt(h)
  BY DEF ListAt, Walk, Lists
<1>2. QED  BY <1>1

\* At each end of a list is its tail or head when it is empty, else its first or last process.
LEMMA ListEnds ==
  ASSUME QueueInv, NEW h \in Lists
  PROVE  LET l == ListAt(h) IN
         /\ l = <<>> => qnext[h] = TailOf(h) /\ qprev[TailOf(h)] = h
         /\ l # <<>> => /\ qnext[h] = Head(l) /\ Head(l) \in Procs /\ home[Head(l)] = h
                        /\ qprev[TailOf(h)] = Last(l) /\ Last(l) \in Procs /\ home[Last(l)] = h
<1> DEFINE l == ListAt(h)
<1>1. TypeOK /\ LinksInverse
  BY DEF QueueInv, IInv
<1>2. /\ l \in Seq(Procs) /\ IsInjective(l) /\ Follows(l, h) /\ h \in Heads
      /\ \A i \in 1 .. Len(l) : home[l[i]] = h
      /\ \A i \in 1 .. Len(l) + 1 : qprev[Entry(l, h, i)] = Entry(l, h, i - 1)
  BY <1>1, ListFacts DEF Lists
<1> HIDE DEF l
<1>3. /\ Entry(l, h, 0) = h /\ Entry(l, h, Len(l) + 1) = TailOf(h)
      /\ \A i \in 1 .. Len(l) : Entry(l, h, i) = l[i] /\ l[i] \in Procs
  BY <1>2, EntriesDistinct
<1>4. qnext[h] = Entry(l, h, 1)
  <2>1. 0 \in 0 .. Len(l) /\ 0 + 1 = 1
    BY <1>2
  <2>2. qnext[Entry(l, h, 0)] = Entry(l, h, 1)
    BY <1>2, <2>1 DEF Follows
  <2>3. QED  BY <1>3, <2>2
<1>5. qprev[TailOf(h)] = Entry(l, h, Len(l))
  <2>1. Len(l) + 1 \in 1 .. Len(l) + 1 /\ (Len(l) + 1) - 1 = Len(l)
    BY <1>2
  <2>2. QED  BY <1>2, <1>3, <2>1
<1>6. ASSUME l = <<>> PROVE qnext[h] = TailOf(h) /\ qprev[TailOf(h)] = h
  <2>1. Len(l) = 0
    BY <1>6
  <2>2. QED  BY <1>3, <1>4, <1>5, <2>1
<1>7. ASSUME l # <<>>
      PROVE  /\ qnext[h] = Head(l) /\ Head(l) \in Procs /\ home[Head(l)] = h
             /\ qprev[TailOf(h)] = Last(l) /\ Last(l) \in Procs /\ home[Last(l)] = h
  <2>1. 1 \in 1 .. Len(l) /\ Len(l) \in 1 .. Len(l) /\ Head(l) = l[1]
    BY <1>2, <1>7
  <2>2. Last(l) = l[Len(l)]
    BY DEF Last
  <2>3. QED  BY <1>2, <1>3, <1>4, <1>5, <2>1, <2>2
<1>8. QED  BY <1>6, <1>7 DEF l

\* getfirst and getlast take the process at their end, or return EMPTY.
LEMMA GetFromMaps ==
  ASSUME QueueInv, NEW h \in Lists, NEW p, GetFrom(p)
  PROVE  /\ p \in Procs /\ home[p] = h => AbsQ!TakeOff(p) /\ ret' = p /\ Reached'
         /\ p = h \/ p = TailOf(h) =>
              /\ ret' = EMPTY /\ Reached' /\ UNCHANGED [g \in Heads |-> ListAt(g)]
              /\ UNCHANGED [q \in Procs |-> qkey[q]]
<1>1. ASSUME p \in Procs, home[p] = h PROVE AbsQ!TakeOff(p) /\ ret' = p /\ Reached'
  <2>1. p < NProc /\ ~(p >= NProc)
    BY <1>1, ProcFacts, ProcsAssumption
  <2>2. Take(p) /\ ret' = p
    BY <2>1 DEF GetFrom
  <2>3. home[p] # EMPTY
    BY <1>1, HeadFacts DEF Lists
  <2>4. QED  BY <1>1, <2>2, <2>3, TakeMaps
<1>2. ASSUME p = h \/ p = TailOf(h)
      PROVE  /\ ret' = EMPTY /\ Reached' /\ UNCHANGED [g \in Heads |-> ListAt(g)]
             /\ UNCHANGED [q \in Procs |-> qkey[q]]
  <2>1. ~(p < NProc)
    BY <1>2, HeadFacts, ProcsAssumption DEF Lists, TailOf
  <2>2. ret' = EMPTY /\ UNCHANGED <<qkey, links, nextqueue, home>>
    BY <2>1 DEF GetFrom
  <2>3. /\ \A g \in Heads : ListAt(g)' = ListAt(g)
        /\ UNCHANGED [g \in Heads |-> ListAt(g)] /\ UNCHANGED [q \in Procs |-> qkey[q]]
    BY <2>2, ArrayAlone DEF links
  <2>4. Reached'
    BY <2>2, <2>3 DEF QueueInv, Reached
  <2>5. QED  BY <2>2, <2>3, <2>4
<1>3. QED  BY <1>1, <1>2

LEMMA GetfirstMaps ==
  ASSUME QueueInv, NEW h \in Lists, Getfirst(h)
  PROVE  AbsQ!GetFirst(h) /\ Reached'
<1>1. h \in Heads /\ [g \in Heads |-> ListAt(g)][h] = ListAt(h) /\ GetFrom(qnext[h])
  BY DEF Lists, Getfirst
<1>2. CASE ListAt(h) = <<>>
  <2>1. qnext[h] = TailOf(h)
    BY <1>2, ListEnds
  <2>2. /\ ret' = EMPTY /\ Reached' /\ UNCHANGED [g \in Heads |-> ListAt(g)]
        /\ UNCHANGED [q \in Procs |-> qkey[q]]
    BY <1>1, <2>1, GetFromMaps
  <2>3. QED  BY <1>1, <1>2, <2>2, SameOperators DEF AbsQ!GetFirst
<1>3. CASE ListAt(h) # <<>>
  <2>1. qnext[h] = Head(ListAt(h)) /\ Head(ListAt(h)) \in Procs /\ home[Head(ListAt(h))] = h
    BY <1>3, ListEnds
  <2>2. AbsQ!TakeOff(qnext[h]) /\ ret' = qnext[h] /\ Reached'
    BY <1>1, <2>1, GetFromMaps
  <2>3. QED  BY <1>1, <1>3, <2>1, <2>2 DEF AbsQ!GetFirst
<1>4. QED  BY <1>2, <1>3

LEMMA GetlastMaps ==
  ASSUME QueueInv, NEW h \in Lists, Getlast(h)
  PROVE  AbsQ!GetLast(h) /\ Reached'
<1>1. h \in Heads /\ [g \in Heads |-> ListAt(g)][h] = ListAt(h) /\ GetFrom(qprev[TailOf(h)])
  BY DEF Lists, Getlast
<1>2. CASE ListAt(h) = <<>>
  <2>1. qprev[TailOf(h)] = h
    BY <1>2, ListEnds
  <2>2. /\ ret' = EMPTY /\ Reached' /\ UNCHANGED [g \in Heads |-> ListAt(g)]
        /\ UNCHANGED [q \in Procs |-> qkey[q]]
    BY <1>1, <2>1, GetFromMaps
  <2>3. QED  BY <1>1, <1>2, <2>2, SameOperators DEF AbsQ!GetLast
<1>3. CASE ListAt(h) # <<>>
  <2>1. qprev[TailOf(h)] = Last(ListAt(h)) /\ Last(ListAt(h)) \in Procs /\ home[Last(ListAt(h))] = h
    BY <1>3, ListEnds
  <2>2. AbsQ!TakeOff(qprev[TailOf(h)]) /\ ret' = qprev[TailOf(h)] /\ Reached'
    BY <1>1, <2>1, GetFromMaps
  <2>3. AbsQ!Last(ListAt(h)) = Last(ListAt(h))
    BY SameOperators
  <2>4. QED  BY <1>1, <1>3, <2>1, <2>2, <2>3 DEF AbsQ!GetLast
<1>4. QED  BY <1>2, <1>3

LEMMA SetKeyMaps ==
  ASSUME QueueInv, NEW p \in Procs, NEW x \in Keys, SetKey(p, x)
  PROVE  AbsQ!SetKey(p, x) /\ Reached'
<1>1. /\ home[p] # EMPTY /\ qkey' = [qkey EXCEPT ![p] = x] /\ qnext' = qnext
      /\ nextqueue' = nextqueue /\ home' = home /\ ret' = ret
  BY DEF SetKey, links
<1>2. p \notin AbsQ!Off
  BY <1>1, OffTheLists
<1>3. \A h \in Heads : ListAt(h)' = ListAt(h)
  <2>1. ASSUME NEW h \in Heads PROVE ListAt(h)' = ListAt(h)
    BY <1>1 DEF ListAt, Walk, Lists
  <2>2. QED  BY <2>1
<1>4. Reached'
  BY <1>1, <1>3 DEF QueueInv, Reached
<1>5. [q \in Procs |-> qkey'[q]] = [[q \in Procs |-> qkey[q]] EXCEPT ![p] = x]
  <2>1. \A q \in Procs : qkey'[q] = IF q = p THEN x ELSE qkey[q]
    BY <1>1, ProcFacts DEF QueueInv, IInv, TypeOK
  <2>2. QED  BY <2>1
<1>6. QED  BY <1>1, <1>2, <1>3, <1>4, <1>5 DEF AbsQ!SetKey

\* A new list is empty, as it was before it was given out.
LEMMA NewqueueMaps ==
  ASSUME QueueInv, Newqueue
  PROVE  UNCHANGED AbsQ!vars /\ Reached'
<1>1. TypeOK /\ LinksInverse /\ IInv' /\ TypeOK' /\ Reached /\ HomesGiven
  BY NewqueueInv DEF QueueInv, IInv
<1>2. PICK h \in Heads : h = nextqueue
  BY DEF Newqueue
<1>3. /\ qnext' = [qnext EXCEPT ![h] = TailOf(h), ![TailOf(h)] = EMPTY]
      /\ qkey' = [qkey EXCEPT ![h] = MININT, ![TailOf(h)] = MAXINT]
      /\ nextqueue' = h + 2 /\ home' = home /\ ret' = ret
  BY <1>2 DEF Newqueue
<1>4. /\ h \in Entries /\ TailOf(h) \in Entries /\ h # TailOf(h) /\ h \notin Lists
      /\ h \in Int /\ h \notin Procs /\ TailOf(h) \notin Procs
  BY <1>2, HeadFacts DEF Lists
<1>5. ASSUME NEW g \in Heads, g # h PROVE ListAt(g)' = ListAt(g)
  <2>1. g \in Lists <=> g \in Lists'
    <3>1. PICK j \in 0 .. NQueues - 1 : g = NProc + 2 * j
      BY DEF Heads
    <3>2. PICK k \in 0 .. NQueues - 1 : h = NProc + 2 * k
      BY DEF Heads
    <3>3. g < h + 2 <=> g < h
      BY <1>5, <3>1, <3>2, ProcsAssumption, QueuesAssumption
    <3>4. QED  BY <1>2, <1>3, <3>3 DEF Lists
  <2>2. CASE g \in Lists
    <3> DEFINE m == ListAt(g)
    <3>1. /\ m \in Seq(Procs) /\ IsInjective(m)
          /\ \A i \in 1 .. Len(m) + 1 : ListOf(Entry(m, g, i)) = g
      BY <1>1, <2>2, ListFacts
    <3>2. ListOf(g) = g /\ ListOf(h) = h /\ ListOf(TailOf(h)) = h
      BY HeadFacts
    <3> HIDE DEF m
    <3>3. /\ \A i \in 0 .. Len(m) + 1 : Entry(m, g, i) \in Entries
          /\ Entry(m, g, 0) = g
      BY <3>1, EntriesDistinct
    <3>4. ASSUME NEW i \in 0 .. Len(m) PROVE qnext'[Entry(m, g, i)] = qnext[Entry(m, g, i)]
      <4>1. /\ i \in 0 .. Len(m) + 1
            /\ i # 0 => i \in 1 .. Len(m) + 1
        BY <3>1
      <4>2. ListOf(Entry(m, g, i)) = g
        BY <3>1, <3>2, <3>3, <4>1
      <4>3. Entry(m, g, i) # h /\ Entry(m, g, i) # TailOf(h) /\ Entry(m, g, i) \in Entries
        BY <1>5, <3>2, <3>3, <4>1, <4>2
      <4>4. QED  BY <1>1, <1>3, <1>4, <4>3 DEF TypeOK
    <3>5. QED  BY <1>1, <2>1, <2>2, <3>4, ListKept DEF m
  <2>3. CASE g \notin Lists
    BY <2>1, <2>3 DEF ListAt
  <2>4. QED  BY <2>2, <2>3
<1>6. ListAt(h)' = <<>> /\ ListAt(h) = <<>>
  <2>1. FollowedIsList'
    BY FollowedOnce, PTL
  <2>2. \A g \in Lists', m \in Seq(Procs) :
          IsInjective(m) /\ (\A i \in 0 .. Len(m) : qnext'[Entry(m, g, i)] = Entry(m, g, i + 1))
            => ListAt(g)' = m
    BY <1>1, <2>1 DEF FollowedIsList, Follows
  <2>3. h \in Lists'
    BY <1>3, <1>4 DEF Lists
  <2>4. <<>> \in Seq(Procs) /\ Len(<<>>) = 0 /\ IsInjective(<<>>)
    BY DEF IsInjective
  <2>5. Entry(<<>>, h, 0) = h /\ Entry(<<>>, h, 0 + 1) = TailOf(h)
    BY DEF Entry
  <2>6. qnext'[h] = TailOf(h)
    BY <1>1, <1>3, <1>4 DEF TypeOK
  <2>7. \A i \in 0 .. Len(<<>>) : qnext'[Entry(<<>>, h, i)] = Entry(<<>>, h, i + 1)
    <3>1. \A i \in 0 .. Len(<<>>) : i = 0
      BY <2>4
    <3>2. QED  BY <2>5, <2>6, <3>1
  <2>8. ListAt(h)' = <<>>
    BY <2>2, <2>3, <2>4, <2>7
  <2>9. QED  BY <1>4, <2>8 DEF ListAt
<1>7. \A g \in Heads : ListAt(g)' = ListAt(g)
  BY <1>5, <1>6
<1>8. \A p \in Procs : qkey'[p] = qkey[p]
  BY <1>1, <1>3, <1>4, ProcFacts DEF TypeOK
<1>9. Reached'
  BY <1>1, <1>3, <1>7 DEF Reached
<1>10. UNCHANGED [g \in Heads |-> ListAt(g)] /\ UNCHANGED [p \in Procs |-> qkey[p]]
  BY <1>7, <1>8
<1>11. QED  BY <1>3, <1>9, <1>10 DEF AbsQ!vars

LEMMA InitMaps == Init => AbsQ!Init /\ QueueInv
<1> SUFFICES ASSUME Init PROVE AbsQ!Init /\ QueueInv
  OBVIOUS
<1>1. IInv
  BY InitInv
<1>2. \A h \in Heads : ListAt(h) = <<>>
  <2>1. \A h \in Heads : ~(h < nextqueue)
    BY HeadFacts, ProcsAssumption DEF Init
  <2>2. QED  BY <2>1 DEF ListAt, Lists
<1>3. \A p \in Procs : qkey[p] = 0 /\ home[p] = EMPTY
  BY ProcFacts DEF Init
<1>4. Reached
  BY <1>3, HeadFacts DEF Reached
<1>5. [h \in Heads |-> ListAt(h)] = [h \in Heads |-> <<>>] /\ [p \in Procs |-> qkey[p]] = [p \in Procs |-> 0]
  BY <1>2, <1>3
<1>6. ret = EMPTY
  BY DEF Init
<1>7. QED  BY <1>1, <1>4, <1>5, <1>6, SameOperators DEF AbsQ!Init, QueueInv

LEMMA StepMaps ==
  QueueInv /\ [Next]_vars => QueueInv' /\ [AbsQ!Next]_AbsQ!vars
<1> SUFFICES ASSUME QueueInv, [Next]_vars PROVE Reached' /\ [AbsQ!Next]_AbsQ!vars
  BY NextInv DEF QueueInv
<1>1. TypeOK /\ LinksInverse
  BY DEF QueueInv, IInv
<1>2. \A x \in Keys : x \in 0 .. MAXINT
  BY KeyAssumption
<1>3. \A h \in Lists : h \in Heads
  BY DEF Lists
<1>4. CASE Newqueue
  BY <1>4, NewqueueMaps
<1>5. ASSUME NEW p \in Procs, Dequeue(p) PROVE Reached' /\ AbsQ!Next
  <2>1. home[p] # EMPTY /\ Take(p) /\ ret' = ret /\ ret' \in Procs \cup {EMPTY}
    BY <1>1, <1>5 DEF Dequeue, TypeOK
  <2>2. AbsQ!TakeOff(p) /\ p \notin AbsQ!Off /\ Reached'
    BY <2>1, TakeMaps
  <2>3. AbsQ!Dequeue(p)
    BY <2>1, <2>2 DEF AbsQ!Dequeue
  <2>4. QED  BY <2>2, <2>3 DEF AbsQ!Next
<1>6. ASSUME NEW p \in Procs, NEW x \in Keys, SetKey(p, x) PROVE Reached' /\ AbsQ!Next
  BY <1>6, SetKeyMaps DEF AbsQ!Next
<1>7. ASSUME NEW h \in Lists, Getfirst(h) PROVE Reached' /\ AbsQ!Next
  BY <1>3, <1>7, GetfirstMaps DEF AbsQ!Next
<1>8. ASSUME NEW h \in Lists, Getlast(h) PROVE Reached' /\ AbsQ!Next
  BY <1>3, <1>8, GetlastMaps DEF AbsQ!Next
<1>9. ASSUME NEW p \in Procs, NEW h \in Lists, Enqueue(p, h) PROVE Reached' /\ AbsQ!Next
  BY <1>3, <1>9, EnqueueMaps DEF AbsQ!Next
<1>10. ASSUME NEW p \in Procs, NEW h \in Lists, NEW x \in Keys, Insert(p, h, x)
       PROVE  Reached' /\ AbsQ!Next
  BY <1>2, <1>3, <1>10, InsertMaps DEF AbsQ!Next
<1>11. ASSUME NEW p \in Procs, NEW h \in Lists, NEW x \in Keys, Insertd(p, h, x)
       PROVE  Reached' /\ AbsQ!Next
  BY <1>2, <1>3, <1>11, InsertdMaps DEF AbsQ!Next
<1>12. CASE UNCHANGED vars
  <2>1. qkey' = qkey /\ qnext' = qnext /\ nextqueue' = nextqueue /\ home' = home /\ ret' = ret
    BY <1>12 DEF vars, links
  <2>2. /\ \A h \in Heads : ListAt(h)' = ListAt(h)
        /\ UNCHANGED [h \in Heads |-> ListAt(h)] /\ UNCHANGED [p \in Procs |-> qkey[p]]
    BY <2>1, ArrayAlone
  <2>3. Reached'
    BY <2>1, <2>2 DEF QueueInv, Reached
  <2>4. QED  BY <2>1, <2>2, <2>3 DEF AbsQ!vars
<1>13. QED
  BY <1>4, <1>5, <1>6, <1>7, <1>8, <1>9, <1>10, <1>11, <1>12 DEF Next

\* The queue array does what AbsQueue promises its callers: what they see of it, with every
\* number of processes and lists and all keys, is lists, each process on one at most.
THEOREM QueueArrayCorrect == Spec => QueueRefinement
<1>1. Init => AbsQ!Init /\ QueueInv
  BY InitMaps
<1>2. QueueInv /\ [Next]_vars => QueueInv' /\ [AbsQ!Next]_AbsQ!vars
  BY StepMaps
<1>3. QED  BY <1>1, <1>2, PTL DEF Spec, QueueRefinement, AbsQ!Spec
==============================================================================
