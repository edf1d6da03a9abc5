----------------------------- MODULE KernelProofs -----------------------------
(***************************************************************************)
(* The lists of the kernel match the states of its processes, in every     *)
(* reachable state and for all values of the constants.                    *)
(***************************************************************************)
EXTENDS Kernel, ListLemmas

------------------------------------------------------------------------------
(* What the routines of KernelState do to the process table and the lists: each takes a
   record d whose lists match its process states to one for which they match again.
   Processes in X have been taken off their list and their state not yet changed, as in the
   middle of wakeup. *)

DispType ==
  [pstate : [Pids -> States], pprio : [Pids -> 0 .. MAXINT], qkey : [Pids -> Int],
   rdy : Seq(Pids), slp : Seq(Pids), slnempty : BOOLEAN, sltop : Pids,
   currpid : Pids, preempt : -1 .. Quantum]

Sleeping == {"sleep", "trecv"}

Matches(d, p) ==
  /\ p \in ToSet(d.rdy) <=> d.pstate[p] = "ready"
  /\ p \in ToSet(d.slp) <=> d.pstate[p] \in Sleeping

Loose(d, p) == p \notin ToSet(d.rdy) /\ p \notin ToSet(d.slp)

\* The ready list ascends, under keys that are the priorities of its processes.
Ordered(d) == /\ Ascends(d.rdy, d.pprio)
              /\ \A p \in ToSet(d.rdy) : d.qkey[p] = d.pprio[p]

\* Nobody on the ready list has a higher priority than the running process.
Highest(d) == \A p \in ToSet(d.rdy) : d.pprio[p] <= d.pprio[d.currpid]

Good(d, X) ==
  /\ d \in DispType
  /\ IsInjective(d.rdy) /\ IsInjective(d.slp) /\ Ordered(d)
  /\ \A p \in Pids \ X : Matches(d, p)
  /\ \A p \in X : Loose(d, p)
  /\ \A p \in Pids : d.pstate[p] = "curr" => p = d.currpid
  /\ d.pstate[NULLPROC] \in {"curr", "ready"} /\ NULLPROC \notin X

\* The keys of the sleepers are what is left of their delays.
DelaysGood(d) == \A p \in ToSet(d.slp) : d.qkey[p] >= 0

SltopGood(d) == /\ d.slnempty <=> d.slp # <<>>
                /\ d.slnempty => d.sltop = Head(d.slp)
                /\ DelaysGood(d)

SameClockq(d, e) == /\ e.slp = d.slp /\ e.slnempty = d.slnempty /\ e.sltop = d.sltop
                    /\ \A p \in ToSet(d.slp) : e.qkey[p] = d.qkey[p]

HasCurrent(d) == d.pstate[d.currpid] = "curr"

\* Only the current and the ready processes may have changed places.
SameOthers(d, e) ==
  /\ e.pprio = d.pprio
  /\ \A p \in Pids : IF d.pstate[p] \in {"curr", "ready"}
                     THEN e.pstate[p] \in {"curr", "ready"} ELSE e.pstate[p] = d.pstate[p]

\* e is d but for slnempty and sltop.
OnlySltop(d, e) ==
  /\ e.pstate = d.pstate /\ e.pprio = d.pprio /\ e.qkey = d.qkey /\ e.rdy = d.rdy
  /\ e.slp = d.slp /\ e.currpid = d.currpid /\ e.preempt = d.preempt

\* e is d after the processes of S were made ready.
Readied(d, e, S) ==
  /\ e.pstate = [p \in Pids |-> IF p \in S THEN "ready" ELSE d.pstate[p]]
  /\ ToSet(e.rdy) = ToSet(d.rdy) \cup S
  /\ e.pprio = d.pprio /\ e.currpid = d.currpid /\ e.preempt = d.preempt
  /\ SameClockq(d, e)

LEMMA PidsFacts == NULLPROC \in Pids /\ Pids \subseteq Nat /\ NProc - 1 \in Pids
BY NProcAssumption DEF Pids, NULLPROC

LEMMA DispFields ==
  ASSUME NEW d \in DispType
  PROVE  /\ d.pstate \in [Pids -> States] /\ d.pprio \in [Pids -> 0 .. MAXINT]
         /\ d.qkey \in [Pids -> Int] /\ d.rdy \in Seq(Pids) /\ d.slp \in Seq(Pids)
         /\ d.slnempty \in BOOLEAN /\ d.sltop \in Pids /\ d.currpid \in Pids
         /\ d.preempt \in -1 .. Quantum
BY DEF DispType

LEMMA PrioInt ==
  ASSUME NEW d \in DispType, NEW p \in Pids
  PROVE  d.pprio[p] \in Int
<1>1. d.pprio[p] \in 0 .. MAXINT
  BY DispFields
<1>2. QED  BY <1>1

LEMMA InsertPosRange ==
  ASSUME NEW l \in Seq(Pids), NEW key \in [Pids -> Int], NEW x \in Int
  PROVE  InsertPos(l, key, x) \in 1 .. Len(l) + 1
<1> DEFINE I == {i \in 1 .. Len(l) : key[l[i]] >= x}
<1>1. CASE I = {}
  BY <1>1 DEF InsertPos
<1>2. CASE I # {}
  <2>1. I \subseteq Nat
    OBVIOUS
  <2>2. Min(I) \in I
    BY <1>2, <2>1, MinNat
  <2>3. QED  BY <1>2, <2>2 DEF InsertPos
<1>3. QED  BY <1>1, <1>2

\* What insert passes over has no larger key, and what it stops before no smaller one.
LEMMA InsertPosKeys ==
  ASSUME NEW l \in Seq(Pids), NEW key \in [Pids -> Int], NEW prio \in [Pids -> Int],
         Ascends(l, prio), \A p \in ToSet(l) : key[p] = prio[p], NEW x \in Int
  PROVE  LET k == InsertPos(l, key, x) IN
         /\ \A i \in 1 .. k - 1 : i \in 1 .. Len(l) /\ prio[l[i]] <= x
         /\ \A i \in k .. Len(l) : i \in 1 .. Len(l) /\ x <= prio[l[i]]
<1> DEFINE I == {i \in 1 .. Len(l) : key[l[i]] >= x}
           k == InsertPos(l, key, x)
<1>1. k = IF I = {} THEN Len(l) + 1 ELSE Min(I)
  BY DEF InsertPos
<1>2. k \in 1 .. Len(l) + 1
  BY InsertPosRange
<1>3. I # {} => k \in I /\ \A i \in I : k <= i
  <2>1. I \subseteq Nat
    OBVIOUS
  <2> HIDE DEF I, k
  <2>2. QED  BY <1>1, <2>1, MinNat
<1> HIDE DEF k
<1>4. \A i \in 1 .. Len(l) : l[i] \in Pids /\ key[l[i]] = prio[l[i]] /\ prio[l[i]] \in Int
  BY SetOfList
<1>5. ASSUME NEW i \in 1 .. k - 1 PROVE i \in 1 .. Len(l) /\ prio[l[i]] <= x
  <2>1. i \in 1 .. Len(l)
    BY <1>2
  <2>2. i \notin I
    <3> HIDE DEF I
    <3>1. CASE I = {}
      BY <3>1
    <3>2. CASE I # {}
      BY <1>2, <1>3, <3>2
    <3>3. QED  BY <3>1, <3>2
  <2>3. QED  BY <1>4, <2>1, <2>2
<1>6. ASSUME NEW i \in k .. Len(l) PROVE i \in 1 .. Len(l) /\ x <= prio[l[i]]
  <2>1. i \in 1 .. Len(l) /\ k \in 1 .. Len(l) /\ k <= i
    BY <1>2
  <2>2. k \in I
    <3> HIDE DEF I
    <3>1. I # {}
      BY <1>1, <2>1
    <3>2. QED  BY <1>3, <3>1
  <2>3. x <= prio[l[k]]
    BY <1>4, <2>1, <2>2
  <2>4. prio[l[k]] <= prio[l[i]]
    BY <1>4, <2>1 DEF Ascends
  <2>5. QED  BY <1>4, <2>1, <2>3, <2>4
<1>7. QED  BY <1>5, <1>6 DEF k

\* A change elsewhere leaves the ready list in order.
LEMMA OrderedKept ==
  ASSUME NEW d, NEW e, Ordered(d), e.rdy = d.rdy, e.pprio = d.pprio,
         \A p \in ToSet(d.rdy) : e.qkey[p] = d.qkey[p]
  PROVE  Ordered(e)
BY DEF Ordered

LEMMA InsertReadyList ==
  ASSUME NEW d \in DispType, IsInjective(d.rdy), NEW p \in Pids, Loose(d, p), Ordered(d)
  PROVE  LET e == InsertReady(d, p) IN
         /\ e \in DispType /\ IsInjective(e.rdy) /\ Ordered(e)
         /\ e.rdy # <<>> /\ ToSet(e.rdy) = ToSet(d.rdy) \cup {p}
         /\ e.pstate = d.pstate /\ e.pprio = d.pprio /\ e.currpid = d.currpid
         /\ e.preempt = d.preempt /\ SameClockq(d, e)
<1> DEFINE k == InsertPos(d.rdy, d.qkey, d.pprio[p])
           l == InsertAt(d.rdy, k, p)
<1>1. /\ d.rdy \in Seq(Pids) /\ d.qkey \in [Pids -> Int] /\ d.pprio[p] \in Int
      /\ p \notin ToSet(d.rdy) /\ p \notin ToSet(d.slp) /\ ToSet(d.slp) \subseteq Pids
  BY DispFields, PrioInt, SetOfList DEF Loose
<1>2. k \in 1 .. Len(d.rdy) + 1
  BY <1>1, InsertPosRange
<1> HIDE DEF k
<1>3. /\ l \in Seq(Pids) /\ IsInjective(l) /\ l # <<>>
      /\ ToSet(l) = ToSet(d.rdy) \cup {p}
  BY <1>1, <1>2, InsertAtDistinct
<1>4. InsertReady(d, p) = [d EXCEPT !.rdy = l, !.qkey = [d.qkey EXCEPT ![p] = d.pprio[p]]]
  BY DEF InsertReady, k
<1> DEFINE key == [d.qkey EXCEPT ![p] = d.pprio[p]]
           e == [d EXCEPT !.rdy = l, !.qkey = key]
<1>5. key \in [Pids -> Int] /\ \A q \in Pids : key[q] = IF q = p THEN d.pprio[p] ELSE d.qkey[q]
  BY <1>1
<1>9. Ascends(l, d.pprio)
  <2>1. d.pprio \in [Pids -> Int]
    BY DispFields
  <2>2. Ascends(d.rdy, d.pprio) /\ \A q \in ToSet(d.rdy) : d.qkey[q] = d.pprio[q]
    BY DEF Ordered
  <2>3. /\ \A i \in 1 .. k - 1 : d.pprio[d.rdy[i]] <= d.pprio[p]
        /\ \A i \in k .. Len(d.rdy) : d.pprio[p] <= d.pprio[d.rdy[i]]
    BY <1>1, <2>1, <2>2, InsertPosKeys DEF k
  <2>4. QED  BY <1>1, <1>2, <2>1, <2>2, <2>3, InsertAtAscends
<1>10. ToSet(d.rdy) \subseteq Pids
  BY <1>1, SetOfList
<1> HIDE DEF l, key
<1>6. /\ e \in DispType /\ e.rdy = l /\ e.qkey = key /\ e.pstate = d.pstate /\ e.pprio = d.pprio
      /\ e.currpid = d.currpid /\ e.preempt = d.preempt /\ SameClockq(d, e)
  BY <1>1, <1>3, <1>5 DEF DispType, SameClockq
<1>7. InsertReady(d, p) = e
  BY <1>4 DEF key
<1> HIDE DEF e
<1>11. Ordered(e)
  BY <1>3, <1>5, <1>6, <1>9, <1>10 DEF Ordered
<1>8. QED  BY <1>3, <1>6, <1>7, <1>11

\* ready takes a process that is on no list to the ready list.
LEMMA ReadyGood ==
  ASSUME NEW X, NEW d, Good(d, X), NEW p \in Pids, Loose(d, p)
  PROVE  Good(Ready(d, p), X \ {p}) /\ Readied(d, Ready(d, p), {p})
<1> DEFINE c == [d EXCEPT !.pstate[p] = "ready"]
           e == InsertReady(c, p)
<1>1. /\ c \in DispType /\ c.rdy = d.rdy /\ c.slp = d.slp
      /\ c.pstate = [d.pstate EXCEPT ![p] = "ready"] /\ c.pprio = d.pprio
      /\ c.currpid = d.currpid /\ c.preempt = d.preempt /\ SameClockq(d, c)
      /\ c.qkey = d.qkey
  BY DEF Good, DispType, States, SameClockq
<1>2. IsInjective(c.rdy) /\ Loose(c, p) /\ Ordered(c)
  BY <1>1, OrderedKept DEF Good, Loose
<1> HIDE DEF c
<1>3. /\ e \in DispType /\ IsInjective(e.rdy) /\ Ordered(e)
      /\ e.rdy # <<>> /\ ToSet(e.rdy) = ToSet(c.rdy) \cup {p}
      /\ e.pstate = c.pstate /\ e.pprio = c.pprio /\ e.currpid = c.currpid
      /\ e.preempt = c.preempt /\ SameClockq(c, e)
  BY <1>1, <1>2, InsertReadyList
<1>4. Ready(d, p) = e
  BY DEF Ready, c, e
<1> HIDE DEF e
<1>5. /\ e.pstate = [d.pstate EXCEPT ![p] = "ready"]
      /\ ToSet(e.rdy) = ToSet(d.rdy) \cup {p} /\ e.slp = d.slp
  BY <1>1, <1>3 DEF SameClockq
<1>6. d.pstate \in [Pids -> States]
  BY DEF Good, DispType
<1>7. \A q \in Pids \ (X \ {p}) : Matches(e, q)
  BY <1>5, <1>6 DEF Good, Matches, Loose, Sleeping
<1>8. \A q \in X \ {p} : Loose(e, q)
  BY <1>5 DEF Good, Loose
<1>9. \A q \in Pids : e.pstate[q] = "curr" => q = e.currpid
  BY <1>1, <1>3, <1>5, <1>6 DEF Good
<1>10. e.pstate[NULLPROC] \in {"curr", "ready"}
  BY <1>5, <1>6, PidsFacts DEF Good
<1>11. Good(e, X \ {p})
  BY <1>1, <1>3, <1>5, <1>7, <1>8, <1>9, <1>10 DEF Good
<1>12. Readied(d, e, {p})
  <2>1. e.pstate = [q \in Pids |-> IF q \in {p} THEN "ready" ELSE d.pstate[q]]
    BY <1>5, <1>6
  <2>2. SameClockq(d, e)
    BY <1>1, <1>3 DEF SameClockq
  <2>3. QED  BY <1>1, <1>3, <1>5, <2>1, <2>2 DEF Readied
<1>13. QED  BY <1>4, <1>11, <1>12

LEMMA QuantumInt == Quantum \in -1 .. Quantum
BY QuantumAssumption

\* resched leaves the processor with a process whose state says so, and moves nobody
\* but the process that had the processor and the one that gets it.
LEMMA ReschedGood ==
  ASSUME NEW d, Good(d, {})
  PROVE  /\ Good(Resched(d), {}) /\ HasCurrent(Resched(d)) /\ Highest(Resched(d))
         /\ SameOthers(d, Resched(d)) /\ SameClockq(d, Resched(d))
<1> DEFINE p == d.currpid
           running == d.pstate[p] = "curr"
           e == IF running THEN Ready(d, p) ELSE d
           next == Last(e.rdy)
           f == [e EXCEPT !.rdy = Front(e.rdy), !.pstate = [e.pstate EXCEPT ![next] = "curr"],
                          !.currpid = next, !.preempt = Quantum]
<1>1. d \in DispType /\ p \in Pids /\ d.pstate \in [Pids -> States]
  BY DispFields DEF Good
<1>2. CASE running /\ LastKey(d) < d.pprio[p]
  <2>1. Resched(d) = d
    BY <1>2 DEF Resched
  <2>2. SameOthers(d, d) /\ SameClockq(d, d)
    BY DEF SameOthers, SameClockq
  <2>3. HasCurrent(d)
    BY <1>2 DEF HasCurrent
  <2>4. Highest(d)
    <3>1. /\ d.rdy \in Seq(Pids) /\ Ascends(d.rdy, d.pprio) /\ d.pprio \in [Pids -> Int]
          /\ \A q \in ToSet(d.rdy) : d.qkey[q] = d.pprio[q]
      BY <1>1, DispFields DEF Good, Ordered
    <3>2. ASSUME NEW q \in ToSet(d.rdy) PROVE d.pprio[q] <= d.pprio[p]
      <4>1. d.rdy # <<>> /\ q \in Pids
        BY <3>1, SetOfList
      <4>2. d.pprio[q] <= d.pprio[Last(d.rdy)]
        BY <3>1, <4>1, LastAscends
      <4>3. Last(d.rdy) \in ToSet(d.rdy) /\ Last(d.rdy) \in Pids
        BY <3>1, <4>1, FrontLast DEF Good
      <4>4. LastKey(d) = d.pprio[Last(d.rdy)]
        BY <3>1, <4>1, <4>3 DEF LastKey
      <4> HIDE DEF p
      <4>5. d.pprio[q] \in Int /\ d.pprio[Last(d.rdy)] \in Int /\ d.pprio[p] \in Int
        BY <1>1, <3>1, <4>1, <4>3
      <4>6. LastKey(d) < d.pprio[p]
        BY <1>2
      <4>7. QED  BY <4>2, <4>4, <4>5, <4>6
    <3>3. QED  BY <3>2 DEF Highest
  <2>5. QED  BY <2>1, <2>2, <2>3, <2>4
<1>3. CASE ~(running /\ LastKey(d) < d.pprio[p])
  <2>1. Resched(d) = f
    BY <1>3 DEF Resched
  <2>2. /\ Good(e, {}) /\ e.rdy # <<>> /\ \A q \in Pids : e.pstate[q] # "curr"
        /\ SameClockq(d, e) /\ e.pprio = d.pprio
        /\ \A q \in Pids : IF d.pstate[q] \in {"curr", "ready"}
                           THEN e.pstate[q] = "ready" ELSE e.pstate[q] = d.pstate[q]
    <3>1. CASE running
      <4>1. Loose(d, p)
        BY <3>1, <1>1 DEF Good, Matches, Loose, Sleeping
      <4>2. Good(e, {}) /\ Readied(d, e, {p})
        <5>1. Good(Ready(d, p), {} \ {p}) /\ Readied(d, Ready(d, p), {p})
          BY <1>1, <4>1, ReadyGood
        <5>2. {} \ {p} = {} /\ e = Ready(d, p)
          BY <3>1
        <5>3. QED  BY <5>1, <5>2
      <4>3. e.rdy # <<>>
        <5> HIDE DEF e
        <5>1. e.rdy \in Seq(Pids) /\ p \in ToSet(e.rdy)
          BY <4>2, DispFields DEF Readied, Good
        <5>2. QED  BY <5>1, SetOfList
      <4>4. \A q \in Pids : d.pstate[q] = "curr" => q = p
        BY DEF Good
      <4> HIDE DEF e, p
      <4>5. /\ \A q \in Pids : e.pstate[q] = IF q = p THEN "ready" ELSE d.pstate[q]
            /\ SameClockq(d, e) /\ e.pprio = d.pprio
        BY <4>2, <1>1 DEF Readied
      <4>6. d.pstate[p] = "curr"
        BY <3>1
      <4>7. QED  BY <4>2, <4>3, <4>4, <4>5, <4>6, <1>1
    <3>2. CASE ~running
      <4>1. e = d
        BY <3>2
      <4>2. \A q \in Pids : d.pstate[q] # "curr"
        BY <3>2 DEF Good
      <4>3. NULLPROC \in ToSet(d.rdy)
        BY <4>2, PidsFacts DEF Good, Matches
      <4>4. d.rdy # <<>>
        BY <4>3, <1>1, DispFields, SetOfList
      <4>5. SameClockq(d, d)
        BY DEF SameClockq
      <4>6. QED  BY <4>1, <4>2, <4>4, <4>5
    <3>3. QED  BY <3>1, <3>2
  <2> HIDE DEF e
  <2>3. /\ e \in DispType /\ e.rdy \in Seq(Pids) /\ IsInjective(e.rdy)
        /\ e.pstate \in [Pids -> States]
    BY <2>2, DispFields DEF Good
  <2>4. /\ Front(e.rdy) \in Seq(Pids) /\ IsInjective(Front(e.rdy))
        /\ next \in Pids /\ next \in ToSet(e.rdy)
        /\ ToSet(Front(e.rdy)) = ToSet(e.rdy) \ {next}
    BY <2>2, <2>3, FrontLast
  <2>5. e.pstate[next] = "ready"
    BY <2>2, <2>4 DEF Good, Matches
  <2> DEFINE ps == [e.pstate EXCEPT ![next] = "curr"]
  <2>6. /\ ps \in [Pids -> States] /\ ps[next] = "curr"
        /\ \A q \in Pids : q # next => ps[q] = e.pstate[q]
    BY <2>3, <2>4 DEF States
  <2> HIDE DEF next, ps
  <2>7. /\ f \in DispType /\ f.rdy = Front(e.rdy) /\ f.pstate = ps /\ f.currpid = next
        /\ f.pprio = e.pprio /\ f.qkey = e.qkey /\ SameClockq(e, f)
    <3>1. f = [e EXCEPT !.rdy = Front(e.rdy), !.pstate = ps, !.currpid = next, !.preempt = Quantum]
      BY DEF ps
    <3>2. QED  BY <2>3, <2>4, <2>6, <3>1, QuantumInt DEF DispType, SameClockq
  <2> HIDE DEF f
  <2>8. f.slp = e.slp
    BY <2>7 DEF SameClockq
  <2>9. \A q \in Pids : Matches(f, q)
    <3>1. TAKE q \in Pids
    <3>2. Matches(e, q)
      BY <2>2 DEF Good
    <3>3. CASE q = next
      BY <2>4, <2>5, <2>6, <2>7, <2>8, <3>2, <3>3 DEF Matches, Sleeping
    <3>4. CASE q # next
      BY <2>4, <2>6, <2>7, <2>8, <3>2, <3>4 DEF Matches
    <3>5. QED  BY <3>3, <3>4
  <2>10. \A q \in Pids : f.pstate[q] = "curr" => q = f.currpid
    BY <2>2, <2>6, <2>7
  <2>11. f.pstate[NULLPROC] \in {"curr", "ready"}
    BY <2>2, <2>6, <2>7, PidsFacts DEF Good
  <2>16. Ordered(f) /\ Highest(f)
    <3>1. /\ Ascends(e.rdy, e.pprio) /\ \A q \in ToSet(e.rdy) : e.qkey[q] = e.pprio[q]
          /\ e.pprio \in [Pids -> Int]
      BY <2>2, <2>3, DispFields DEF Good, Ordered
    <3>2. /\ Ascends(Front(e.rdy), e.pprio)
          /\ \A q \in ToSet(e.rdy) : e.pprio[q] <= e.pprio[Last(e.rdy)]
      BY <2>2, <2>3, <3>1, LastAscends
    <3>3. \A q \in ToSet(Front(e.rdy)) : q \in ToSet(e.rdy)
      BY <2>4
    <3>4. QED  BY <2>7, <3>1, <3>2, <3>3 DEF Ordered, Highest, next
  <2>12. Good(f, {})
    BY <2>2, <2>4, <2>7, <2>8, <2>9, <2>10, <2>11, <2>16 DEF Good
  <2>13. SameOthers(d, f) /\ SameClockq(d, f)
    <3>1. SameClockq(d, f) /\ f.pprio = d.pprio
      BY <2>2, <2>7 DEF SameClockq
    <3>2. ASSUME NEW q \in Pids
          PROVE  IF d.pstate[q] \in {"curr", "ready"}
                 THEN f.pstate[q] \in {"curr", "ready"} ELSE f.pstate[q] = d.pstate[q]
      <4>1. CASE q = next
        <5>1. e.pstate[q] = "ready" /\ f.pstate[q] = "curr"
          BY <2>5, <2>6, <2>7, <4>1
        <5>2. QED  BY <2>2, <5>1
      <4>2. CASE q # next
        <5>1. f.pstate[q] = e.pstate[q]
          BY <2>6, <2>7, <4>2
        <5>2. QED  BY <2>2, <5>1
      <4>3. QED  BY <4>1, <4>2
    <3>3. QED  BY <3>1, <3>2 DEF SameOthers
  <2>14. HasCurrent(f)
    BY <2>6, <2>7 DEF HasCurrent
  <2>15. QED  BY <2>1, <2>12, <2>13, <2>14, <2>16
<1>4. QED  BY <1>2, <1>3

LEMMA SetSltopType ==
  ASSUME NEW d \in DispType, DelaysGood(d)
  PROVE  SetSltop(d) \in DispType /\ SltopGood(SetSltop(d)) /\ OnlySltop(d, SetSltop(d))
<1> DEFINE e == SetSltop(d)
<1>1. CASE d.slp = <<>>
  <2>1. e = [d EXCEPT !.slnempty = FALSE]
    BY <1>1 DEF SetSltop
  <2>2. QED  BY <1>1, <2>1 DEF SltopGood, DelaysGood, DispType, OnlySltop
<1>2. CASE d.slp # <<>>
  <2>1. Head(d.slp) \in Pids
    BY <1>2, DispFields, HeadTailProperties
  <2>2. e = [d EXCEPT !.slnempty = TRUE, !.sltop = Head(d.slp)]
    BY <1>2 DEF SetSltop
  <2>3. QED  BY <1>2, <2>1, <2>2 DEF SltopGood, DelaysGood, DispType, OnlySltop
<1>3. QED  BY <1>1, <1>2

LEMMA SetSltopGood ==
  ASSUME NEW X, NEW d, Good(d, X), DelaysGood(d)
  PROVE  Good(SetSltop(d), X) /\ SltopGood(SetSltop(d)) /\ OnlySltop(d, SetSltop(d))
<1> DEFINE e == SetSltop(d)
<1>1. d \in DispType
  BY DEF Good
<1>2. e \in DispType /\ SltopGood(e) /\ OnlySltop(d, e)
  BY <1>1, SetSltopType
<1> HIDE DEF e
<1>3. Good(e, X)
  <2>1. Ordered(e)
    BY <1>2, OrderedKept DEF Good, OnlySltop
  <2>2. QED  BY <1>2, <2>1 DEF Good, Matches, Loose, OnlySltop
<1>4. QED  BY <1>2, <1>3 DEF e

\* The recursive function of ReadyAll exists, and so satisfies its equation.
LEMMA ReadyAllDef ==
  ASSUME NEW d, NEW S, NEW l \in Seq(S)
  PROVE  \E f : /\ ReadyAll(d, l) = f[Len(l)]
                /\ f = [i \in 0 .. Len(l) |-> IF i = 0 THEN d ELSE Ready(f[i-1], l[i])]
<1> DEFINE Fits(f, n) == f = [i \in 0 .. n |-> IF i = 0 THEN d ELSE Ready(f[i-1], l[i])]
           T == {n \in Nat : ~ \E f : Fits(f, n)}
<1>1. T = {}
  <2>1. SUFFICES ASSUME T # {} PROVE FALSE
    OBVIOUS
  <2>2. PICK m \in T : \A n \in T : m <= n
    <3>1. Min(T) \in T /\ \A n \in T : Min(T) <= n
      BY <2>1, MinNat
    <3>2. QED  BY <3>1
  <2>3. m \in Nat /\ ~ \E f : Fits(f, m)
    BY <2>2
  <2>4. CASE m = 0
    <3> DEFINE g == [i \in 0 .. 0 |-> d]
    <3>1. Fits(g, 0)
      OBVIOUS
    <3>2. QED  BY <2>3, <2>4, <3>1
  <2>5. CASE m > 0
    <3>1. m - 1 \in Nat /\ m - 1 \notin T
      <4> HIDE DEF T, Fits
      <4>1. m - 1 \in Nat /\ ~(m <= m - 1)
        BY <2>3, <2>5
      <4>2. QED  BY <2>2, <4>1
    <3>2. PICK g : Fits(g, m - 1)
      BY <3>1
    <3> DEFINE h == [i \in 0 .. m |-> IF i = m THEN Ready(g[m-1], l[m]) ELSE g[i]]
    <3>3. \A i \in 0 .. m - 1 : g[i] = IF i = 0 THEN d ELSE Ready(g[i-1], l[i])
      BY <3>2
    <3>4. \A i \in 0 .. m : h[i] = IF i = 0 THEN d ELSE Ready(h[i-1], l[i])
      <4>1. TAKE i \in 0 .. m
      <4>2. CASE i = m
        <5>1. h[i] = Ready(g[m-1], l[m]) /\ h[m-1] = g[m-1]
          BY <2>3, <2>5, <4>2
        <5>2. QED  BY <2>5, <4>2, <5>1
      <4>3. CASE i < m
        <5>1. h[i] = g[i] /\ i \in 0 .. m - 1
          BY <2>3, <4>3
        <5>2. i # 0 => h[i-1] = g[i-1]
          BY <2>3, <4>3
        <5>3. QED  BY <3>3, <5>1, <5>2
      <4>4. QED  BY <2>3, <4>2, <4>3
    <3>5. h = [i \in 0 .. m |-> h[i]]
      OBVIOUS
    <3> HIDE DEF h
    <3>6. Fits(h, m)
      BY <3>4, <3>5
    <3>7. QED  BY <2>3, <3>6
  <2>6. QED  BY <2>3, <2>4, <2>5
<1> DEFINE F == CHOOSE f : Fits(f, Len(l))
<1>2. Len(l) \in Nat
  OBVIOUS
<1>3. Fits(F, Len(l))
  BY <1>1, <1>2
<1>4. ReadyAll(d, l) = F[Len(l)]
  BY DEF ReadyAll
<1>5. QED  BY <1>3, <1>4

\* ready for a list of loose processes: all of them are ready, nobody else changes.
LEMMA ReadyAllGood ==
  ASSUME NEW X, NEW d, Good(d, X), NEW l \in Seq(Pids), IsInjective(l),
         \A p \in ToSet(l) : Loose(d, p), X \subseteq ToSet(l)
  PROVE  Good(ReadyAll(d, l), {}) /\ Readied(d, ReadyAll(d, l), ToSet(l))
<1>1. PICK f : /\ ReadyAll(d, l) = f[Len(l)]
               /\ f = [i \in 0 .. Len(l) |-> IF i = 0 THEN d ELSE Ready(f[i-1], l[i])]
  BY ReadyAllDef
<1>2. f[0] = d /\ \A i \in 1 .. Len(l) : f[i] = Ready(f[i-1], l[i])
  <2>1. 0 \in 0 .. Len(l) /\ \A i \in 1 .. Len(l) : i \in 0 .. Len(l) /\ i # 0
    OBVIOUS
  <2>2. QED  BY ONLY <1>1, <2>1
<1> DEFINE Done(i) == {l[j] : j \in 1 .. i}
           Ok(i) == Good(f[i], X \ Done(i)) /\ Readied(d, f[i], Done(i))
           T == {i \in 0 .. Len(l) : ~Ok(i)}
<1>3. Ok(0)
  <2>1. Done(0) = {} /\ X \ Done(0) = X
    OBVIOUS
  <2>2. d.pstate \in [Pids -> States]
    BY DispFields DEF Good
  <2> HIDE DEF Done
  <2>3. Readied(d, d, Done(0))
    BY <2>1, <2>2 DEF Readied, SameClockq
  <2>4. QED  BY <1>2, <2>1, <2>3
<1>4. ASSUME NEW i \in 1 .. Len(l), Ok(i - 1) PROVE Ok(i)
  <2> DEFINE c == f[i-1]
             p == l[i]
  <2>1. p \in Pids /\ p \in ToSet(l) /\ p \notin Done(i - 1)
    <3>1. p \in Pids /\ p \in ToSet(l)
      BY SetOfList
    <3>2. \A j \in 1 .. i - 1 : l[j] # p
      BY DistinctEntries
    <3>3. QED  BY <3>1, <3>2
  <2>2. Done(i) = Done(i - 1) \cup {p}
    <3>1. 1 .. i = (1 .. i - 1) \cup {i}
      OBVIOUS
    <3>2. QED  BY <3>1
  <2> HIDE DEF Done, p
  <2>3. Good(c, X \ Done(i - 1)) /\ Readied(d, c, Done(i - 1))
    BY <1>4
  <2>4. Loose(d, p)
    BY <2>1
  <2>5. f[i] = Ready(c, p)
    BY <1>2 DEF p
  <2> HIDE DEF c
  <2>6. Loose(c, p)
    BY <2>1, <2>3, <2>4 DEF Loose, Readied, SameClockq
  <2>7. Good(f[i], (X \ Done(i - 1)) \ {p}) /\ Readied(c, f[i], {p})
    <3> DEFINE Y == X \ Done(i - 1)
    <3>1. Good(c, Y) /\ p \in Pids
      BY <2>1, <2>3
    <3> HIDE DEF Y
    <3>2. Good(Ready(c, p), Y \ {p}) /\ Readied(c, Ready(c, p), {p})
      BY <2>6, <3>1, ReadyGood
    <3>3. QED  BY <2>5, <3>2 DEF Y
  <2>8. (X \ Done(i - 1)) \ {p} = X \ Done(i)
    BY <2>2
  <2>9. Readied(d, f[i], Done(i))
    BY <2>2, <2>3, <2>7 DEF Readied, SameClockq
  <2>10. QED  BY <2>7, <2>8, <2>9
<1>5. T = {}
  <2> HIDE DEF Ok
  <2>1. SUFFICES ASSUME T # {} PROVE FALSE
    OBVIOUS
  <2>2. T \subseteq Nat
    OBVIOUS
  <2>3. Min(T) \in T /\ \A i \in T : Min(T) <= i
    BY <2>1, <2>2, MinNat
  <2> DEFINE m == Min(T)
  <2>4. m \in 0 .. Len(l) /\ ~Ok(m)
    BY <2>3
  <2> HIDE DEF m
  <2>5. m \in 1 .. Len(l) /\ m - 1 \in 0 .. Len(l)
    BY <1>3, <2>4
  <2>6. ~Ok(m - 1)
    BY <1>4, <2>4, <2>5
  <2>7. m - 1 \in T
    BY <2>5, <2>6
  <2> HIDE DEF T
  <2>8. m <= m - 1
    BY <2>3, <2>7 DEF m
  <2>9. QED  BY <2>5, <2>8
<1>6. Ok(Len(l))
  <2> HIDE DEF Ok
  <2>1. Len(l) \in 0 .. Len(l)
    OBVIOUS
  <2>2. QED  BY <1>5, <2>1
<1>7. Done(Len(l)) = ToSet(l)
  <2>1. ToSet(l) = {l[j] : j \in 1 .. Len(l)}
    BY DEF ToSet
  <2>2. QED  BY <2>1
<1> HIDE DEF Done
<1>8. X \ Done(Len(l)) = {}
  BY <1>7
<1>9. QED  BY <1>1, <1>6, <1>7, <1>8

\* A process that is on no list may take any state that calls for none.
LEMMA SetLooseGood ==
  ASSUME NEW d, NEW p \in Pids \ {NULLPROC}, NEW X, X \subseteq {p}, Good(d, X), Loose(d, p),
         NEW st \in States \ {"curr", "ready", "sleep", "trecv"}
  PROVE  Good([d EXCEPT !.pstate[p] = st], {})
<1> DEFINE ps == [d.pstate EXCEPT ![p] = st]
           e == [d EXCEPT !.pstate = ps]
<1>1. d \in DispType /\ d.pstate \in [Pids -> States]
  BY DispFields DEF Good
<1>2. ps \in [Pids -> States] /\ \A q \in Pids : ps[q] = IF q = p THEN st ELSE d.pstate[q]
  BY <1>1
<1> HIDE DEF ps
<1>3. /\ e \in DispType /\ e.pstate = ps /\ e.rdy = d.rdy /\ e.slp = d.slp
      /\ e.currpid = d.currpid /\ e.pprio = d.pprio /\ e.qkey = d.qkey
  BY <1>1, <1>2 DEF DispType
<1>4. [d EXCEPT !.pstate[p] = st] = e
  BY DEF ps
<1> HIDE DEF e
<1>5. \A q \in Pids : Matches(e, q)
  <2>1. TAKE q \in Pids
  <2>2. CASE q = p
    BY <1>2, <1>3, <2>2 DEF Matches, Loose, Sleeping
  <2>3. CASE q # p
    <3>1. Matches(d, q)
      BY <2>3 DEF Good
    <3>2. QED  BY <1>2, <1>3, <2>3, <3>1 DEF Matches
  <2>4. QED  BY <2>2, <2>3
<1>6. \A q \in Pids : e.pstate[q] = "curr" => q = e.currpid
  BY <1>2, <1>3 DEF Good
<1>7. e.pstate[NULLPROC] \in {"curr", "ready"}
  BY <1>2, <1>3, PidsFacts DEF Good
<1>8. Ordered(e)
  BY <1>3, OrderedKept DEF Good
<1>9. QED  BY <1>3, <1>4, <1>5, <1>6, <1>7, <1>8 DEF Good

LEMMA DeleteList ==
  ASSUME NEW l \in Seq(Pids), IsInjective(l), NEW p \in ToSet(l)
  PROVE  /\ Delete(l, p) \in Seq(Pids) /\ IsInjective(Delete(l, p))
         /\ ToSet(Delete(l, p)) = ToSet(l) \ {p} /\ Len(Delete(l, p)) = Len(l) - 1
         /\ \A key : Ascends(l, key) => Ascends(Delete(l, p), key)
<1>1. \E i \in 1 .. Len(l) : l[i] = p
  BY SetOfList
<1> DEFINE k == CHOOSE i \in 1 .. Len(l) : l[i] = p
<1>2. k \in 1 .. Len(l) /\ l[k] = p
  BY <1>1
<1>3. Delete(l, p) = RemoveAt(l, k)
  BY <1>1 DEF Delete
<1> HIDE DEF k
<1>4. ASSUME NEW key, Ascends(l, key) PROVE Ascends(RemoveAt(l, k), key)
  BY <1>2, <1>4, RemoveAtAscends
<1>5. /\ RemoveAt(l, k) \in Seq(Pids) /\ IsInjective(RemoveAt(l, k))
      /\ ToSet(RemoveAt(l, k)) = ToSet(l) \ {p} /\ Len(RemoveAt(l, k)) = Len(l) - 1
  BY <1>2, RemoveAtDistinct
<1>6. QED  BY <1>3, <1>4, <1>5

\* A ready process is taken off the ready list and given a state that calls for none.
LEMMA OffReadyGood ==
  ASSUME NEW d, Good(d, {}), NEW p \in Pids \ {NULLPROC}, d.pstate[p] = "ready",
         NEW st \in States \ {"curr", "ready", "sleep", "trecv"}
  PROVE  LET e == [d EXCEPT !.pstate[p] = st, !.rdy = Delete(@, p)] IN
         /\ Good(e, {}) /\ ToSet(e.rdy) \subseteq ToSet(d.rdy)
         /\ [d EXCEPT !.rdy = Delete(@, p)] \in DispType
         /\ Good([d EXCEPT !.rdy = Delete(@, p)], {p})
<1> DEFINE r == Delete(d.rdy, p)
           b == [d EXCEPT !.rdy = r]
<1>1. d \in DispType /\ d.rdy \in Seq(Pids)
  BY DispFields DEF Good
<1>2. p \in ToSet(d.rdy) /\ p \notin ToSet(d.slp)
  BY DEF Good, Matches, Sleeping
<1>3. /\ r \in Seq(Pids) /\ IsInjective(r) /\ ToSet(r) = ToSet(d.rdy) \ {p}
      /\ Ascends(r, d.pprio)
  BY <1>1, <1>2, DeleteList DEF Good, Ordered
<1> HIDE DEF r
<1>4. /\ b \in DispType /\ b.rdy = r /\ b.slp = d.slp /\ b.pstate = d.pstate
      /\ b.currpid = d.currpid /\ b.pprio = d.pprio /\ b.qkey = d.qkey
  BY <1>1, <1>3 DEF DispType
<1>5. [d EXCEPT !.rdy = Delete(@, p)] = b
  BY DEF r
<1>6. [d EXCEPT !.pstate[p] = st, !.rdy = Delete(@, p)] = [b EXCEPT !.pstate[p] = st]
  BY <1>1 DEF r, DispType
<1> HIDE DEF b
<1>7. Loose(b, p)
  BY <1>2, <1>3, <1>4 DEF Loose
<1>8. Good(b, {p})
  <2>1. \A q \in Pids \ {p} : Matches(b, q)
    BY <1>3, <1>4 DEF Good, Matches
  <2>2. Ordered(b)
    BY <1>3, <1>4 DEF Good, Ordered
  <2>3. QED  BY <1>3, <1>4, <1>7, <2>1, <2>2 DEF Good
<1> DEFINE a == [b EXCEPT !.pstate[p] = st]
<1>9. a.rdy = r
  BY <1>4 DEF DispType
<1>10. Good(a, {})
  <2>1. {p} \subseteq {p}
    OBVIOUS
  <2>2. QED  BY <1>7, <1>8, <2>1, SetLooseGood
<1>11. [d EXCEPT !.pstate[p] = st, !.rdy = Delete(@, p)] = a
  BY <1>6
<1> HIDE DEF a
<1>12. QED  BY <1>3, <1>4, <1>5, <1>8, <1>9, <1>10, <1>11

\* The recursive function of Remaining exists, satisfies its equation and is integral.
LEMMA RemainingInt ==
  ASSUME NEW l \in Seq(Pids), NEW key \in [Pids -> Int], NEW x \in Int
  PROVE  /\ \A i \in 1 .. Len(l) + 1 : Remaining(l, key, x)[i] \in Int
         /\ \A i \in 1 .. Len(l) + 1 : Remaining(l, key, x)[i] =
              IF i = 1 THEN x ELSE Remaining(l, key, x)[i-1] - key[l[i-1]]
<1> DEFINE Fits(f, n) == f = [i \in 1 .. n + 1 |-> IF i = 1 THEN x ELSE f[i-1] - key[l[i-1]]]
           T == {n \in Nat : ~ \E f : Fits(f, n)}
<1>1. T = {}
  <2>1. SUFFICES ASSUME T # {} PROVE FALSE
    OBVIOUS
  <2>2. PICK m \in T : \A n \in T : m <= n
    <3>1. Min(T) \in T /\ \A n \in T : Min(T) <= n
      BY <2>1, MinNat
    <3>2. QED  BY <3>1
  <2>3. m \in Nat /\ ~ \E f : Fits(f, m)
    BY <2>2
  <2>4. CASE m = 0
    <3> DEFINE g == [i \in 1 .. 0 + 1 |-> x]
    <3>1. Fits(g, 0)
      OBVIOUS
    <3>2. QED  BY <2>3, <2>4, <3>1
  <2>5. CASE m > 0
    <3>1. m - 1 \in Nat /\ m - 1 \notin T
      <4> HIDE DEF T, Fits
      <4>1. m - 1 \in Nat /\ ~(m <= m - 1)
        BY <2>3, <2>5
      <4>2. QED  BY <2>2, <4>1
    <3>2. PICK g : Fits(g, m - 1)
      BY <3>1
    <3> DEFINE h == [i \in 1 .. m + 1 |-> IF i = m + 1 THEN g[m] - key[l[m]] ELSE g[i]]
    <3>3. \A i \in 1 .. m : g[i] = IF i = 1 THEN x ELSE g[i-1] - key[l[i-1]]
      BY <2>3, <3>2
    <3>4. \A i \in 1 .. m + 1 : h[i] = IF i = 1 THEN x ELSE h[i-1] - key[l[i-1]]
      <4>1. TAKE i \in 1 .. m + 1
      <4>2. CASE i = m + 1
        <5>1. h[i] = g[m] - key[l[m]] /\ h[m] = g[m] /\ i - 1 = m
          BY <2>3, <2>5, <4>2
        <5>2. QED  BY <2>5, <4>2, <5>1
      <4>3. CASE i < m + 1
        <5>1. h[i] = g[i] /\ i \in 1 .. m
          BY <2>3, <4>3
        <5>2. i # 1 => h[i-1] = g[i-1]
          BY <2>3, <4>3
        <5>3. QED  BY <3>3, <5>1, <5>2
      <4>4. QED  BY <2>3, <4>2, <4>3
    <3>5. h = [i \in 1 .. m + 1 |-> h[i]]
      OBVIOUS
    <3> HIDE DEF h
    <3>6. Fits(h, m)
      BY <3>4, <3>5
    <3>7. QED  BY <2>3, <3>6
  <2>6. QED  BY <2>3, <2>4, <2>5
<1> DEFINE F == CHOOSE f : Fits(f, Len(l))
<1>2. Len(l) \in Nat
  OBVIOUS
<1>3. Fits(F, Len(l))
  <2> HIDE DEF Fits
  <2>1. \E f : Fits(f, Len(l))
    BY <1>1, <1>2
  <2>2. QED  BY <2>1
<1>4. Remaining(l, key, x) = F
  BY DEF Remaining
<1>5. \A i \in 1 .. Len(l) + 1 : F[i] = IF i = 1 THEN x ELSE F[i-1] - key[l[i-1]]
  BY <1>3
<1> HIDE DEF F
<1> DEFINE U == {i \in 1 .. Len(l) + 1 : F[i] \notin Int}
<1>6. U = {}
  <2>1. SUFFICES ASSUME U # {} PROVE FALSE
    OBVIOUS
  <2>2. U \subseteq Nat
    OBVIOUS
  <2>3. Min(U) \in U /\ \A i \in U : Min(U) <= i
    BY <2>1, <2>2, MinNat
  <2> DEFINE m == Min(U)
  <2>4. m \in 1 .. Len(l) + 1 /\ F[m] \notin Int
    BY <2>3
  <2> HIDE DEF m
  <2>5. m > 1
    BY <1>5, <2>4
  <2>6. m - 1 \in 1 .. Len(l) /\ ~(m <= m - 1)
    BY <2>4, <2>5
  <2>7. m - 1 \notin U
    <3> HIDE DEF U
    <3>1. QED  BY <2>3, <2>6 DEF m
  <2>8. F[m-1] \in Int
    BY <2>6, <2>7
  <2>9. l[m-1] \in Pids
    BY <2>6
  <2>10. key[l[m-1]] \in Int
    BY <2>9
  <2>11. F[m] = F[m-1] - key[l[m-1]]
    BY <1>5, <2>4, <2>5
  <2>12. QED  BY <2>4, <2>8, <2>10, <2>11
<1>7. QED  BY <1>4, <1>5, <1>6

LEMMA DeltaPosRange ==
  ASSUME NEW l \in Seq(Pids), NEW key \in [Pids -> Int], NEW x \in Int
  PROVE  DeltaPos(l, key, x) \in 1 .. Len(l) + 1
<1> DEFINE rem == Remaining(l, key, x)
           I == {i \in 1 .. Len(l) : key[l[i]] >= rem[i]}
<1>1. DeltaPos(l, key, x) = IF I = {} THEN Len(l) + 1 ELSE Min(I)
  BY DEF DeltaPos
<1>2. I \subseteq 1 .. Len(l) /\ I \subseteq Nat
  OBVIOUS
<1> HIDE DEF I
<1>3. CASE I = {}
  BY <1>1, <1>3
<1>4. CASE I # {}
  <2>1. Min(I) \in I
    BY <1>2, <1>4, MinNat
  <2>2. DeltaPos(l, key, x) = Min(I)
    BY <1>1, <1>4
  <2>3. DeltaPos(l, key, x) \in 1 .. Len(l)
    BY <1>2, <2>1, <2>2
  <2>4. QED  BY <2>3
<1>5. QED  BY <1>3, <1>4

\* insertd's search stops before the delay is used up, and at a key that is not smaller.
LEMMA DeltaPosKeys ==
  ASSUME NEW l \in Seq(Pids), NEW key \in [Pids -> Int], NEW x \in Nat
  PROVE  LET i == DeltaPos(l, key, x)
             left == Remaining(l, key, x)[i]
         IN  left \in Nat /\ (i <= Len(l) => key[l[i]] >= left)
<1> DEFINE rem == Remaining(l, key, x)
           I == {i \in 1 .. Len(l) : key[l[i]] >= rem[i]}
           k == DeltaPos(l, key, x)
<1>1. k = IF I = {} THEN Len(l) + 1 ELSE Min(I)
  BY DEF DeltaPos
<1>2. k \in 1 .. Len(l) + 1
  BY DeltaPosRange
<1>3. /\ \A i \in 1 .. Len(l) + 1 : rem[i] \in Int
      /\ \A i \in 1 .. Len(l) + 1 : rem[i] = IF i = 1 THEN x ELSE rem[i-1] - key[l[i-1]]
  BY RemainingInt
<1> HIDE DEF rem, k
<1>4. I # {} => k \in I /\ \A i \in I : k <= i
  <2>1. I \subseteq Nat
    OBVIOUS
  <2> HIDE DEF I
  <2>2. QED  BY <1>1, <2>1, MinNat
<1>5. \A i \in 1 .. k - 1 : i \notin I
  <2>1. TAKE i \in 1 .. k - 1
  <2> HIDE DEF I
  <2>2. QED  BY <1>2, <1>4
<1>6. k <= Len(l) => key[l[k]] >= rem[k]
  <2>1. ASSUME k <= Len(l) PROVE k \in I
    <3> HIDE DEF I
    <3>1. I # {}
      BY <1>1, <1>2, <2>1
    <3>2. QED  BY <1>4, <3>1
  <2>2. QED  BY <2>1
<1>7. rem[k] >= 0
  <2>1. CASE k = 1
    BY <1>3, <2>1
  <2>2. CASE k > 1
    <3>1. k - 1 \in 1 .. k - 1 /\ k - 1 \in 1 .. Len(l)
      BY <1>2, <2>2
    <3>2. ~(key[l[k-1]] >= rem[k-1])
      BY <1>5, <3>1
    <3>3. key[l[k-1]] \in Int /\ rem[k-1] \in Int /\ rem[k] = rem[k-1] - key[l[k-1]]
      BY <1>2, <1>3, <2>2, <3>1
    <3>4. QED  BY <3>2, <3>3
  <2>3. QED  BY <1>2, <2>1, <2>2
<1>8. rem[k] \in Nat
  BY <1>2, <1>3, <1>7
<1>9. QED  BY <1>6, <1>8 DEF k, rem

------------------------------------------------------------------------------
(* Delta lists: due[p] is what the keys up to p's come to. *)

Before(l, due, i) == IF i = 1 THEN 0 ELSE due[l[i-1]]
Sums(l, key, due) == \A i \in 1 .. Len(l) : key[l[i]] = due[l[i]] - Before(l, due, i)

\* What was due under the list and keys of d still is, of those e has on its list.
DuesKept(d, e) ==
  /\ ToSet(e.slp) \subseteq ToSet(d.slp)
  /\ \A due \in [Pids -> Int] : Sums(d.slp, d.qkey, due) => Sums(e.slp, e.qkey, due)

LEMMA SameDues ==
  ASSUME NEW d, NEW e, d.slp \in Seq(Pids), SameClockq(d, e)
  PROVE  DuesKept(d, e)
<1>1. e.slp = d.slp /\ \A i \in 1 .. Len(d.slp) : e.qkey[d.slp[i]] = d.qkey[d.slp[i]]
  BY SetOfList DEF SameClockq
<1>2. QED  BY <1>1 DEF DuesKept, Sums

LEMMA BeforeInt ==
  ASSUME NEW l \in Seq(Pids), NEW due \in [Pids -> Int], NEW i \in 1 .. Len(l) + 1
  PROVE  Before(l, due, i) \in Int
<1>1. CASE i = 1
  BY <1>1 DEF Before
<1>2. CASE i # 1
  <2>1. l[i-1] \in Pids
    BY <1>2
  <2>2. QED  BY <1>2, <2>1 DEF Before
<1>3. QED  BY <1>1, <1>2

\* What insertd has left of x at a position is x less what the keys before it come to.
LEMMA RemainingDue ==
  ASSUME NEW l \in Seq(Pids), NEW key \in [Pids -> Int], NEW due \in [Pids -> Int],
         Sums(l, key, due), NEW x \in Int, NEW k \in 1 .. Len(l) + 1
  PROVE  Remaining(l, key, x)[k] = x - Before(l, due, k)
<1> DEFINE rem == Remaining(l, key, x)
           U == {i \in 1 .. Len(l) + 1 : rem[i] # x - Before(l, due, i)}
<1>1. \A i \in 1 .. Len(l) + 1 : rem[i] = IF i = 1 THEN x ELSE rem[i-1] - key[l[i-1]]
  BY RemainingInt
<1> HIDE DEF rem
<1>2. U = {}
  <2>1. SUFFICES ASSUME U # {} PROVE FALSE
    OBVIOUS
  <2>2. U \subseteq Nat
    OBVIOUS
  <2>3. PICK m \in U : \A i \in U : m <= i
    <3> HIDE DEF U
    <3>1. QED  BY <2>1, <2>2, MinNat
  <2>4. m \in 1 .. Len(l) + 1 /\ rem[m] # x - Before(l, due, m)
    BY <2>3
  <2>5. m # 1
    BY <1>1, <2>4 DEF Before
  <2>6. m - 1 \in 1 .. Len(l) /\ ~(m <= m - 1) /\ l[m-1] \in Pids
    BY <2>4, <2>5
  <2>7. m - 1 \notin U
    <3> HIDE DEF U
    <3>1. QED  BY <2>3, <2>6
  <2>8. rem[m-1] = x - Before(l, due, m - 1)
    BY <2>6, <2>7
  <2>9. key[l[m-1]] = due[l[m-1]] - Before(l, due, m - 1)
    BY <2>6 DEF Sums
  <2>10. Before(l, due, m) = due[l[m-1]] /\ Before(l, due, m - 1) \in Int /\ due[l[m-1]] \in Int
    BY <2>5, <2>6, BeforeInt DEF Before
  <2>11. rem[m] = rem[m-1] - key[l[m-1]]
    BY <1>1, <2>4, <2>5
  <2>12. QED  BY <2>4, <2>8, <2>9, <2>10, <2>11
<1>3. QED  BY <1>2 DEF rem

\* A new entry takes what is left at its position from its successor.
LEMMA InsertSums ==
  ASSUME NEW l \in Seq(Pids), IsInjective(l), NEW key \in [Pids -> Int], NEW due \in [Pids -> Int],
         Sums(l, key, due), NEW p \in Pids, p \notin ToSet(l), NEW k \in 1 .. Len(l) + 1, NEW n \in Int,
         NEW left, left = n - Before(l, due, k), NEW key2, key2[p] = left,
         \A q \in ToSet(l) : key2[q] = IF k <= Len(l) /\ q = l[k] THEN key[q] - left ELSE key[q]
  PROVE  Sums(InsertAt(l, k, p), key2, [due EXCEPT ![p] = n])
<1> DEFINE r == InsertAt(l, k, p)
           d2 == [due EXCEPT ![p] = n]
<1>1. /\ Len(r) = Len(l) + 1 /\ \A i \in 1 .. k - 1 : r[i] = l[i]
      /\ r[k] = p /\ \A i \in k + 1 .. Len(l) + 1 : r[i] = l[i - 1]
  BY InsertAtList
<1> HIDE DEF r
<1>2. d2[p] = n /\ \A i \in 1 .. Len(l) : l[i] \in Pids /\ l[i] # p /\ l[i] \in ToSet(l) /\ d2[l[i]] = due[l[i]]
  BY SetOfList
<1>3. \A i, j \in 1 .. Len(l) : l[i] = l[j] => i = j
  BY DistinctEntries
<1> HIDE DEF d2
<1>4. ASSUME NEW i \in 1 .. Len(r) PROVE key2[r[i]] = d2[r[i]] - Before(r, d2, i)
  <2>1. CASE i < k
    <3>0. i \in 1 .. k - 1 /\ i \in 1 .. Len(l) /\ i # k /\ (k <= Len(l) => k \in 1 .. Len(l))
      BY <2>1
    <3>1. i \in 1 .. Len(l) /\ r[i] = l[i] /\ (k <= Len(l) => l[i] # l[k])
      BY <1>1, <1>3, <3>0
    <3>2. Before(r, d2, i) = Before(l, due, i)
      <4>1. i # 1 => i - 1 \in 1 .. Len(l) /\ i - 1 \in 1 .. k - 1
        BY ONLY <3>0
      <4>2. QED  BY <1>1, <1>2, <4>1 DEF Before
    <3>3. key2[l[i]] = key[l[i]] /\ d2[l[i]] = due[l[i]]
      BY <1>2, <3>1
    <3>4. QED  BY <3>1, <3>2, <3>3 DEF Sums
  <2>2. CASE i = k
    <3>1. Before(r, d2, i) = Before(l, due, k)
      <4>1. k # 1 => k - 1 \in 1 .. Len(l) /\ k - 1 \in 1 .. k - 1
        OBVIOUS
      <4>2. CASE k = 1
        BY <2>2, <4>2 DEF Before
      <4>3. CASE k # 1
        <5>1. r[k-1] = l[k-1] /\ d2[l[k-1]] = due[l[k-1]]
          BY <1>1, <1>2, <4>1, <4>3
        <5>2. QED  BY <2>2, <4>3, <5>1 DEF Before
      <4>4. QED  BY <4>2, <4>3
    <3>2. QED  BY <1>1, <1>2, <2>2, <3>1
  <2>3. CASE i = k + 1
    <3>1. k \in 1 .. Len(l) /\ r[i] = l[k] /\ i # 1 /\ i - 1 = k
      <4>1. k \in 1 .. Len(l) /\ i # 1 /\ i - 1 = k /\ i \in k + 1 .. Len(l) + 1
        BY <1>1, <2>3
      <4>2. r[i] = l[i-1]
        BY <1>1, <4>1
      <4>3. QED  BY <4>1, <4>2
    <3>2. Before(r, d2, i) = n
      BY <1>1, <1>2, <3>1 DEF Before
    <3>3. key2[l[k]] = key[l[k]] - left /\ d2[l[k]] = due[l[k]] /\ l[k] \in Pids
      BY <1>2, <3>1
    <3>4. key[l[k]] = due[l[k]] - Before(l, due, k) /\ Before(l, due, k) \in Int /\ due[l[k]] \in Int
      BY <3>1, <3>3, BeforeInt DEF Sums
    <3>5. QED  BY <3>1, <3>2, <3>3, <3>4
  <2>4. CASE i > k + 1
    <3>0. /\ i - 1 \in 1 .. Len(l) /\ i - 1 # k /\ i # 1 /\ i \in k + 1 .. Len(l) + 1
          /\ i - 2 \in 1 .. Len(l) /\ i - 1 # 1 /\ i - 1 - 1 = i - 2 /\ i - 1 \in k + 1 .. Len(l) + 1
          /\ (k <= Len(l) => k \in 1 .. Len(l))
      <4>1. Len(r) = Len(l) + 1 /\ Len(l) \in Nat
        BY <1>1
      <4>2. QED  BY ONLY <4>1, <2>4, i \in 1 .. Len(r), k \in 1 .. Len(l) + 1
    <3>1. r[i] = l[i-1] /\ r[i-1] = l[i-2] /\ (k <= Len(l) => l[i-1] # l[k])
      BY <1>1, <1>3, <3>0
    <3>2. Before(r, d2, i) = due[l[i-2]] /\ Before(l, due, i - 1) = due[l[i-2]]
      BY <1>2, <3>0, <3>1 DEF Before
    <3>3. key2[l[i-1]] = key[l[i-1]] /\ d2[l[i-1]] = due[l[i-1]]
      BY <1>2, <3>0, <3>1
    <3>4. QED  BY <3>0, <3>1, <3>2, <3>3 DEF Sums
  <2>5. QED  BY <1>1, <2>1, <2>2, <2>3, <2>4
<1>5. QED  BY <1>4 DEF Sums, r, d2

\* The successor of an entry that is taken out inherits its key.
LEMMA RemoveSums ==
  ASSUME NEW l \in Seq(Pids), IsInjective(l), NEW key \in [Pids -> Int], NEW due \in [Pids -> Int],
         Sums(l, key, due), NEW k \in 1 .. Len(l), NEW key2,
         \A q \in ToSet(l) : key2[q] = IF k < Len(l) /\ q = l[k+1] THEN key[q] + key[l[k]] ELSE key[q]
  PROVE  Sums(RemoveAt(l, k), key2, due)
<1> DEFINE r == RemoveAt(l, k)
<1>1. /\ Len(r) = Len(l) - 1 /\ \A i \in 1 .. k - 1 : r[i] = l[i]
      /\ \A i \in k .. Len(l) - 1 : r[i] = l[i + 1]
  BY RemoveAtList
<1> HIDE DEF r
<1>2. \A i \in 1 .. Len(l) : l[i] \in Pids /\ l[i] \in ToSet(l)
  BY SetOfList
<1>3. \A i, j \in 1 .. Len(l) : l[i] = l[j] => i = j
  BY DistinctEntries
<1>4. ASSUME NEW i \in 1 .. Len(r) PROVE key2[r[i]] = due[r[i]] - Before(r, due, i)
  <2>1. CASE i < k
    <3>0. /\ i \in 1 .. k - 1 /\ i \in 1 .. Len(l) /\ i # k + 1
          /\ (k < Len(l) => k + 1 \in 1 .. Len(l))
      <4>1. Len(r) = Len(l) - 1 /\ Len(l) \in Nat
        BY <1>1
      <4>2. QED  BY ONLY <4>1, <2>1, i \in 1 .. Len(r), k \in 1 .. Len(l)
    <3>1. i \in 1 .. Len(l) /\ r[i] = l[i] /\ (k < Len(l) => l[i] # l[k+1])
      BY <1>1, <1>3, <3>0
    <3>2. Before(r, due, i) = Before(l, due, i)
      <4>1. i # 1 => i - 1 \in 1 .. k - 1
        BY <2>1, <3>1
      <4>2. QED  BY <1>1, <4>1 DEF Before
    <3>3. key2[l[i]] = key[l[i]]
      BY <1>2, <3>1
    <3>4. QED  BY <3>1, <3>2, <3>3 DEF Sums
  <2>2. CASE i = k
    <3>0. /\ k < Len(l) /\ k + 1 \in 1 .. Len(l) /\ k + 1 # 1 /\ k + 1 - 1 = k
          /\ k \in k .. Len(l) - 1
      BY <1>1, <2>2
    <3>1. /\ k < Len(l) /\ k + 1 \in 1 .. Len(l) /\ k + 1 # 1 /\ k + 1 - 1 = k
          /\ r[i] = l[k+1]
      BY <1>1, <2>2, <3>0
    <3>2. Before(r, due, i) = Before(l, due, k)
      <4>1. k # 1 => k - 1 \in 1 .. k - 1
        OBVIOUS
      <4>2. QED  BY <1>1, <2>2, <4>1 DEF Before
    <3>3. key2[l[k+1]] = key[l[k+1]] + key[l[k]]
      BY <1>2, <3>1
    <3>4. key[l[k+1]] = due[l[k+1]] - due[l[k]] /\ key[l[k]] = due[l[k]] - Before(l, due, k)
      <4>1. /\ key[l[k+1]] = due[l[k+1]] - Before(l, due, k + 1)
            /\ key[l[k]] = due[l[k]] - Before(l, due, k)
        BY <3>1 DEF Sums
      <4>2. Before(l, due, k + 1) = due[l[k]]
        BY <3>1 DEF Before
      <4>3. QED  BY <4>1, <4>2
    <3>5. l[k] \in Pids /\ l[k+1] \in Pids /\ Before(l, due, k) \in Int
      <4>1. k \in 1 .. Len(l) + 1
        OBVIOUS
      <4>2. Before(l, due, k) \in Int
        BY <4>1, BeforeInt
      <4>3. QED  BY <3>1, <4>2
    <3>6. QED  BY <3>1, <3>2, <3>3, <3>4, <3>5
  <2>3. CASE i > k
    <3>0. /\ i + 1 \in 1 .. Len(l) /\ i + 1 # k + 1 /\ i # 1 /\ i + 1 # 1 /\ i \in 1 .. Len(l)
          /\ i + 1 - 1 = i /\ i \in k .. Len(l) - 1 /\ i - 1 \in k .. Len(l) - 1 /\ i - 1 + 1 = i
          /\ (k < Len(l) => k + 1 \in 1 .. Len(l))
      <4> DEFINE m == Len(l)
      <4>1. m \in Nat /\ Len(r) = m - 1 /\ k \in 1 .. m /\ i \in 1 .. Len(r) /\ i > k
        BY <1>1, <2>3
      <4> HIDE DEF m
      <4>2. m \in Int /\ k \in Int /\ i \in Int /\ 1 <= k /\ k <= m /\ i <= m - 1 /\ k < i
        BY ONLY <4>1
      <4>3. /\ i + 1 \in 1 .. m /\ i + 1 # k + 1 /\ i # 1 /\ i + 1 # 1 /\ i \in 1 .. m
            /\ i + 1 - 1 = i /\ i \in k .. m - 1 /\ i - 1 \in k .. m - 1 /\ i - 1 + 1 = i
            /\ (k < m => k + 1 \in 1 .. m)
        BY ONLY <4>2
      <4>4. QED  BY <4>3 DEF m
    <3>1. r[i] = l[i+1] /\ r[i-1] = l[i] /\ (k < Len(l) => l[i+1] # l[k+1])
      <4>1. r[i] = l[i+1]
        BY <1>1, <3>0
      <4>2. r[i-1] = l[i-1+1]
        BY <1>1, <3>0
      <4>3. r[i-1] = l[i]
        BY <3>0, <4>2
      <4>4. QED  BY <1>3, <3>0, <4>1, <4>3
    <3>2. Before(r, due, i) = due[l[i]] /\ Before(l, due, i + 1) = due[l[i]]
      <4>1. Before(r, due, i) = due[r[i-1]]
        BY <3>0 DEF Before
      <4>2. Before(l, due, i + 1) = due[l[i]]
        <5>1. Before(l, due, i + 1) = due[l[i+1-1]]
          BY <3>0 DEF Before
        <5>2. QED  BY <3>0, <5>1
      <4>3. QED  BY <3>1, <4>1, <4>2
    <3>3. key2[l[i+1]] = key[l[i+1]]
      BY <1>2, <3>0, <3>1
    <3>4. key[l[i+1]] = due[l[i+1]] - Before(l, due, i + 1)
      BY <3>0 DEF Sums
    <3>5. QED  BY <3>1, <3>2, <3>3, <3>4
  <2>4. QED  BY <1>1, <2>1, <2>2, <2>3
<1>5. QED  BY <1>4 DEF Sums, r

\* Without its first n entries the list counts from the last of them on.
LEMMA DropSums ==
  ASSUME NEW l \in Seq(Pids), NEW key \in [Pids -> Int], NEW due \in [Pids -> Int],
         Sums(l, key, due), NEW n \in 0 .. Len(l), NEW x, x = Before(l, due, n + 1)
  PROVE  Sums(SubSeq(l, n + 1, Len(l)), key, [p \in Pids |-> due[p] - x])
<1> DEFINE r == SubSeq(l, n + 1, Len(l))
           d2 == [p \in Pids |-> due[p] - x]
<1>1. Len(r) = Len(l) - n /\ \A i \in 1 .. Len(l) - n : r[i] = l[n + i]
  <2>1. n + 1 \in 1 .. Len(l) + 1 /\ Len(l) \in 0 .. Len(l) /\ Len(l) - (n + 1) + 1 = Len(l) - n
    OBVIOUS
  <2>2. /\ Len(r) = IF n + 1 <= Len(l) THEN Len(l) - (n + 1) + 1 ELSE 0
        /\ \A i \in 1 .. Len(l) - (n + 1) + 1 : r[i] = l[n + 1 + i - 1]
    BY <2>1, SubSeqList
  <2> HIDE DEF r
  <2>3. Len(r) = Len(l) - n
    <3>1. CASE n + 1 <= Len(l)
      BY <2>1, <2>2, <3>1
    <3>2. CASE ~(n + 1 <= Len(l))
      <4>1. n = Len(l) /\ Len(l) - n = 0
        BY <3>2
      <4>2. QED  BY <2>2, <3>2, <4>1
    <3>3. QED  BY <3>1, <3>2
  <2>4. ASSUME NEW i \in 1 .. Len(l) - n PROVE r[i] = l[n + i]
    <3>1. i \in 1 .. Len(l) - (n + 1) + 1 /\ n + 1 + i - 1 = n + i
      OBVIOUS
    <3>2. r[i] = l[n + 1 + i - 1]
      BY <2>2, <3>1
    <3>3. QED  BY <3>1, <3>2
  <2>5. QED  BY <2>3, <2>4
<1> HIDE DEF r
<1>2. x \in Int
  BY n + 1 \in 1 .. Len(l) + 1, BeforeInt
<1>3. ASSUME NEW i \in 1 .. Len(r) PROVE key[r[i]] = d2[r[i]] - Before(r, d2, i)
  <2>1. n + i \in 1 .. Len(l) /\ r[i] = l[n+i] /\ l[n+i] \in Pids
    <3>1. Len(r) = Len(l) - n /\ Len(l) \in Nat /\ n \in Nat
      BY <1>1
    <3>2. n + i \in 1 .. Len(l) /\ i \in 1 .. Len(l) - n
      BY ONLY <3>1, i \in 1 .. Len(r)
    <3>3. QED  BY <1>1, <3>2
  <2>2. key[l[n+i]] = due[l[n+i]] - Before(l, due, n + i)
    BY <2>1 DEF Sums
  <2>3. CASE i = 1
    <3>1. Before(r, d2, i) = 0 /\ Before(l, due, n + i) = x
      BY <2>3 DEF Before
    <3>2. l[n+i] \in Pids /\ due[l[n+i]] \in Int
      BY <2>1
    <3> DEFINE e == l[n+i]
    <3>3. key[e] = due[e] - x /\ d2[e] = due[e] - x /\ r[i] = e
      BY <2>1, <2>2, <3>1, <3>2
    <3> HIDE DEF e, d2
    <3>4. due[e] - x \in Int
      BY <1>2, <3>2 DEF e
    <3>5. QED  BY <3>1, <3>3, <3>4
  <2>4. CASE i # 1
    <3>1. i - 1 \in 1 .. Len(l) - n /\ n + i # 1 /\ r[i-1] = l[n + i - 1] /\ l[n + i - 1] \in Pids
      <4>1. i - 1 \in 1 .. Len(l) - n /\ n + (i - 1) = n + i - 1 /\ n + i # 1 /\ n + i - 1 \in 1 .. Len(l)
        <5>1. Len(r) = Len(l) - n /\ Len(l) \in Nat /\ n \in Nat
          BY <1>1
        <5>2. QED  BY ONLY <5>1, <2>4, i \in 1 .. Len(r)
      <4>2. r[i-1] = l[n + (i - 1)]
        BY <1>1, <4>1
      <4>3. QED  BY <4>1, <4>2
    <3>2. Before(r, d2, i) = due[l[n+i-1]] - x /\ Before(l, due, n + i) = due[l[n+i-1]]
      BY <2>4, <3>1 DEF Before
    <3>3. due[l[n+i-1]] \in Int /\ due[l[n+i]] \in Int
      BY <2>1, <3>1
    <3> DEFINE y == due[l[n+i-1]]
               e == l[n+i]
    <3>4. d2[e] = due[e] - x /\ r[i] = e
      BY <2>1
    <3>5. key[e] = due[e] - y
      BY <2>2, <3>2
    <3> HIDE DEF d2
    <3>6. Before(r, d2, i) = y - x
      BY <3>2
    <3>7. due[e] \in Int /\ y \in Int
      BY <3>3
    <3> HIDE DEF e, y
    <3>8. QED  BY <1>2, <3>4, <3>5, <3>6, <3>7
  <2>5. QED  BY <2>3, <2>4
<1>4. QED  BY <1>3 DEF Sums, r

\* Behind a head that is overdue everybody is, up to the first positive key.
LEMMA RunOverdue ==
  ASSUME NEW l \in Seq(Pids), NEW key \in [Pids -> Int], NEW due \in [Pids -> Int],
         Sums(l, key, due), NEW n \in 0 .. Len(l), l # <<>>, key[l[1]] < 0,
         \A i \in 1 .. n : key[l[i]] <= 0
  PROVE  /\ \A i \in 1 .. n : due[l[i]] < 0
         /\ Before(l, due, n + 1) <= 0
<1> DEFINE U == {i \in 1 .. n : ~(due[l[i]] < 0)}
<1>1. U = {}
  <2>1. SUFFICES ASSUME U # {} PROVE FALSE
    OBVIOUS
  <2>2. U \subseteq Nat
    OBVIOUS
  <2>3. PICK m \in U : \A i \in U : m <= i
    <3> HIDE DEF U
    <3>1. QED  BY <2>1, <2>2, MinNat
  <2>4. m \in 1 .. n /\ m \in 1 .. Len(l) /\ ~(due[l[m]] < 0) /\ l[m] \in Pids
    BY <2>3
  <2>5. key[l[m]] = due[l[m]] - Before(l, due, m)
    BY <2>4 DEF Sums
  <2>6. CASE m = 1
    BY <2>4, <2>5, <2>6 DEF Before
  <2>7. CASE m # 1
    <3>1. m - 1 \in 1 .. n /\ ~(m <= m - 1) /\ l[m-1] \in Pids
      BY <2>4, <2>7
    <3>2. m - 1 \notin U
      <4> HIDE DEF U
      <4>1. QED  BY <2>3, <3>1
    <3>3. due[l[m-1]] < 0 /\ Before(l, due, m) = due[l[m-1]]
      BY <2>7, <3>1, <3>2 DEF Before
    <3>4. due[l[m-1]] \in Int /\ due[l[m]] \in Int /\ key[l[m]] <= 0
      BY <2>4, <3>1
    <3>5. QED  BY <2>4, <2>5, <3>3, <3>4
  <2>8. QED  BY <2>6, <2>7
<1>2. \A i \in 1 .. n : due[l[i]] < 0
  BY <1>1
<1>3. Before(l, due, n + 1) <= 0
  <2>1. CASE n = 0
    BY <2>1 DEF Before
  <2>2. CASE n # 0
    <3>1. n \in 1 .. n /\ n + 1 # 1 /\ n + 1 - 1 = n /\ l[n] \in Pids
      BY <2>2
    <3>2. QED  BY <1>2, <3>1 DEF Before
  <2>3. QED  BY <2>1, <2>2
<1>4. QED  BY <1>2, <1>3

\* A tick takes one off the first key, and so off what everybody has to wait.
LEMMA TickSums ==
  ASSUME NEW l \in Seq(Pids), IsInjective(l), NEW key \in [Pids -> Int], NEW due \in [Pids -> Int],
         Sums(l, key, due), l # <<>>, NEW key2,
         \A q \in ToSet(l) : key2[q] = IF q = l[1] THEN key[q] - 1 ELSE key[q]
  PROVE  Sums(l, key2, [p \in Pids |-> due[p] - 1])
<1> DEFINE d2 == [p \in Pids |-> due[p] - 1]
<1>1. \A i, j \in 1 .. Len(l) : l[i] = l[j] => i = j
  BY DistinctEntries
<1>2. ASSUME NEW i \in 1 .. Len(l) PROVE key2[l[i]] = d2[l[i]] - Before(l, d2, i)
  <2>1. l[i] \in Pids /\ l[i] \in ToSet(l) /\ key[l[i]] = due[l[i]] - Before(l, due, i) /\ 1 \in 1 .. Len(l)
    BY SetOfList DEF Sums
  <2>2. CASE i = 1
    <3>1. key2[l[i]] = key[l[i]] - 1 /\ Before(l, due, i) = 0 /\ Before(l, d2, i) = 0
      BY <2>1, <2>2 DEF Before
    <3>2. QED  BY <2>1, <3>1
  <2>3. CASE i # 1
    <3>1. key2[l[i]] = key[l[i]]
      BY <1>1, <2>1, <2>3
    <3>2. l[i-1] \in Pids
      BY <2>3
    <3>3. Before(l, due, i) = due[l[i-1]] /\ Before(l, d2, i) = due[l[i-1]] - 1
      BY <2>3, <3>2 DEF Before
    <3>4. due[l[i]] \in Int /\ due[l[i-1]] \in Int /\ d2[l[i]] = due[l[i]] - 1
      BY <2>1, <3>2
    <3>5. key[l[i]] = due[l[i]] - due[l[i-1]]
      BY <2>1, <3>3
    <3> DEFINE x == due[l[i]]
               y == due[l[i-1]]
    <3>6. x \in Int /\ y \in Int /\ key2[l[i]] = x - y /\ d2[l[i]] = x - 1 /\ Before(l, d2, i) = y - 1
      BY ONLY <3>1, <3>3, <3>4, <3>5
    <3> HIDE DEF d2, x, y
    <3>7. QED  BY ONLY <3>6
  <2>4. QED  BY <2>2, <2>3
<1>3. QED  BY <1>2 DEF Sums

------------------------------------------------------------------------------
\* p joins those of d who sleep, n ticks from now; what was due under d still is.
Joins(d, e, p, n) ==
  /\ ToSet(e.slp) = ToSet(d.slp) \cup {p}
  /\ \A due \in [Pids -> Int] :
       Sums(d.slp, d.qkey, due) => Sums(e.slp, e.qkey, [due EXCEPT ![p] = n])

\* insertd puts a process on clockq; with its state set to match, all is well again.
LEMMA SleepGood ==
  ASSUME NEW d, Good(d, {}), DelaysGood(d), NEW p \in Pids \ {NULLPROC}, Loose(d, p),
         NEW n \in Nat, NEW st \in Sleeping
  PROVE  LET e == [InsertSleep(d, p, n) EXCEPT !.pstate[p] = st] IN
         /\ Good(e, {}) /\ SltopGood(e)
         /\ e.pstate = [d.pstate EXCEPT ![p] = st]
         /\ e.pprio = d.pprio /\ e.currpid = d.currpid
         /\ e.rdy = d.rdy /\ Joins(d, e, p, n)
<1> DEFINE i == DeltaPos(d.slp, d.qkey, n)
           left == Remaining(d.slp, d.qkey, n)[i]
           key == [d.qkey EXCEPT ![p] = left]
           key2 == IF i > Len(d.slp) THEN key ELSE [key EXCEPT ![d.slp[i]] = @ - left]
           l == InsertAt(d.slp, i, p)
           c == [d EXCEPT !.slp = l, !.qkey = key2]
           b == SetSltop(c)
           ps == [d.pstate EXCEPT ![p] = st]
           e == [b EXCEPT !.pstate = ps]
<1>1. /\ d \in DispType /\ d.slp \in Seq(Pids) /\ d.qkey \in [Pids -> Int]
      /\ d.pstate \in [Pids -> States]
  BY DispFields DEF Good
<1>2. i \in 1 .. Len(d.slp) + 1
  <2>1. n \in Int
    OBVIOUS
  <2>2. QED  BY ONLY <1>1, <2>1, DeltaPosRange
<1>3. left \in Nat /\ (i <= Len(d.slp) => d.qkey[d.slp[i]] >= left)
  BY <1>1, DeltaPosKeys
<1>22. \A due \in [Pids -> Int] : Sums(d.slp, d.qkey, due) => left = n - Before(d.slp, due, i)
  <2> HIDE DEF i
  <2>1. n \in Int
    OBVIOUS
  <2>2. ASSUME NEW due \in [Pids -> Int], Sums(d.slp, d.qkey, due)
        PROVE  Remaining(d.slp, d.qkey, n)[i] = n - Before(d.slp, due, i)
    <3>1. d.slp \in Seq(Pids) /\ d.qkey \in [Pids -> Int]
      BY <1>1
    <3>2. PICK s \in Seq(Pids), k \in [Pids -> Int] : s = d.slp /\ k = d.qkey
      BY ONLY <3>1
    <3>3. Sums(s, k, due) /\ i \in 1 .. Len(s) + 1
      BY ONLY <1>2, <2>2, <3>2
    <3>4. Remaining(s, k, n)[i] = n - Before(s, due, i)
      BY ONLY ZenonT(30), <2>1, <2>2, <3>3, s \in Seq(Pids), k \in [Pids -> Int], RemainingDue
    <3>5. QED  BY ONLY <3>2, <3>4
  <2>3. QED  BY ONLY <2>2 DEF left
<1> HIDE DEF left, i
<1>4. key \in [Pids -> Int] /\ \A q \in Pids : key[q] = IF q = p THEN left ELSE d.qkey[q]
  BY <1>1, <1>3
<1> HIDE DEF key
<1>20. \A q \in ToSet(d.rdy) : key2[q] = d.qkey[q]
  <2>1. TAKE q \in ToSet(d.rdy)
  <2>2. q \in Pids /\ q # p /\ q \notin ToSet(d.slp)
    <3>1. q \in Pids
      BY <1>1, DispFields, SetOfList
    <3>2. QED  BY <3>1 DEF Good, Matches, Loose, Sleeping
  <2>3. CASE i > Len(d.slp)
    BY <1>4, <2>2, <2>3
  <2>4. CASE ~(i > Len(d.slp))
    <3>1. i \in 1 .. Len(d.slp)
      BY <1>2, <2>4
    <3>2. d.slp[i] # q
      BY <1>1, <2>2, <3>1, SetOfList
    <3>3. QED  BY <1>4, <2>2, <2>4, <3>2
  <2>5. QED  BY <2>3, <2>4
<1>5. key2 \in [Pids -> Int]
  <2>1. CASE i > Len(d.slp)
    BY <1>4, <2>1
  <2>2. CASE ~(i > Len(d.slp))
    <3>1. d.slp[i] \in Pids
      BY <1>1, <1>2, <2>2
    <3>2. key[d.slp[i]] - left \in Int
      BY <1>3, <1>4, <3>1
    <3>3. QED  BY <1>4, <2>2, <3>2
  <2>3. QED  BY <2>1, <2>2
<1>6. l \in Seq(Pids) /\ IsInjective(l) /\ ToSet(l) = ToSet(d.slp) \cup {p} /\ l # <<>>
  BY <1>1, <1>2, InsertAtDistinct DEF Good, Loose
<1>21. \A q \in ToSet(l) : key2[q] >= 0
  <2>1. TAKE q \in ToSet(l)
  <2>2. q \in Pids /\ key[q] \in Int /\ key[q] >= 0
    <3>1. q \in Pids
      BY <1>6, SetOfList
    <3>2. CASE q = p
      BY <1>3, <1>4, <3>2
    <3>3. CASE q # p
      BY <1>1, <1>4, <1>6, <3>1, <3>3 DEF DelaysGood
    <3>4. QED  BY <3>1, <3>2, <3>3, <1>4
  <2>3. CASE i > Len(d.slp)
    BY <2>2, <2>3
  <2>4. CASE ~(i > Len(d.slp))
    <3>1. i \in 1 .. Len(d.slp) /\ d.slp[i] \in Pids /\ d.slp[i] \in ToSet(d.slp)
      BY <1>1, <1>2, <2>4, SetOfList
    <3>2. d.slp[i] # p
      BY <3>1 DEF Loose
    <3>3. key[d.slp[i]] - left >= 0
      BY <1>1, <1>3, <1>4, <2>4, <3>1, <3>2
    <3>4. QED  BY <1>4, <2>2, <2>4, <3>1, <3>3
  <2>5. QED  BY <2>3, <2>4
<1>23. ASSUME NEW due \in [Pids -> Int], Sums(d.slp, d.qkey, due)
       PROVE  Sums(l, key2, [due EXCEPT ![p] = n])
  <2>1. p \notin ToSet(d.slp) /\ \A j \in 1 .. Len(d.slp) : d.slp[j] # p
    BY <1>1, SetOfList DEF Loose
  <2>2. key2[p] = left
    BY <1>2, <1>4, <2>1
  <2>3. \A q \in ToSet(d.slp) :
          key2[q] = IF i <= Len(d.slp) /\ q = d.slp[i] THEN d.qkey[q] - left ELSE d.qkey[q]
    <3>1. TAKE q \in ToSet(d.slp)
    <3>2. q \in Pids /\ q # p /\ key[q] = d.qkey[q] /\ i \in Nat /\ Len(d.slp) \in Nat
      <4>1. q \in Pids
        BY <1>1, SetOfList
      <4>2. q # p
        BY <2>1
      <4>3. key[q] = d.qkey[q]
        BY <1>4, <4>1, <4>2
      <4>4. i \in Nat /\ Len(d.slp) \in Nat
        BY <1>1, <1>2
      <4>5. QED  BY <4>1, <4>2, <4>3, <4>4
    <3>3. CASE i > Len(d.slp)
      BY <3>2, <3>3
    <3>4. CASE ~(i > Len(d.slp))
      <4>1. i <= Len(d.slp) /\ d.slp[i] \in Pids
        BY <1>1, <1>2, <3>2, <3>4
      <4>2. QED  BY <1>4, <3>2, <3>4, <4>1
    <3>5. QED  BY <3>3, <3>4
  <2>4. left = n - Before(d.slp, due, i) /\ n \in Int
    BY <1>22, <1>23
  <2>5. IsInjective(d.slp)
    BY DEF Good
  <2> HIDE DEF key2, c, b, ps, e
  <2>6. QED  BY ONLY ZenonT(30), <1>1, <1>2, <1>23, <2>1, <2>2, <2>3, <2>4, <2>5, p \in Pids, InsertSums
<1>7. InsertSleep(d, p, n) = b
  BY DEF InsertSleep, i, left, key
<1> HIDE DEF l, key2
<1>8. /\ c \in DispType /\ c.slp = l /\ c.rdy = d.rdy /\ c.pstate = d.pstate
      /\ c.pprio = d.pprio /\ c.currpid = d.currpid /\ c.qkey = key2
  BY <1>1, <1>5, <1>6 DEF DispType
<1> HIDE DEF c
<1>9. b \in DispType /\ SltopGood(b) /\ OnlySltop(c, b)
  BY <1>8, <1>21, SetSltopType DEF DelaysGood
<1>10. /\ b.slp = l /\ b.rdy = d.rdy /\ b.pstate = d.pstate
       /\ b.pprio = d.pprio /\ b.currpid = d.currpid /\ b.qkey = key2
  BY <1>8, <1>9 DEF OnlySltop
<1> HIDE DEF b
<1>11. /\ ps \in [Pids -> States]
       /\ \A q \in Pids : ps[q] = IF q = p THEN st ELSE d.pstate[q]
  BY <1>1 DEF States, Sleeping
<1>12. [InsertSleep(d, p, n) EXCEPT !.pstate[p] = st] = e
  BY <1>7, <1>10
<1> HIDE DEF ps
<1>13. /\ e \in DispType /\ e.pstate = ps /\ e.rdy = d.rdy /\ e.slp = l
       /\ e.currpid = d.currpid /\ e.pprio = d.pprio
       /\ e.slnempty = b.slnempty /\ e.sltop = b.sltop /\ e.qkey = key2
  BY <1>9, <1>10, <1>11 DEF DispType
<1> HIDE DEF e
<1>14. SltopGood(e)
  BY <1>9, <1>10, <1>13 DEF SltopGood, DelaysGood
<1>15. \A q \in Pids : Matches(e, q)
  <2>1. TAKE q \in Pids
  <2>2. Matches(d, q)
    BY DEF Good
  <2>3. CASE q = p
    BY <1>6, <1>11, <1>13, <2>3 DEF Matches, Loose, Sleeping
  <2>4. CASE q # p
    BY <1>6, <1>11, <1>13, <2>2, <2>4 DEF Matches
  <2>5. QED  BY <2>3, <2>4
<1>16. \A q \in Pids : e.pstate[q] = "curr" => q = e.currpid
  BY <1>11, <1>13 DEF Good, Sleeping
<1>17. e.pstate[NULLPROC] \in {"curr", "ready"}
  BY <1>11, <1>13, PidsFacts DEF Good
<1>18. Good(e, {})
  <2>1. Ordered(e)
    BY <1>13, <1>20, OrderedKept DEF Good
  <2>2. QED  BY <1>6, <1>13, <1>15, <1>16, <1>17, <2>1 DEF Good
<1>24. Joins(d, e, p, n)
  BY <1>6, <1>13, <1>23 DEF Joins
<1>19. QED  BY <1>12, <1>13, <1>14, <1>18, <1>24 DEF ps

\* unsleep takes a sleeping process off clockq, wherever it stands.
LEMMA UnsleepGood ==
  ASSUME NEW d, Good(d, {}), DelaysGood(d), NEW p \in Pids \ {NULLPROC},
         d.pstate[p] \in Sleeping
  PROVE  LET e == Unsleep(d, p) IN
         /\ Good(e, {p}) /\ SltopGood(e) /\ e.pstate = d.pstate
         /\ e.pprio = d.pprio /\ e.currpid = d.currpid /\ e.rdy = d.rdy
         /\ DuesKept(d, e)
<1> DEFINE i == CHOOSE j \in 1 .. Len(d.slp) : d.slp[j] = p
           key == IF i = Len(d.slp) THEN d.qkey
                  ELSE [d.qkey EXCEPT ![d.slp[i+1]] = @ + d.qkey[p]]
           l == RemoveAt(d.slp, i)
           c == [d EXCEPT !.slp = l, !.qkey = key]
           e == SetSltop(c)
<1>1. /\ d \in DispType /\ d.slp \in Seq(Pids) /\ d.qkey \in [Pids -> Int]
      /\ IsInjective(d.slp)
  BY DispFields DEF Good
<1>2. p \in ToSet(d.slp) /\ p \notin ToSet(d.rdy)
  BY DEF Good, Matches, Sleeping
<1>3. i \in 1 .. Len(d.slp) /\ d.slp[i] = p
  BY <1>1, <1>2, SetOfList
<1>4. Unsleep(d, p) = e
  BY DEF Unsleep
<1> HIDE DEF i
<1>5. key \in [Pids -> Int]
  <2>1. CASE i = Len(d.slp)
    BY <1>1, <2>1
  <2>2. CASE i # Len(d.slp)
    <3>1. d.slp[i+1] \in Pids
      BY <1>1, <1>3, <2>2
    <3>2. d.qkey[d.slp[i+1]] + d.qkey[p] \in Int
      BY <1>1, <3>1
    <3>3. QED  BY <1>1, <2>2, <3>2
  <2>3. QED  BY <2>1, <2>2
<1>11. \A q \in ToSet(d.rdy) : key[q] = d.qkey[q]
  <2>1. TAKE q \in ToSet(d.rdy)
  <2>2. q \in Pids /\ q \notin ToSet(d.slp)
    <3>1. q \in Pids
      BY <1>1, DispFields, SetOfList
    <3>2. QED  BY <3>1 DEF Good, Matches, Sleeping
  <2>3. CASE i = Len(d.slp)
    BY <2>3
  <2>4. CASE i # Len(d.slp)
    <3>1. i + 1 \in 1 .. Len(d.slp)
      BY <1>1, <1>3, <2>4
    <3>2. d.slp[i+1] # q
      BY <1>1, <2>2, <3>1, SetOfList
    <3>3. QED  BY <1>1, <2>2, <2>4, <3>2
  <2>5. QED  BY <2>3, <2>4
<1>12. \A q \in ToSet(d.slp) : key[q] >= 0
  <2>1. TAKE q \in ToSet(d.slp)
  <2>2. /\ q \in Pids /\ d.qkey[q] \in Int /\ d.qkey[q] >= 0
        /\ d.qkey[p] \in Int /\ d.qkey[p] >= 0
    BY <1>1, <1>2, SetOfList DEF DelaysGood
  <2>3. CASE i = Len(d.slp)
    BY <2>2, <2>3
  <2>4. CASE i # Len(d.slp)
    <3>1. i + 1 \in 1 .. Len(d.slp) /\ d.slp[i+1] \in ToSet(d.slp) /\ d.slp[i+1] \in Pids
      BY <1>1, <1>3, <2>4, SetOfList
    <3>2. d.qkey[d.slp[i+1]] \in Int /\ d.qkey[d.slp[i+1]] >= 0
      BY <1>1, <3>1 DEF DelaysGood
    <3>3. QED  BY <1>1, <2>2, <2>4, <3>1, <3>2
  <2>5. QED  BY <2>3, <2>4
<1>6. l \in Seq(Pids) /\ IsInjective(l) /\ ToSet(l) = ToSet(d.slp) \ {p}
  BY <1>1, <1>3, RemoveAtDistinct
<1>14. \A q \in ToSet(d.slp) :
         key[q] = IF i < Len(d.slp) /\ q = d.slp[i+1] THEN d.qkey[q] + d.qkey[d.slp[i]] ELSE d.qkey[q]
  <2>1. TAKE q \in ToSet(d.slp)
  <2>2. q \in Pids /\ i <= Len(d.slp) /\ i \in Nat /\ Len(d.slp) \in Nat
    BY <1>1, <1>3, SetOfList
  <2>3. CASE i = Len(d.slp)
    BY <2>2, <2>3
  <2>4. CASE i # Len(d.slp)
    <3>1. i < Len(d.slp) /\ d.slp[i+1] \in Pids
      BY <1>1, <1>3, <2>2, <2>4
    <3>2. QED  BY <1>1, <1>3, <2>2, <2>4, <3>1
  <2>5. QED  BY <2>3, <2>4
<1>15. ASSUME NEW due \in [Pids -> Int], Sums(d.slp, d.qkey, due) PROVE Sums(l, key, due)
  <2> HIDE DEF key
  <2>1. QED  BY <1>1, <1>3, <1>14, <1>15, RemoveSums
<1> HIDE DEF l, key
<1>7. /\ c \in DispType /\ c.slp = l /\ c.rdy = d.rdy /\ c.pstate = d.pstate
      /\ c.pprio = d.pprio /\ c.currpid = d.currpid /\ c.qkey = key
  BY <1>1, <1>5, <1>6 DEF DispType
<1> HIDE DEF c
<1>8. Good(c, {p})
  <2>1. \A q \in Pids \ {p} : Matches(c, q)
    BY <1>6, <1>7 DEF Good, Matches
  <2>2. Loose(c, p)
    BY <1>2, <1>6, <1>7 DEF Loose
  <2>3. Ordered(c)
    BY <1>7, <1>11, OrderedKept DEF Good
  <2>4. QED  BY <1>6, <1>7, <2>1, <2>2, <2>3 DEF Good
<1>13. DelaysGood(c)
  BY <1>6, <1>7, <1>12 DEF DelaysGood
<1>9. Good(e, {p}) /\ SltopGood(e) /\ OnlySltop(c, e)
  BY <1>8, <1>13, SetSltopGood
<1>16. DuesKept(d, e)
  <2>1. e.slp = l /\ e.qkey = key
    BY <1>7, <1>9 DEF OnlySltop
  <2> HIDE DEF e
  <2>2. QED  BY <1>6, <1>15, <2>1 DEF DuesKept
<1>10. QED  BY <1>4, <1>7, <1>9, <1>16 DEF OnlySltop

\* What every whole call leaves behind.
Settled(d) == Good(d, {}) /\ SltopGood(d) /\ HasCurrent(d) /\ Highest(d)

\* Outside S, e has the waiting processes and the free slots of d; all priorities stay.
Kept(d, e, S) ==
  /\ e.pprio = d.pprio
  /\ \A p \in Pids \ S : /\ e.pstate[p] = "wait" <=> d.pstate[p] = "wait"
                         /\ e.pstate[p] = "free" <=> d.pstate[p] = "free"

\* Outside S only the current and the ready processes may have changed places.
Others(d, e, S) ==
  \A p \in Pids \ S : IF d.pstate[p] \in {"curr", "ready"}
                       THEN e.pstate[p] \in {"curr", "ready"} ELSE e.pstate[p] = d.pstate[p]

Moves(d, e, S) == Others(d, e, S) /\ DuesKept(d, e)

LEMMA MovesTransitive ==
  ASSUME NEW c, NEW d, NEW e, NEW S, NEW T, Moves(c, d, S), Moves(d, e, T)
  PROVE  Moves(c, e, S \cup T)
<1>1. Others(c, e, S \cup T)
  <2>1. SUFFICES ASSUME NEW p \in Pids \ (S \cup T)
                 PROVE  IF c.pstate[p] \in {"curr", "ready"}
                        THEN e.pstate[p] \in {"curr", "ready"} ELSE e.pstate[p] = c.pstate[p]
    BY DEF Others
  <2>2. CASE c.pstate[p] \in {"curr", "ready"}
    BY <2>2 DEF Moves, Others
  <2>3. CASE c.pstate[p] \notin {"curr", "ready"}
    BY <2>3 DEF Moves, Others
  <2>4. QED  BY <2>2, <2>3
<1>2. DuesKept(c, e)
  BY DEF Moves, DuesKept
<1>3. QED  BY <1>1, <1>2 DEF Moves

\* A change of the process table and the ready list alone moves those it names.
LEMMA MovesTable ==
  ASSUME NEW d, NEW e, d.slp \in Seq(Pids), SameClockq(d, e), NEW S, Others(d, e, S)
  PROVE  Moves(d, e, S)
BY SameDues DEF Moves

LEMMA KeptTransitive ==
  ASSUME NEW c, NEW d, NEW e, NEW S, NEW T, Kept(c, d, S), Kept(d, e, T)
  PROVE  Kept(c, e, S \cup T)
BY DEF Kept

LEMMA ReschedSettled ==
  ASSUME NEW d, Good(d, {}), SltopGood(d)
  PROVE  /\ Settled(Resched(d)) /\ Kept(d, Resched(d), {}) /\ SameOthers(d, Resched(d))
         /\ Moves(d, Resched(d), {}) /\ SameClockq(d, Resched(d))
<1> DEFINE e == Resched(d)
<1>1. /\ Good(e, {}) /\ HasCurrent(e) /\ Highest(e)
      /\ SameOthers(d, e) /\ SameClockq(d, e)
  BY ReschedGood
<1> HIDE DEF e
<1>2. SltopGood(e)
  BY <1>1 DEF SltopGood, DelaysGood, SameClockq
<1>3. Kept(d, e, {})
  <2>1. e.pprio = d.pprio
    BY <1>1 DEF SameOthers
  <2>2. ASSUME NEW p \in Pids
        PROVE  /\ e.pstate[p] = "wait" <=> d.pstate[p] = "wait"
               /\ e.pstate[p] = "free" <=> d.pstate[p] = "free"
    BY <1>1 DEF SameOthers
  <2>3. QED  BY <2>1, <2>2 DEF Kept
<1>4. Moves(d, e, {})
  <2>1. d.slp \in Seq(Pids)
    BY DispFields DEF Good
  <2>2. Others(d, e, {})
    BY <1>1 DEF SameOthers, Others
  <2>3. QED  BY <1>1, <2>1, <2>2, MovesTable
<1>5. QED  BY <1>1, <1>2, <1>3, <1>4 DEF e, Settled

\* The processes of a list are readied and the processor rescheduled.
LEMMA ReadyAllSettled ==
  ASSUME NEW d, Good(d, {}), SltopGood(d), NEW l \in Seq(Pids), IsInjective(l),
         \A p \in ToSet(l) : Loose(d, p)
  PROVE  LET e == Resched(ReadyAll(d, l)) IN
         /\ Settled(e) /\ Kept(d, e, ToSet(l)) /\ Moves(d, e, ToSet(l))
         /\ \A p \in ToSet(l) : e.pstate[p] \in {"curr", "ready"}
<1> DEFINE c == ReadyAll(d, l)
           e == Resched(c)
<1>1. Good(c, {}) /\ Readied(d, c, ToSet(l))
  BY ReadyAllGood
<1> HIDE DEF c
<1>2. SltopGood(c)
  BY <1>1 DEF SltopGood, DelaysGood, Readied, SameClockq
<1>3. Settled(e) /\ Kept(c, e, {}) /\ SameOthers(c, e) /\ Moves(c, e, {})
  BY <1>1, <1>2, ReschedSettled
<1>4. Kept(d, c, ToSet(l))
  BY <1>1 DEF Kept, Readied
<1>5. ToSet(l) \subseteq Pids
  BY SetOfList
<1>6. \A p \in ToSet(l) : c.pstate[p] = "ready"
  BY <1>1, <1>5 DEF Readied
<1> HIDE DEF e
<1>7. \A p \in ToSet(l) : e.pstate[p] \in {"curr", "ready"}
  BY <1>3, <1>5, <1>6 DEF SameOthers
<1>8. Kept(d, e, ToSet(l))
  BY <1>3, <1>4 DEF Kept
<1>9. Moves(d, e, ToSet(l))
  <2>1. d.slp \in Seq(Pids) /\ SameClockq(d, c) /\ Others(d, c, ToSet(l))
    BY <1>1, DispFields DEF Good, Readied, Others
  <2>2. Moves(d, c, ToSet(l)) /\ ToSet(l) \cup {} = ToSet(l)
    BY <2>1, MovesTable
  <2>3. Moves(d, e, ToSet(l) \cup {})
    BY <1>3, <2>2, MovesTransitive
  <2>4. QED  BY <2>2, <2>3
<1>10. QED  BY <1>3, <1>7, <1>8, <1>9 DEF e, c

\* The same of one process.
LEMMA ReadySettled ==
  ASSUME NEW d, NEW X, Good(d, X), SltopGood(d), NEW p \in Pids, Loose(d, p), X \subseteq {p}
  PROVE  LET e == Resched(Ready(d, p)) IN
         /\ Settled(e) /\ Kept(d, e, {p}) /\ e.pstate[p] \in {"curr", "ready"}
         /\ Moves(d, e, {p})
<1> DEFINE c == Ready(d, p)
           e == Resched(c)
<1>1. Good(c, {}) /\ Readied(d, c, {p})
  <2>1. Good(c, X \ {p}) /\ Readied(d, c, {p})
    BY ReadyGood
  <2>2. X \ {p} = {}
    OBVIOUS
  <2>3. QED  BY <2>1, <2>2
<1> HIDE DEF c
<1>2. SltopGood(c)
  BY <1>1 DEF SltopGood, DelaysGood, Readied, SameClockq
<1>3. Settled(e) /\ Kept(c, e, {}) /\ SameOthers(c, e) /\ Moves(c, e, {})
  BY <1>1, <1>2, ReschedSettled
<1>4. Kept(d, c, {p})
  BY <1>1 DEF Kept, Readied
<1>5. c.pstate[p] = "ready"
  BY <1>1 DEF Readied
<1> HIDE DEF e
<1>6. e.pstate[p] \in {"curr", "ready"}
  BY <1>3, <1>5 DEF SameOthers
<1>7. Kept(d, e, {p})
  BY <1>3, <1>4 DEF Kept
<1>8. Moves(d, e, {p})
  <2>1. d.slp \in Seq(Pids) /\ SameClockq(d, c) /\ Others(d, c, {p})
    BY <1>1, DispFields DEF Good, Readied, Others
  <2>2. Moves(d, c, {p}) /\ {p} \cup {} = {p}
    BY <2>1, MovesTable
  <2>3. Moves(d, e, {p} \cup {})
    BY <1>3, <2>2, MovesTransitive
  <2>4. QED  BY <2>2, <2>3
<1>9. QED  BY <1>3, <1>6, <1>7, <1>8 DEF e, c

\* The sleepers of S are eligible now.  If the head was overdue, so were they all, and
\* what the keys of the others come to is not less than it was.
Wakes(d, e, S) ==
  /\ S \subseteq ToSet(d.slp) /\ ToSet(e.slp) \subseteq ToSet(d.slp)
  /\ Others(d, e, S) /\ \A p \in S : e.pstate[p] \in {"curr", "ready"}
  /\ \A due \in [Pids -> Int] :
       Sums(d.slp, d.qkey, due) /\ d.slp # <<>> /\ d.qkey[d.slp[1]] < 0 =>
         /\ \A p \in S : due[p] < 0
         /\ \E due2 \in [Pids -> Int] :
              Sums(e.slp, e.qkey, due2) /\ \A p \in Pids : due[p] <= due2[p]

\* wakeup readies the head of clockq and reschedules.
LEMMA WakeupSettled ==
  ASSUME NEW d, Good(d, {}), \A i \in 2 .. Len(d.slp) : d.qkey[d.slp[i]] >= 0
  PROVE  Settled(Wakeup(d)) /\ Kept(d, Wakeup(d), {}) /\ \E S : Wakes(d, Wakeup(d), S)
<1> DEFINE late == {i \in 1 .. Len(d.slp) : d.qkey[d.slp[i]] > 0}
           n == IF late = {} THEN Len(d.slp) ELSE Min(late) - 1
           rest == SubSeq(d.slp, n + 1, Len(d.slp))
           l == SubSeq(d.slp, 1, n)
           b == [d EXCEPT !.slp = rest]
           c == ReadyAll(b, l)
           f == SetSltop(c)
           e == Resched(f)
<1>1. /\ d \in DispType /\ d.slp \in Seq(Pids) /\ IsInjective(d.slp)
      /\ d.pstate \in [Pids -> States]
  BY DispFields DEF Good
<1>2. n \in 0 .. Len(d.slp)
  <2>1. CASE late = {}
    BY <1>1, <2>1
  <2>2. CASE late # {}
    <3>1. late \subseteq Nat /\ late \subseteq 1 .. Len(d.slp)
      OBVIOUS
    <3>2. Min(late) \in 1 .. Len(d.slp)
      <4> HIDE DEF late
      <4>1. QED  BY <2>2, <3>1, MinNat
    <3>3. n = Min(late) - 1
      BY <2>2
    <3> HIDE DEF n, late
    <3>4. QED  BY <3>2, <3>3
  <2>3. QED  BY <2>1, <2>2
<1>3. Wakeup(d) = e
  BY DEF Wakeup
<1>18. ASSUME NEW i \in 1 .. n PROVE i \in 1 .. Len(d.slp) /\ d.qkey[d.slp[i]] <= 0
  <2>1. i \in 1 .. Len(d.slp)
    BY <1>2
  <2>2. i \notin late
    <3>1. CASE late = {}
      BY <3>1
    <3>2. CASE late # {}
      <4>1. late \subseteq Nat
        OBVIOUS
      <4>2. Min(late) \in Nat /\ \A j \in late : Min(late) <= j
        <5> HIDE DEF late
        <5>1. QED  BY <3>2, <4>1, MinNat
      <4>3. n = Min(late) - 1
        BY <3>2
      <4>4. ~(Min(late) <= i)
        <5> HIDE DEF late, n
        <5>1. QED  BY <4>2, <4>3
      <4> HIDE DEF late, n
      <4>5. QED  BY <4>2, <4>4
    <3>3. QED  BY <3>1, <3>2
  <2>3. d.slp[i] \in Pids /\ d.qkey \in [Pids -> Int]
    BY <1>1, <2>1, DispFields
  <2>4. QED  BY <2>1, <2>2, <2>3
<1>15. ASSUME n = 0, 1 <= Len(d.slp) PROVE d.qkey[d.slp[1]] >= 0
  <2>1. n = 0 /\ Len(d.slp) # 0
    BY <1>15, 1 <= Len(d.slp)
  <2>2. late # {}
    BY <2>1
  <2>3. late \subseteq Nat
    OBVIOUS
  <2>4. Min(late) \in late /\ Min(late) = 1
    <3>1. Min(late) \in late
      <4> HIDE DEF late
      <4>1. QED  BY <2>2, <2>3, MinNat
    <3>2. n = Min(late) - 1
      BY <2>2
    <3> HIDE DEF n, late
    <3>3. Min(late) \in Nat
      BY <2>3, <3>1
    <3>4. QED  BY ONLY <2>1, <3>1, <3>2, <3>3
  <2>5. 1 \in late
    <3> HIDE DEF late
    <3>1. QED  BY <2>4
  <2>6. d.slp[1] \in Pids /\ d.qkey \in [Pids -> Int]
    BY <1>1, <2>1, DispFields
  <2>7. QED  BY <2>5, <2>6
<1> HIDE DEF n
<1>16. \A q \in ToSet(rest) : d.qkey[q] >= 0
  <2>1. rest \in Seq(Pids)
    BY <1>1, <1>2, SplitDistinct
  <2>2. TAKE q \in ToSet(rest)
  <2>3. /\ n + 1 \in 1 .. Len(d.slp) + 1 /\ Len(d.slp) \in 0 .. Len(d.slp)
        /\ n \in Nat /\ Len(d.slp) \in Nat
    BY <1>2
  <2>4. /\ Len(rest) = IF n + 1 <= Len(d.slp) THEN Len(d.slp) - (n + 1) + 1 ELSE 0
        /\ \A i \in 1 .. Len(d.slp) - (n + 1) + 1 : rest[i] = d.slp[n + 1 + i - 1]
    BY <1>1, <2>3, SubSeqList
  <2> HIDE DEF rest
  <2>5. PICK i \in 1 .. Len(rest) : rest[i] = q
    BY <2>1, SetOfList
  <2>6. n + i \in 1 .. Len(d.slp) /\ d.slp[n + i] = q
    <3>1. i \in 1 .. Len(d.slp) - (n + 1) + 1 /\ n + 1 + i - 1 = n + i
      BY <2>3, <2>4, <2>5
    <3>2. QED  BY <2>3, <2>4, <2>5, <3>1
  <2>7. CASE n + i = 1
    <3>1. n = 0 /\ 1 <= Len(d.slp) /\ d.slp[1] = q
      BY <2>3, <2>5, <2>6, <2>7
    <3>2. QED  BY <1>15, <3>1
  <2>8. CASE n + i # 1
    <3>1. n + i \in 2 .. Len(d.slp)
      BY <2>3, <2>6, <2>8
    <3>2. QED  BY <2>6, <3>1
  <2>9. QED  BY <2>7, <2>8
<1>19. ASSUME NEW due \in [Pids -> Int], Sums(d.slp, d.qkey, due), d.slp # <<>>,
              d.qkey[d.slp[1]] < 0
       PROVE  /\ \A p \in ToSet(l) : due[p] < 0
              /\ \E due2 \in [Pids -> Int] :
                   Sums(rest, d.qkey, due2) /\ \A p \in Pids : due[p] <= due2[p]
  <2> DEFINE x == Before(d.slp, due, n + 1)
  <2>1. d.qkey \in [Pids -> Int] /\ n \in 0 .. Len(d.slp) /\ n + 1 \in 1 .. Len(d.slp) + 1
    BY <1>1, <1>2, DispFields
  <2>2. (\A i \in 1 .. n : due[d.slp[i]] < 0) /\ x <= 0
    BY <1>1, <1>18, <1>19, <2>1, RunOverdue
  <2>3. x \in Int
    BY <1>1, <2>1, BeforeInt
  <2>4. \A p \in ToSet(l) : due[p] < 0
    <3>1. TAKE p \in ToSet(l)
    <3>2. l \in Seq(Pids)
      BY <1>1, <1>2, SplitDistinct
    <3>3. /\ 1 \in 1 .. Len(d.slp) + 1 /\ n \in 0 .. Len(d.slp) /\ n - 1 + 1 = n /\ n \in Nat
      BY <2>1
    <3>4. /\ Len(l) = IF 1 <= n THEN n - 1 + 1 ELSE 0
          /\ \A i \in 1 .. n - 1 + 1 : l[i] = d.slp[1 + i - 1]
      BY <1>1, <3>3, SubSeqList
    <3> HIDE DEF l
    <3>5. PICK i \in 1 .. Len(l) : l[i] = p
      BY <3>2, SetOfList
    <3>6. i \in 1 .. n /\ 1 + i - 1 = i
      BY <3>3, <3>4, <3>5
    <3>7. QED  BY <2>2, <3>3, <3>4, <3>5, <3>6
  <2> DEFINE due2 == [p \in Pids |-> due[p] - x]
  <2>5. Sums(rest, d.qkey, due2)
    BY <1>1, <1>19, <2>1, DropSums
  <2> HIDE DEF x
  <2>6. due2 \in [Pids -> Int] /\ \A p \in Pids : due[p] <= due2[p]
    BY <2>2, <2>3
  <2> HIDE DEF due2, rest, l
  <2>7. QED  BY <2>4, <2>5, <2>6
<1>4. /\ l \in Seq(Pids) /\ IsInjective(l) /\ rest \in Seq(Pids) /\ IsInjective(rest)
      /\ ToSet(rest) = ToSet(d.slp) \ ToSet(l) /\ ToSet(l) \subseteq ToSet(d.slp)
  BY <1>1, <1>2, SplitDistinct
<1> HIDE DEF l, rest
<1>5. /\ b \in DispType /\ b.slp = rest /\ b.rdy = d.rdy /\ b.pstate = d.pstate
      /\ b.pprio = d.pprio /\ b.currpid = d.currpid /\ b.qkey = d.qkey
  BY <1>1, <1>4 DEF DispType
<1> HIDE DEF b
<1>6. ToSet(l) \subseteq Pids
  BY <1>4, SetOfList
<1>7. \A p \in ToSet(l) : d.pstate[p] \in Sleeping /\ Loose(b, p)
  <2>1. TAKE p \in ToSet(l)
  <2>2. p \in Pids /\ p \in ToSet(d.slp)
    BY <1>4, <1>6
  <2>3. d.pstate[p] \in Sleeping /\ p \notin ToSet(d.rdy)
    BY <2>2 DEF Good, Matches, Sleeping
  <2>4. QED  BY <1>4, <1>5, <2>3 DEF Loose
<1>8. Good(b, ToSet(l))
  <2>1. \A q \in Pids \ ToSet(l) : Matches(b, q)
    BY <1>4, <1>5 DEF Good, Matches
  <2>2. NULLPROC \notin ToSet(l)
    BY <1>7 DEF Good, Sleeping
  <2>3. Ordered(b)
    BY <1>5, OrderedKept DEF Good
  <2>4. QED  BY <1>4, <1>5, <1>7, <2>1, <2>2, <2>3 DEF Good
<1>9. Good(c, {}) /\ Readied(b, c, ToSet(l))
  BY <1>4, <1>7, <1>8, ReadyAllGood
<1> HIDE DEF c
<1>17. DelaysGood(c)
  BY <1>5, <1>9, <1>16 DEF DelaysGood, Readied, SameClockq
<1>10. Good(f, {}) /\ SltopGood(f) /\ OnlySltop(c, f)
  BY <1>9, <1>17, SetSltopGood
<1> HIDE DEF f
<1>11. Settled(e) /\ Kept(f, e, {}) /\ SameOthers(f, e) /\ SameClockq(f, e)
  BY <1>10, ReschedSettled
<1>12. Kept(d, f, {})
  <2>1. f.pprio = d.pprio /\ f.pstate = c.pstate
    BY <1>5, <1>9, <1>10 DEF OnlySltop, Readied
  <2>2. ASSUME NEW q \in Pids
        PROVE  /\ f.pstate[q] = "wait" <=> d.pstate[q] = "wait"
               /\ f.pstate[q] = "free" <=> d.pstate[q] = "free"
    <3>1. c.pstate[q] = IF q \in ToSet(l) THEN "ready" ELSE d.pstate[q]
      BY <1>5, <1>9 DEF Readied
    <3>2. CASE q \in ToSet(l)
      BY <1>7, <2>1, <3>1, <3>2 DEF Sleeping
    <3>3. CASE q \notin ToSet(l)
      BY <2>1, <3>1, <3>3
    <3>4. QED  BY <3>2, <3>3
  <2>3. QED  BY <2>1, <2>2 DEF Kept
<1>13. Kept(d, e, {})
  BY <1>11, <1>12 DEF Kept
<1>20. Wakes(d, e, ToSet(l))
  <2>1. e.slp = rest /\ \A q \in ToSet(rest) : e.qkey[q] = d.qkey[q]
    BY <1>5, <1>9, <1>10, <1>11 DEF Readied, SameClockq, OnlySltop
  <2>2. f.pstate = c.pstate /\ \A q \in Pids :
          c.pstate[q] = IF q \in ToSet(l) THEN "ready" ELSE d.pstate[q]
    BY <1>5, <1>9, <1>10 DEF Readied, OnlySltop
  <2>3. Others(d, e, ToSet(l)) /\ \A p \in ToSet(l) : e.pstate[p] \in {"curr", "ready"}
    BY <1>6, <1>11, <2>2 DEF SameOthers, Others
  <2>4. \A due2 : Sums(rest, d.qkey, due2) => Sums(e.slp, e.qkey, due2)
    <3>1. \A i \in 1 .. Len(rest) : e.qkey[rest[i]] = d.qkey[rest[i]]
      BY <1>4, <2>1, SetOfList
    <3>2. QED  BY <2>1, <3>1 DEF Sums
  <2> HIDE DEF e
  <2>5. QED  BY <1>4, <1>19, <2>1, <2>3, <2>4 DEF Wakes
<1>14. QED  BY <1>3, <1>11, <1>13, <1>20

\* send's delivery wakes the receiver, from recv or from recvtim's place on clockq.
LEMMA DeliverSettled ==
  ASSUME NEW d, Settled(d), NEW p \in Pids \ {NULLPROC}
  PROVE  LET e == Deliver(d, p) IN
         /\ Settled(e) /\ Kept(d, e, {}) /\ Moves(d, e, {p}) /\ e.pstate[p] \notin {"recv", "trecv"}
<1>1. Good(d, {}) /\ SltopGood(d)
  BY DEF Settled
<1>2. CASE d.pstate[p] = "recv"
  <2> DEFINE e == Resched(Ready(d, p))
  <2>1. Loose(d, p)
    BY <1>1, <1>2 DEF Good, Matches, Loose, Sleeping
  <2>2. Deliver(d, p) = e
    BY <1>2 DEF Deliver
  <2>3. Settled(e) /\ Kept(d, e, {p}) /\ e.pstate[p] \in {"curr", "ready"} /\ Moves(d, e, {p})
    BY <1>1, <2>1, ReadySettled
  <2> HIDE DEF e
  <2>4. Kept(d, e, {})
    BY <1>2, <2>3 DEF Kept
  <2>5. QED  BY <2>2, <2>3, <2>4
<1>3. CASE d.pstate[p] = "trecv"
  <2> DEFINE u == Unsleep(d, p)
             e == Resched(Ready(u, p))
  <2>1. /\ Good(u, {p}) /\ SltopGood(u) /\ u.pstate = d.pstate /\ u.pprio = d.pprio
        /\ DuesKept(d, u)
    BY <1>1, <1>3, UnsleepGood DEF Sleeping, SltopGood
  <2>2. Deliver(d, p) = e
    BY <1>3 DEF Deliver
  <2> HIDE DEF u
  <2>3. Loose(u, p)
    BY <2>1 DEF Good
  <2>4. Settled(e) /\ Kept(u, e, {p}) /\ e.pstate[p] \in {"curr", "ready"} /\ Moves(u, e, {p})
    BY <2>1, <2>3, ReadySettled
  <2> HIDE DEF e
  <2>5. Kept(d, e, {})
    BY <1>3, <2>1, <2>4 DEF Kept
  <2>6. Moves(d, e, {p})
    BY <2>1, <2>4 DEF Moves, Others, DuesKept
  <2>7. QED  BY <2>2, <2>4, <2>5, <2>6
<1>4. CASE d.pstate[p] \notin {"recv", "trecv"}
  <2>1. Deliver(d, p) = d
    BY <1>4 DEF Deliver
  <2>2. Kept(d, d, {}) /\ Moves(d, d, {p})
    BY DEF Kept, Moves, Others, DuesKept
  <2>3. QED  BY <1>4, <2>1, <2>2
<1>5. QED  BY <1>2, <1>3, <1>4

\* The current process leaves the processor with a state that calls for no list.
LEMMA LeaveSettled ==
  ASSUME NEW d, Settled(d), NEW p \in Pids \ {NULLPROC}, d.pstate[p] = "curr",
         NEW st \in States \ {"curr", "ready", "sleep", "trecv"}
  PROVE  LET e == Resched([d EXCEPT !.pstate[p] = st]) IN
         Settled(e) /\ Kept(d, e, {p}) /\ Moves(d, e, {p}) /\ e.pstate[p] = st
<1> DEFINE c == [d EXCEPT !.pstate[p] = st]
           e == Resched(c)
<1>1. Good(d, {}) /\ SltopGood(d) /\ d \in DispType
  BY DEF Settled, Good
<1>2. Loose(d, p)
  BY <1>1 DEF Good, Matches, Loose, Sleeping
<1>3. Good(c, {})
  BY <1>1, <1>2, SetLooseGood
<1>4. /\ c.slp = d.slp /\ c.slnempty = d.slnempty /\ c.sltop = d.sltop /\ c.pprio = d.pprio
      /\ c.qkey = d.qkey
      /\ c.pstate = [d.pstate EXCEPT ![p] = st] /\ d.pstate \in [Pids -> States]
  BY <1>1 DEF DispType
<1> HIDE DEF c
<1>5. SltopGood(c)
  BY <1>1, <1>4 DEF SltopGood, DelaysGood
<1>6. Settled(e) /\ Kept(c, e, {}) /\ SameOthers(c, e) /\ Moves(c, e, {})
  BY <1>3, <1>5, ReschedSettled
<1> HIDE DEF e
<1>7. Kept(d, e, {p})
  BY <1>4, <1>6 DEF Kept
<1>8. e.pstate[p] = st
  <2>1. c.pstate[p] = st
    BY <1>4
  <2>2. QED  BY <1>6, <2>1 DEF SameOthers
<1>9. Moves(d, e, {p})
  <2>1. Moves(d, c, {p}) /\ {p} \cup {} = {p}
    BY <1>4 DEF Moves, Others, DuesKept
  <2>2. Moves(d, e, {p} \cup {})
    BY <1>6, <2>1, MovesTransitive
  <2>3. QED  BY <2>1, <2>2
<1>10. QED  BY <1>6, <1>7, <1>8, <1>9 DEF c, e

\* Two updates by name.
SetState(d, p, st) == [d EXCEPT !.pstate[p] = st]
OffReady(d, p, st) == [d EXCEPT !.pstate[p] = st, !.rdy = Delete(@, p)]

\* A process that is neither current nor on a list gets a state that calls for none.
LEMMA SetLooseSettled ==
  ASSUME NEW d, NEW p \in Pids \ {NULLPROC}, NEW X, X \subseteq {p}, Good(d, X), Loose(d, p),
         SltopGood(d), HasCurrent(d), Highest(d), d.pstate[p] # "curr",
         NEW st \in States \ {"curr", "ready", "sleep", "trecv"}
  PROVE  LET e == SetState(d, p, st) IN
         Settled(e) /\ Kept(d, e, {p}) /\ Moves(d, e, {p}) /\ e.pstate[p] = st
<1> DEFINE e == SetState(d, p, st)
<1>1. Good(e, {})
  BY SetLooseGood DEF SetState
<1>2. d \in DispType /\ d.currpid \in Pids
  BY DispFields DEF Good
<1>3. /\ e.slp = d.slp /\ e.slnempty = d.slnempty /\ e.sltop = d.sltop /\ e.pprio = d.pprio
      /\ e.currpid = d.currpid /\ e.rdy = d.rdy /\ e.qkey = d.qkey
      /\ e.pstate = [d.pstate EXCEPT ![p] = st] /\ d.pstate \in [Pids -> States]
  BY <1>2 DEF DispType, SetState
<1> HIDE DEF e
<1>4. SltopGood(e)
  BY <1>3 DEF SltopGood, DelaysGood
<1>5. HasCurrent(e) /\ Highest(e)
  BY <1>2, <1>3 DEF HasCurrent, Highest
<1>6. Kept(d, e, {p}) /\ e.pstate[p] = st
  BY <1>3 DEF Kept
<1>7. Moves(d, e, {p})
  BY <1>3 DEF Moves, Others, DuesKept
<1>8. QED  BY <1>1, <1>4, <1>5, <1>6, <1>7 DEF e, Settled

LEMMA OffReadySettled ==
  ASSUME NEW d, Settled(d), NEW p \in Pids \ {NULLPROC}, d.pstate[p] = "ready",
         NEW st \in States \ {"curr", "ready", "sleep", "trecv"}
  PROVE  LET e == OffReady(d, p, st) IN
         Settled(e) /\ Kept(d, e, {p}) /\ Moves(d, e, {p}) /\ e.pstate[p] = st
<1> DEFINE e == OffReady(d, p, st)
<1>1. Good(e, {}) /\ ToSet(e.rdy) \subseteq ToSet(d.rdy)
  BY OffReadyGood DEF Settled, OffReady
<1>2. d \in DispType /\ d.currpid \in Pids
  BY DispFields DEF Good, Settled
<1>3. /\ e.slp = d.slp /\ e.slnempty = d.slnempty /\ e.sltop = d.sltop /\ e.pprio = d.pprio
      /\ e.currpid = d.currpid /\ e.qkey = d.qkey
      /\ e.pstate = [d.pstate EXCEPT ![p] = st] /\ d.pstate \in [Pids -> States]
  BY <1>2 DEF DispType, OffReady
<1> HIDE DEF e
<1>4. SltopGood(e)
  BY <1>3 DEF SltopGood, DelaysGood, Settled
<1>5. HasCurrent(e) /\ Highest(e)
  BY <1>1, <1>2, <1>3 DEF HasCurrent, Highest, Settled
<1>6. Kept(d, e, {p}) /\ e.pstate[p] = st
  BY <1>3 DEF Kept
<1>7. Moves(d, e, {p})
  BY <1>3 DEF Moves, Others, DuesKept
<1>8. QED  BY <1>1, <1>4, <1>5, <1>6, <1>7 DEF e, Settled

\* kill frees the slot of its victim, whatever the victim was doing.
LEMMA BurySettled ==
  ASSUME NEW d, Settled(d), NEW p \in Pids \ {NULLPROC}
  PROVE  LET e == Bury(d, p) IN
         Settled(e) /\ Kept(d, e, {p}) /\ Moves(d, e, {p}) /\ e.pstate[p] = "free"
<1>0. "free" \in States \ {"curr", "ready", "sleep", "trecv"}
  BY DEF States
<1>1. CASE d.pstate[p] = "curr"
  <2>1. Bury(d, p) = Resched([d EXCEPT !.pstate[p] = "free"])
    BY <1>1 DEF Bury
  <2>2. QED  BY <1>0, <1>1, <2>1, LeaveSettled
<1>2. CASE d.pstate[p] = "ready"
  <2> DEFINE e == OffReady(d, p, "free")
  <2>1. Bury(d, p) = e
    BY <1>2 DEF Bury, OffReady
  <2>2. Settled(e) /\ Kept(d, e, {p}) /\ Moves(d, e, {p}) /\ e.pstate[p] = "free"
    BY <1>0, <1>2, OffReadySettled
  <2> HIDE DEF e
  <2>3. QED  BY <2>1, <2>2
<1>3. CASE d.pstate[p] \in Sleeping
  <2> DEFINE u == Unsleep(d, p)
             e == SetState(u, p, "free")
  <2>1. Bury(d, p) = e
    BY <1>3 DEF Bury, Sleeping, SetState
  <2>2. /\ Good(u, {p}) /\ SltopGood(u) /\ u.pstate = d.pstate
        /\ u.pprio = d.pprio /\ u.currpid = d.currpid /\ u.rdy = d.rdy /\ DuesKept(d, u)
    BY <1>3, UnsleepGood DEF Settled, SltopGood
  <2> HIDE DEF u
  <2>3. Loose(u, p) /\ HasCurrent(u) /\ Highest(u) /\ u.pstate[p] # "curr"
    BY <1>3, <2>2 DEF Good, HasCurrent, Highest, Settled, Sleeping
  <2>4. Settled(e) /\ Kept(u, e, {p}) /\ Moves(u, e, {p}) /\ e.pstate[p] = "free"
    <3>1. {p} \subseteq {p}
      OBVIOUS
    <3>2. QED  BY <1>0, <2>2, <2>3, <3>1, SetLooseSettled
  <2> HIDE DEF e
  <2>5. Kept(d, e, {p})
    BY <2>2, <2>4 DEF Kept
  <2>6. Moves(d, e, {p})
    BY <2>2, <2>4 DEF Moves, Others, DuesKept
  <2>7. QED  BY <2>1, <2>4, <2>5, <2>6
<1>4. CASE d.pstate[p] \notin {"curr", "ready", "sleep", "trecv"}
  <2>1. Bury(d, p) = SetState(d, p, "free")
    BY <1>4 DEF Bury, SetState
  <2>2. Loose(d, p)
    BY <1>4 DEF Settled, Good, Matches, Loose, Sleeping
  <2>3. /\ Good(d, {}) /\ SltopGood(d) /\ HasCurrent(d) /\ Highest(d)
        /\ d.pstate[p] # "curr" /\ {} \subseteq {p}
    BY <1>4 DEF Settled
  <2>4. QED  BY <1>0, <2>1, <2>2, <2>3, SetLooseSettled
<1>5. QED  BY <1>1, <1>2, <1>3, <1>4 DEF Sleeping

\* The current process goes to sleep.
LEMMA SleepSettled ==
  ASSUME NEW d, Settled(d), NEW n \in Nat, NEW st \in Sleeping, d.currpid # NULLPROC
  PROVE  LET e == Resched([InsertSleep(d, d.currpid, n) EXCEPT !.pstate[d.currpid] = st]) IN
         /\ Settled(e) /\ Kept(d, e, {}) /\ Others(d, e, {d.currpid})
         /\ e.pstate[d.currpid] = st /\ Joins(d, e, d.currpid, n)
<1> DEFINE p == d.currpid
           c == [InsertSleep(d, p, n) EXCEPT !.pstate[p] = st]
           e == Resched(c)
<1>1. /\ Good(d, {}) /\ DelaysGood(d) /\ p \in Pids \ {NULLPROC} /\ d.pstate[p] = "curr"
      /\ d.pstate \in [Pids -> States]
  BY DispFields DEF Good, Settled, SltopGood, HasCurrent
<1> HIDE DEF p
<1>2. Loose(d, p)
  BY <1>1 DEF Good, Matches, Loose, Sleeping
<1>3. /\ Good(c, {}) /\ SltopGood(c) /\ c.pstate = [d.pstate EXCEPT ![p] = st]
      /\ c.pprio = d.pprio /\ Joins(d, c, p, n)
  BY <1>1, <1>2, SleepGood
<1> HIDE DEF c
<1>4. /\ Settled(e) /\ Kept(c, e, {}) /\ SameOthers(c, e) /\ SameClockq(c, e)
      /\ DuesKept(c, e)
  BY <1>3, ReschedSettled DEF Moves
<1> HIDE DEF e
<1>5. Kept(d, c, {})
  BY <1>1, <1>3 DEF Kept, Sleeping
<1>6. Kept(d, e, {})
  BY <1>4, <1>5 DEF Kept
<1>7. e.pstate[p] = st
  <2>1. c.pstate[p] = st
    BY <1>1, <1>3
  <2>2. QED  BY <1>1, <1>4, <2>1 DEF SameOthers, Sleeping
<1>8. Others(d, e, {p})
  BY <1>3, <1>4 DEF Others, SameOthers
<1>9. Joins(d, e, p, n)
  <2>1. ToSet(e.slp) = ToSet(d.slp) \cup {p}
    BY <1>3, <1>4 DEF Joins, SameClockq
  <2>2. ASSUME NEW due \in [Pids -> Int], Sums(d.slp, d.qkey, due)
        PROVE  Sums(e.slp, e.qkey, [due EXCEPT ![p] = n])
    <3>1. Sums(c.slp, c.qkey, [due EXCEPT ![p] = n])
      BY <1>3, <2>2 DEF Joins
    <3>2. [due EXCEPT ![p] = n] \in [Pids -> Int]
      BY <1>1
    <3>3. QED  BY <1>4, <3>1, <3>2 DEF DuesKept
  <2>3. QED  BY <2>1, <2>2 DEF Joins
<1>10. QED  BY <1>4, <1>6, <1>7, <1>8, <1>9 DEF p, c, e

\* The keys of sleepers and the rest of the quantum do not matter to the lists.
LEMMA KeysSettled ==
  ASSUME NEW d, Settled(d), NEW key \in [Pids -> Int], NEW n \in -1 .. Quantum,
         \A p \in ToSet(d.rdy) : key[p] = d.qkey[p]
  PROVE  LET e == [d EXCEPT !.qkey = key, !.preempt = n] IN
         /\ Good(e, {}) /\ Kept(d, e, {}) /\ Others(d, e, {})
         /\ e.slp = d.slp /\ e.qkey = key
         /\ (\A p \in ToSet(d.slp) : key[p] >= 0) => Settled(e)
<1> DEFINE e == [d EXCEPT !.qkey = key, !.preempt = n]
<1>1. d \in DispType
  BY DEF Good, Settled
<1>2. /\ e \in DispType /\ e.rdy = d.rdy /\ e.slp = d.slp /\ e.pstate = d.pstate
      /\ e.slnempty = d.slnempty /\ e.sltop = d.sltop /\ e.pprio = d.pprio
      /\ e.currpid = d.currpid /\ e.qkey = key
  BY <1>1 DEF DispType
<1> HIDE DEF e
<1>3. Good(e, {})
  <2>1. Ordered(e)
    BY <1>2, OrderedKept DEF Settled, Good
  <2>2. QED  BY <1>2, <2>1 DEF Settled, Good, Matches
<1>4. HasCurrent(e) /\ Highest(e) /\ Kept(d, e, {}) /\ Others(d, e, {})
  BY <1>2 DEF Settled, HasCurrent, Highest, Kept, Others
<1>5. ASSUME \A p \in ToSet(d.slp) : key[p] >= 0 PROVE SltopGood(e)
  BY <1>2, <1>5 DEF Settled, SltopGood, DelaysGood
<1>6. QED  BY <1>2, <1>3, <1>4, <1>5 DEF e, Settled

\* The end of the clock interrupt and of strtclk: reschedule when the quantum is used up.
LEMMA PreemptSettled ==
  ASSUME NEW d, Settled(d)
  PROVE  Settled(Preempt(d)) /\ Kept(d, Preempt(d), {}) /\ Moves(d, Preempt(d), {})
<1> DEFINE n == Dec(d.preempt)
           c == [d EXCEPT !.qkey = d.qkey, !.preempt = n]
<1>1. /\ d \in DispType /\ d.preempt \in -1 .. Quantum /\ d.qkey \in [Pids -> Int]
  BY DispFields DEF Good, Settled
<1>2. n \in -1 .. Quantum
  BY <1>1, QuantumAssumption DEF Dec
<1> HIDE DEF n
<1>3. Settled(c) /\ Kept(d, c, {}) /\ Moves(d, c, {})
  <2>1. \A p \in ToSet(d.slp) : d.qkey[p] >= 0
    BY DEF Settled, SltopGood, DelaysGood
  <2>2. Settled(c) /\ Kept(d, c, {}) /\ Others(d, c, {})
    BY <1>1, <1>2, <2>1, KeysSettled
  <2>3. c.slp = d.slp /\ c.qkey = d.qkey
    BY <1>1 DEF DispType
  <2> HIDE DEF c
  <2>4. QED  BY <2>2, <2>3 DEF Moves, DuesKept
<1>4. [d EXCEPT !.preempt = Dec(@)] = c
  BY <1>1 DEF DispType, n
<1> HIDE DEF c
<1>5. Preempt(d) = IF c.preempt < 0 THEN Resched(c) ELSE c
  BY <1>4 DEF Preempt
<1>6. Settled(Resched(c)) /\ Kept(c, Resched(c), {}) /\ Moves(c, Resched(c), {})
  BY <1>3, ReschedSettled DEF Settled
<1>7. Kept(d, Resched(c), {})
  BY <1>3, <1>6 DEF Kept
<1>8. Moves(d, Resched(c), {})
  <2>1. Moves(d, Resched(c), {} \cup {}) /\ {} \cup {} = {}
    BY <1>3, <1>6, MovesTransitive
  <2>2. QED  BY <2>1
<1>9. QED  BY <1>3, <1>5, <1>6, <1>7, <1>8

LEMMA SettleSettled ==
  ASSUME NEW d, Settled(d)
  PROVE  Settled(Settle(d)) /\ Kept(d, Settle(d), {}) /\ Moves(d, Settle(d), {})
<1>1. Settled(Resched(d)) /\ Kept(d, Resched(d), {}) /\ Moves(d, Resched(d), {})
  BY ReschedSettled DEF Settled
<1>2. Kept(d, d, {}) /\ Moves(d, d, {})
  BY DEF Kept, Moves, Others, DuesKept
<1>3. QED  BY <1>1, <1>2 DEF Settle

\* strtclk takes the ticks it makes up off keys and quantum only.
LEMMA MakeUpSettled ==
  ASSUME NEW d, Settled(d), NEW makeup \in Nat
  PROVE  LET e == MakeUp(d, makeup) IN Settled(e) /\ Kept(d, e, {}) /\ Others(d, e, {})
<1> DEFINE i == DeltaPos(d.slp, d.qkey, makeup)
           left == Remaining(d.slp, d.qkey, makeup)
           n == IF d.preempt < makeup THEN -1 ELSE d.preempt - makeup
           key == [p \in Pids |->
                    IF \E j \in 1 .. Len(d.slp) : j < i /\ d.slp[j] = p THEN 0
                    ELSE IF i <= Len(d.slp) /\ d.slp[i] = p THEN d.qkey[p] - left[i]
                    ELSE d.qkey[p]]
           c == [d EXCEPT !.qkey = key, !.preempt = n]
<1>1. /\ d \in DispType /\ d.preempt \in -1 .. Quantum /\ d.qkey \in [Pids -> Int]
      /\ d.slp \in Seq(Pids)
  BY DispFields DEF Good, Settled
<1>2. n \in -1 .. Quantum
  BY <1>1, QuantumAssumption
<1>9. i \in 1 .. Len(d.slp) + 1
  <2>1. d.slp \in Seq(Pids) /\ d.qkey \in [Pids -> Int] /\ makeup \in Int
    BY <1>1
  <2>2. QED  BY ONLY <2>1, DeltaPosRange
<1>3. left[i] \in Nat /\ (i <= Len(d.slp) => d.qkey[d.slp[i]] >= left[i])
  BY <1>1, DeltaPosKeys
<1>4. MakeUp(d, makeup) = c
  BY <1>1 DEF MakeUp, DispType
<1> HIDE DEF i, left, n
<1>5. key \in [Pids -> Int]
  BY <1>1, <1>3
<1>8. ASSUME NEW q \in ToSet(d.rdy) PROVE key[q] = d.qkey[q]
  <2>1. q \in Pids /\ q \notin ToSet(d.slp)
    <3>1. q \in Pids
      BY <1>1, DispFields, SetOfList
    <3>2. QED  BY <3>1 DEF Settled, Good, Matches, Sleeping
  <2>2. \A j \in 1 .. Len(d.slp) : d.slp[j] # q
    BY <1>1, <2>1, SetOfList
  <2>3. i <= Len(d.slp) => d.slp[i] # q
    BY <1>9, <2>2
  <2>4. QED  BY <2>1, <2>2, <2>3
<1>10. \A q \in ToSet(d.slp) : key[q] >= 0
  <2>1. TAKE q \in ToSet(d.slp)
  <2>2. q \in Pids /\ d.qkey[q] \in Int /\ d.qkey[q] >= 0
    BY <1>1, SetOfList DEF Settled, SltopGood, DelaysGood
  <2>3. i <= Len(d.slp) /\ d.slp[i] = q => d.qkey[q] - left[i] >= 0
    BY <1>3, <2>2
  <2>4. QED  BY <2>2, <2>3
<1> HIDE DEF key
<1>6. Settled(c) /\ Kept(d, c, {}) /\ Others(d, c, {})
  BY <1>2, <1>5, <1>8, <1>10, KeysSettled
<1>7. QED  BY <1>4, <1>6

------------------------------------------------------------------------------
(* The kernel: all its tables, and each of its steps. *)

\* The null process has priority zero, every other process a positive one.
PriosOk(d) == /\ d.pprio[NULLPROC] = 0
              /\ \A p \in UserPids : d.pstate[p] # "free" => d.pprio[p] > 0

\* ps, sem and q: process states, semaphores waited for, queues of the semaphores.
Queues(ps, sem, q) ==
  \A s \in Sems : /\ IsInjective(q[s])
                  /\ \A p \in Pids : p \in ToSet(q[s]) <=> ps[p] = "wait" /\ sem[p] = s

TableTyped == /\ psem \in [Pids -> Sems] /\ pnxtkin \in [Pids -> Pids \cup {BADPID}]
              /\ numproc \in Int /\ nextproc \in Pids
SemTyped == /\ sstate \in [Sems -> {"free", "used"}] /\ semcnt \in [Sems -> Int]
            /\ semq \in [Sems -> Seq(Pids)] /\ nextsem \in Sems
MsgTyped == phasmsg \in [Pids -> 0 .. HasMsgMod - 1] /\ pend \in [Pids -> BOOLEAN]
ClkTyped == defclk \in 0 .. MaxDefer /\ clkdiff \in Nat
OwedTyped == owed \in [Pids -> Int]

Ops == {"user", "kill", "receive", "recvtim", "clpreem", "strtclk"}
\* What kill still has to free is not the null process.
ContTyped == /\ cont \in [Pids -> [op : Ops, arg : Pids]]
             /\ \A p \in Pids : cont[p].op = "kill" => cont[p].arg # NULLPROC

IInv == /\ Settled(Now) /\ PriosOk(Now) /\ Queues(pstate, psem, semq) /\ CountIsQueue
        /\ TableTyped /\ SemTyped /\ MsgTyped /\ ClkTyped /\ OwedTyped /\ ContTyped

LEMMA NowFields ==
  /\ Now.pstate = pstate /\ Now.pprio = pprio /\ Now.qkey = qkey /\ Now.rdy = rdy
  /\ Now.slp = slp /\ Now.slnempty = slnempty /\ Now.sltop = sltop
  /\ Now.currpid = currpid /\ Now.preempt = preempt
BY DEF Now

\* The next values of the dispatcher's variables, as a record.
NextNow == [pstate |-> pstate', pprio |-> pprio', qkey |-> qkey', rdy |-> rdy', slp |-> slp',
            slnempty |-> slnempty', sltop |-> sltop', currpid |-> currpid', preempt |-> preempt']

LEMMA CommitNow ==
  ASSUME NEW e, Settled(e), Commit(e)
  PROVE  NextNow = e /\ pstate' = e.pstate
BY DEF Commit, NextNow, Settled, Good, DispType

LEMMA KeepNow ==
  ASSUME UNCHANGED dispVars
  PROVE  NextNow = Now /\ pstate' = Now.pstate
BY DEF dispVars, Now, NextNow

\* What a step must show of the dispatcher's part of IInv.
LEMMA PrimedParts ==
  ASSUME Settled(NextNow), PriosOk(NextNow)
  PROVE  Settled(Now)' /\ PriosOk(Now)'
BY DEF Settled, Good, DispType, Ordered, Ascends, Matches, Loose, SltopGood, DelaysGood,
   HasCurrent, Highest, PriosOk, Now, NextNow

LEMMA TypedNow ==
  ASSUME IInv
  PROVE  /\ Settled(Now) /\ PriosOk(Now) /\ Good(Now, {}) /\ SltopGood(Now) /\ HasCurrent(Now)
         /\ pstate \in [Pids -> States] /\ pprio \in [Pids -> 0 .. MAXINT]
         /\ qkey \in [Pids -> Int] /\ rdy \in Seq(Pids) /\ slp \in Seq(Pids)
         /\ slnempty \in BOOLEAN /\ sltop \in Pids /\ currpid \in Pids
         /\ preempt \in -1 .. Quantum /\ pstate[currpid] = "curr"
BY NowFields, DispFields DEF IInv, Settled, Good, HasCurrent

LEMMA PriosKept ==
  ASSUME NEW d, NEW e, NEW S, PriosOk(d), Kept(d, e, S),
         \A p \in S : e.pstate[p] = "free" \/ d.pstate[p] # "free"
  PROVE  PriosOk(e)
<1>1. d.pprio[NULLPROC] = 0 /\ e.pprio = d.pprio
  BY DEF PriosOk, Kept
<1>2. ASSUME NEW p \in UserPids, e.pstate[p] # "free" PROVE e.pprio[p] > 0
  <2>1. p \in Pids
    BY DEF UserPids
  <2>2. d.pstate[p] # "free"
    BY <1>2, <2>1 DEF Kept
  <2>3. QED  BY <1>1, <2>2 DEF PriosOk
<1>3. QED  BY <1>1, <1>2 DEF PriosOk

\* Nobody begins or stops waiting.
SameWaiters(e) == \A p \in Pids : e.pstate[p] = "wait" <=> pstate[p] = "wait"

LEMMA KeptWaiters ==
  ASSUME NEW e, NEW S, Kept(Now, e, S),
         \A p \in S : p \in Pids => e.pstate[p] # "wait" /\ pstate[p] # "wait"
  PROVE  SameWaiters(e)
BY NowFields DEF Kept, SameWaiters

\* Nobody is created and nobody dies; p alone dies.
SameFree == \A p \in Pids : pstate'[p] = "free" <=> pstate[p] = "free"
Dies(p) == \A q \in Pids : pstate'[q] = "free" <=> pstate[q] = "free" \/ q = p

\* The semaphores after a step that leaves them alone.
LEMMA SemKept ==
  ASSUME IInv, NEW e, SameWaiters(e), pstate' = e.pstate, UNCHANGED semVars,
         \A p \in Pids : pstate[p] = "wait" => psem'[p] = psem[p]
  PROVE  Queues(pstate, psem, semq)' /\ CountIsQueue' /\ SemTyped'
<1>1. semq' = semq /\ sstate' = sstate /\ semcnt' = semcnt /\ nextsem' = nextsem
  BY DEF semVars
<1>2. Queues(pstate, psem, semq)'
  <2>1. SUFFICES ASSUME NEW s \in Sems
                 PROVE  /\ IsInjective(semq'[s])
                        /\ \A p \in Pids : p \in ToSet(semq'[s]) <=>
                                             pstate'[p] = "wait" /\ psem'[p] = s
    BY DEF Queues
  <2>2. IsInjective(semq[s])
    BY DEF IInv, Queues
  <2>3. ASSUME NEW p \in Pids
        PROVE  p \in ToSet(semq[s]) <=> pstate'[p] = "wait" /\ psem'[p] = s
    BY DEF IInv, Queues, SameWaiters
  <2>4. QED  BY <1>1, <2>2, <2>3
<1>3. CountIsQueue'
  BY <1>1 DEF IInv, CountIsQueue
<1>4. SemTyped'
  BY <1>1 DEF IInv, SemTyped
<1>5. QED  BY <1>2, <1>3, <1>4

\* The dispatcher's and the semaphores' part of IInv after a step that commits e.
LEMMA KeptStep ==
  ASSUME IInv, NEW e, Settled(e), PriosOk(e), SameWaiters(e), Commit(e),
         UNCHANGED semVars, \A p \in Pids : pstate[p] = "wait" => psem'[p] = psem[p]
  PROVE  /\ Settled(Now)' /\ PriosOk(Now)'
         /\ Queues(pstate, psem, semq)' /\ CountIsQueue' /\ SemTyped'
<1>1. NextNow = e /\ pstate' = e.pstate
  BY CommitNow
<1>2. Settled(Now)' /\ PriosOk(Now)'
  BY <1>1, PrimedParts
<1>3. QED  BY <1>1, <1>2, SemKept

\* The same where e has the waiting processes and free slots of the state before.
LEMMA PlainStep ==
  ASSUME IInv, NEW e, Settled(e), Kept(Now, e, {}), Commit(e), UNCHANGED semVars, UNCHANGED psem
  PROVE  /\ Settled(Now)' /\ PriosOk(Now)'
         /\ Queues(pstate, psem, semq)' /\ CountIsQueue' /\ SemTyped' /\ SameFree
<1>1. PriosOk(e)
  BY PriosKept, TypedNow
<1>2. SameWaiters(e)
  BY KeptWaiters
<1>3. SameFree
  BY CommitNow, NowFields DEF Kept, SameFree
<1>4. QED  BY <1>1, <1>2, <1>3, KeptStep

\* And where the dispatcher's variables stay.
LEMMA IdleStep ==
  ASSUME IInv, UNCHANGED dispVars, UNCHANGED semVars, UNCHANGED psem
  PROVE  /\ Settled(Now)' /\ PriosOk(Now)'
         /\ Queues(pstate, psem, semq)' /\ CountIsQueue' /\ SemTyped' /\ SameFree
<1>1. Commit(Now)
  BY DEF dispVars, Commit, Now
<1>2. Kept(Now, Now, {})
  BY DEF Kept
<1>3. Settled(Now)
  BY TypedNow
<1>4. QED  BY <1>1, <1>2, <1>3, PlainStep

\* The variables a step leaves alone keep their types.
LEMMA TypesKept ==
  ASSUME IInv
  PROVE  /\ UNCHANGED tableVars => TableTyped'
         /\ UNCHANGED msgVars => MsgTyped'
         /\ UNCHANGED clkVars => ClkTyped'
         /\ UNCHANGED owed => OwedTyped'
         /\ UNCHANGED cont => ContTyped'
BY DEF IInv, TableTyped, MsgTyped, ClkTyped, OwedTyped, ContTyped, tableVars, msgVars, clkVars

\* A process goes on in user code, or notes what it has to do later.
Noted(p, op, arg) == cont' = [cont EXCEPT ![p] = [op |-> op, arg |-> arg]]

LEMMA ContChanged ==
  ASSUME IInv, NEW p \in Pids, NEW op \in Ops, NEW arg \in Pids, op = "kill" => arg # NULLPROC,
         Noted(p, op, arg)
  PROVE  ContTyped'
<1>1. cont \in [Pids -> [op : Ops, arg : Pids]]
  BY DEF IInv, ContTyped
<1>2. \A q \in Pids : cont'[q] = IF q = p THEN [op |-> op, arg |-> arg] ELSE cont[q]
  BY <1>1 DEF Noted
<1>3. cont' \in [Pids -> [op : Ops, arg : Pids]]
  BY <1>1 DEF Noted
<1>4. \A q \in Pids : cont'[q].op = "kill" => cont'[q].arg # NULLPROC
  BY <1>2 DEF IInv, ContTyped
<1>5. QED  BY <1>3, <1>4 DEF ContTyped

LEMMA ContOp ==
  ASSUME IInv, NEW p \in Pids, NEW op \in Ops \ {"kill"}, cont' = [cont EXCEPT ![p].op = op]
  PROVE  ContTyped'
<1> DEFINE c == cont[p]
<1>1. c \in [op : Ops, arg : Pids]
  BY DEF IInv, ContTyped
<1>2. cont' = [cont EXCEPT ![p] = [c EXCEPT !.op = op]]
  OBVIOUS
<1> HIDE DEF c
<1>3. [c EXCEPT !.op = op] = [op |-> op, arg |-> c.arg] /\ c.arg \in Pids
  BY <1>1
<1> DEFINE arg == c.arg
<1>4. Noted(p, op, arg) /\ arg \in Pids
  BY <1>2, <1>3 DEF Noted
<1> HIDE DEF arg
<1>5. op \in Ops /\ op # "kill"
  OBVIOUS
<1>6. QED  BY <1>4, <1>5, ContChanged

LEMMA ContUser ==
  ASSUME IInv, NEW p \in Pids, cont' = [cont EXCEPT ![p] = UserCode]
  PROVE  ContTyped'
<1>1. UserCode = [op |-> "user", arg |-> 0] /\ 0 \in Pids
  BY PidsFacts DEF UserCode, NULLPROC
<1>2. Noted(p, "user", 0)
  BY <1>1 DEF Noted
<1>3. QED  BY <1>1, <1>2, ContChanged DEF Ops

------------------------------------------------------------------------------
(* The process manager. *)

LEMMA UserFacts == \A p \in UserPids : p \in Pids \ {NULLPROC} /\ p \in Pids
BY DEF UserPids

LEMMA ResumeStep ==
  ASSUME IInv, NEW p \in UserPids, Resume(p)
  PROVE  IInv' /\ SameFree
<1> DEFINE e == Resched(Ready(Now, p))
<1>1. /\ pstate[p] = "susp" /\ Commit(e)
      /\ UNCHANGED <<semVars, tableVars, msgVars, clkVars, cont, owed>>
  BY DEF Resume
<1>2. Loose(Now, p)
  BY <1>1, TypedNow, NowFields, UserFacts DEF Good, Matches, Loose, Sleeping
<1>3. Settled(e) /\ Kept(Now, e, {p}) /\ e.pstate[p] \in {"curr", "ready"}
  <2>1. {} \subseteq {p} /\ p \in Pids /\ Good(Now, {}) /\ SltopGood(Now)
    BY TypedNow, UserFacts
  <2>2. QED  BY <1>2, <2>1, ReadySettled
<1> HIDE DEF e
<1>4. Kept(Now, e, {})
  BY <1>1, <1>3, NowFields DEF Kept
<1>5. UNCHANGED semVars /\ UNCHANGED psem
  BY <1>1 DEF tableVars
<1>6. /\ Settled(Now)' /\ PriosOk(Now)'
      /\ Queues(pstate, psem, semq)' /\ CountIsQueue' /\ SemTyped' /\ SameFree
  BY <1>1, <1>3, <1>4, <1>5, PlainStep
<1>7. QED  BY <1>1, <1>6, TypesKept DEF IInv

LEMMA SuspendStep ==
  ASSUME IInv, NEW p \in UserPids, Suspend(p)
  PROVE  IInv' /\ SameFree
<1>0. /\ Settled(Now) /\ p \in Pids \ {NULLPROC}
      /\ "susp" \in States \ {"curr", "ready", "sleep", "trecv"}
  BY TypedNow, UserFacts DEF States
<1>1. PICK e : /\ Settled(e) /\ Kept(Now, e, {p}) /\ e.pstate[p] = "susp" /\ Commit(e)
               /\ pstate[p] \in {"curr", "ready"}
  <2>1. CASE /\ pstate[p] = "ready"
             /\ Commit([Now EXCEPT !.pstate[p] = "susp", !.rdy = Delete(@, p)])
    <3> DEFINE f == OffReady(Now, p, "susp")
    <3>1. Commit(f)
      BY <2>1 DEF OffReady
    <3>2. Settled(f) /\ Kept(Now, f, {p}) /\ f.pstate[p] = "susp"
      BY <1>0, <2>1, NowFields, OffReadySettled
    <3> HIDE DEF f
    <3>3. QED  BY <2>1, <3>1, <3>2
  <2>2. CASE /\ pstate[p] = "curr"
             /\ Commit(Resched([Now EXCEPT !.pstate[p] = "susp"]))
    <3> DEFINE f == Resched([Now EXCEPT !.pstate[p] = "susp"])
    <3>1. Settled(f) /\ Kept(Now, f, {p}) /\ f.pstate[p] = "susp"
      BY <1>0, <2>2, NowFields, LeaveSettled
    <3>2. Commit(f)
      BY <2>2
    <3> HIDE DEF f
    <3>3. QED  BY <2>2, <3>1, <3>2
  <2>3. QED  BY <2>1, <2>2 DEF Suspend
<1>2. Kept(Now, e, {})
  BY <1>0, <1>1, NowFields DEF Kept
<1>3. UNCHANGED <<semVars, tableVars, msgVars, clkVars, cont, owed>>
  BY DEF Suspend
<1>4. UNCHANGED semVars /\ UNCHANGED psem
  BY <1>3 DEF tableVars
<1>5. /\ Settled(Now)' /\ PriosOk(Now)'
      /\ Queues(pstate, psem, semq)' /\ CountIsQueue' /\ SemTyped' /\ SameFree
  BY <1>1, <1>2, <1>4, PlainStep
<1>6. QED  BY <1>3, <1>5, TypesKept DEF IInv

\* A new priority of a process that is not ready moves nobody by itself.
LEMMA SetPrioGood ==
  ASSUME NEW d, NEW X, Good(d, X), NEW p \in Pids, p \notin ToSet(d.rdy), NEW x \in 0 .. MAXINT
  PROVE  LET c == [d EXCEPT !.pprio[p] = x] IN
         /\ Good(c, X) /\ c.pstate = d.pstate /\ c.pprio = [d.pprio EXCEPT ![p] = x]
         /\ c.rdy = d.rdy /\ c.currpid = d.currpid /\ SameClockq(d, c)
<1> DEFINE pr == [d.pprio EXCEPT ![p] = x]
           c == [d EXCEPT !.pprio = pr]
<1>1. d \in DispType /\ d.pprio \in [Pids -> 0 .. MAXINT] /\ d.rdy \in Seq(Pids)
  BY DispFields DEF Good
<1>2. pr \in [Pids -> 0 .. MAXINT] /\ \A q \in ToSet(d.rdy) : pr[q] = d.pprio[q]
  BY <1>1, SetOfList
<1> HIDE DEF pr
<1>3. /\ c \in DispType /\ c.rdy = d.rdy /\ c.slp = d.slp /\ c.pstate = d.pstate
      /\ c.slnempty = d.slnempty /\ c.sltop = d.sltop /\ c.pprio = pr
      /\ c.currpid = d.currpid /\ c.qkey = d.qkey
  BY <1>1, <1>2 DEF DispType
<1>4. [d EXCEPT !.pprio[p] = x] = c
  BY DEF pr
<1> HIDE DEF c
<1>5. Ordered(c)
  <2>1. \A i \in 1 .. Len(d.rdy) : pr[d.rdy[i]] = d.pprio[d.rdy[i]]
    BY <1>1, <1>2, SetOfList
  <2>2. QED  BY <1>2, <1>3, <2>1 DEF Good, Ordered, Ascends
<1>6. Good(c, X)
  BY <1>3, <1>5 DEF Good, Matches, Loose
<1>7. SameClockq(d, c)
  BY <1>3 DEF SameClockq
<1>8. QED  BY <1>3, <1>4, <1>6, <1>7 DEF pr

\* Unless it is the running process, nothing is to be rescheduled either.
LEMMA SetPrioSettled ==
  ASSUME NEW d, Settled(d), NEW p \in Pids, d.pstate[p] # "ready", NEW x \in 0 .. MAXINT
  PROVE  LET c == [d EXCEPT !.pprio[p] = x] IN
         /\ Good(c, {}) /\ SltopGood(c)
         /\ c.pstate = d.pstate /\ c.pprio = [d.pprio EXCEPT ![p] = x] /\ Moves(d, c, {})
         /\ d.pstate[p] # "curr" => Settled(c)
<1> DEFINE c == [d EXCEPT !.pprio[p] = x]
<1>1. p \notin ToSet(d.rdy) /\ Good(d, {})
  BY DEF Settled, Good, Matches
<1>2. /\ Good(c, {}) /\ c.pstate = d.pstate /\ c.pprio = [d.pprio EXCEPT ![p] = x]
      /\ c.rdy = d.rdy /\ c.currpid = d.currpid /\ SameClockq(d, c)
  BY <1>1, SetPrioGood
<1> HIDE DEF c
<1>3. SltopGood(c) /\ HasCurrent(c)
  BY <1>2 DEF Settled, SltopGood, DelaysGood, SameClockq, HasCurrent
<1>4. ASSUME d.pstate[p] # "curr" PROVE Highest(c)
  <2>1. d.currpid # p /\ d.currpid \in Pids
    BY <1>1, <1>4, DispFields DEF Settled, HasCurrent, Good
  <2>2. d.pprio \in [Pids -> 0 .. MAXINT] /\ ToSet(d.rdy) \subseteq Pids
    BY <1>1, DispFields, SetOfList DEF Good
  <2>3. \A q \in Pids : q # p => c.pprio[q] = d.pprio[q]
    BY <1>2, <2>2
  <2>4. QED  BY <1>1, <1>2, <2>1, <2>2, <2>3 DEF Settled, Highest
<1>5. Moves(d, c, {})
  BY <1>1, <1>2, DispFields, MovesTable DEF Good, Others
<1>6. QED  BY <1>2, <1>3, <1>4, <1>5 DEF c, Settled

\* chprio takes a ready process off the ready list and inserts it under its new key.
LEMMA RequeueSettled ==
  ASSUME NEW d, Settled(d), NEW p \in Pids \ {NULLPROC}, d.pstate[p] = "ready",
         NEW x \in 0 .. MAXINT
  PROVE  LET c == [d EXCEPT !.pprio[p] = x]
             e == Resched(InsertReady([c EXCEPT !.rdy = Delete(@, p)], p)) IN
         Settled(e) /\ Kept(c, e, {}) /\ c.pstate = d.pstate /\ Moves(d, e, {})
<1> DEFINE a == [d EXCEPT !.rdy = Delete(@, p)]
           b == [a EXCEPT !.pprio[p] = x]
           c == [d EXCEPT !.pprio[p] = x]
           e == Resched(Ready(b, p))
<1>1. Good(d, {}) /\ SltopGood(d) /\ "susp" \in States \ {"curr", "ready", "sleep", "trecv"}
  BY DEF Settled, States
<1>2. Good(a, {p}) /\ a \in DispType
  BY <1>1, OffReadyGood
<1>3. d \in DispType
  BY <1>1 DEF Good
<1>4. /\ a.pstate = d.pstate /\ a.slp = d.slp /\ a.pprio = d.pprio
      /\ a.slnempty = d.slnempty /\ a.sltop = d.sltop /\ a.qkey = d.qkey
  BY <1>3 DEF DispType
<1>5. /\ [c EXCEPT !.rdy = Delete(@, p)] = b
      /\ c.pstate = d.pstate /\ c.pprio = [d.pprio EXCEPT ![p] = x]
  BY <1>3 DEF DispType
<1> HIDE DEF a, c
<1>6. p \notin ToSet(a.rdy) /\ p \in Pids /\ x \in 0 .. MAXINT
  BY <1>2 DEF Good, Loose
<1>7. /\ Good(b, {p}) /\ b.pstate = a.pstate /\ b.pprio = [a.pprio EXCEPT ![p] = x]
      /\ SameClockq(a, b)
  BY <1>2, <1>6, SetPrioGood
<1> HIDE DEF b
<1>8. [b EXCEPT !.pstate[p] = "ready"] = b
  BY <1>4, <1>7 DEF DispType, Good
<1>9. Ready(b, p) = InsertReady(b, p)
  BY <1>8 DEF Ready
<1>10. SltopGood(b) /\ Loose(b, p) /\ p \in Pids /\ {p} \subseteq {p}
  BY <1>1, <1>4, <1>7 DEF SltopGood, DelaysGood, SameClockq, Good
<1>11. Settled(e) /\ Kept(b, e, {p}) /\ e.pstate[p] \in {"curr", "ready"} /\ Moves(b, e, {p})
  BY <1>7, <1>10, ReadySettled
<1>12. Resched(InsertReady(b, p)) = e
  BY <1>9
<1> HIDE DEF e
<1>13. Kept(c, e, {})
  BY <1>4, <1>5, <1>7, <1>11 DEF Kept
<1>14. Moves(d, e, {})
  <2>1. b.pstate = d.pstate /\ SameClockq(d, b) /\ d.slp \in Seq(Pids)
    BY <1>1, <1>4, <1>7, DispFields DEF SameClockq, Good
  <2>2. Others(d, e, {})
    BY <1>11, <2>1 DEF Moves, Others
  <2>3. DuesKept(d, b)
    BY <2>1, SameDues
  <2>4. DuesKept(d, e)
    BY <1>11, <2>3 DEF Moves, DuesKept
  <2>5. QED  BY <2>2, <2>4 DEF Moves
<1>15. QED  BY <1>5, <1>11, <1>12, <1>13, <1>14 DEF c

LEMMA ChprioStep ==
  ASSUME IInv, NEW p \in UserPids, NEW newprio \in Prios, Chprio(p, newprio)
  PROVE  IInv' /\ SameFree
<1> DEFINE c == [Now EXCEPT !.pprio[p] = newprio]
           e == CASE pstate[p] = "ready" -> Resched(InsertReady([c EXCEPT !.rdy = Delete(@, p)], p))
                  [] pstate[p] = "curr" -> Resched(c)
                  [] OTHER -> c
<1>0. /\ newprio > 0 /\ newprio \in 0 .. MAXINT /\ pstate[p] # "free" /\ Commit(e)
      /\ UNCHANGED <<semVars, tableVars, msgVars, clkVars, cont, owed>>
  BY KeysAssumption DEF Chprio
<1>1. /\ Settled(Now) /\ p \in Pids \ {NULLPROC} /\ p \in Pids
      /\ pprio \in [Pids -> 0 .. MAXINT]
  BY TypedNow, UserFacts
<1>2. c.pstate = pstate /\ c.pprio = [pprio EXCEPT ![p] = newprio]
  BY DEF Now
<1>3. Settled(e) /\ Kept(c, e, {})
  <2>1. CASE pstate[p] = "ready"
    <3> DEFINE f == Resched(InsertReady([c EXCEPT !.rdy = Delete(@, p)], p))
    <3>1. Settled(f) /\ Kept(c, f, {})
      BY <1>0, <1>1, <2>1, RequeueSettled, NowFields
    <3> HIDE DEF f
    <3>2. e = f
      BY <2>1 DEF f
    <3> HIDE DEF e
    <3>3. QED  BY <3>1, <3>2
  <2>2. CASE pstate[p] = "curr"
    <3>1. Good(c, {}) /\ SltopGood(c)
      BY <1>0, <1>1, <2>2, SetPrioSettled, NowFields
    <3> HIDE DEF c
    <3>2. Settled(Resched(c)) /\ Kept(c, Resched(c), {})
      BY <3>1, ReschedSettled
    <3>3. QED  BY <2>2, <3>2
  <2>3. CASE pstate[p] \notin {"ready", "curr"}
    <3>1. Settled(c)
      BY <1>0, <1>1, <2>3, SetPrioSettled, NowFields
    <3>2. QED  BY <2>3, <3>1 DEF Kept
  <2>4. QED  BY <2>1, <2>2, <2>3
<1>4. Commit(e)
  BY <1>0
<1> HIDE DEF e, c
<1>5. PriosOk(e)
  <2>1. PriosOk(c)
    BY <1>0, <1>1, <1>2, TypedNow, NowFields DEF PriosOk, UserPids
  <2>2. QED  BY <1>3, <2>1, PriosKept
<1>6. SameWaiters(e)
  BY <1>2, <1>3 DEF Kept, SameWaiters
<1>7. UNCHANGED semVars /\ psem' = psem
  BY <1>0 DEF tableVars
<1>8. /\ Settled(Now)' /\ PriosOk(Now)'
      /\ Queues(pstate, psem, semq)' /\ CountIsQueue' /\ SemTyped'
  BY <1>3, <1>4, <1>5, <1>6, <1>7, KeptStep
<1>9. SameFree
  BY <1>2, <1>3, <1>4, CommitNow DEF Kept, SameFree
<1>10. QED  BY <1>0, <1>8, <1>9, TypesKept DEF IInv

LEMMA SlotRange ==
  ASSUME NEW i \in Int, NEW n \in Nat \ {0}
  PROVE  i % n \in 0 .. n - 1
OBVIOUS

LEMMA NewpidFree ==
  ASSUME IInv, FreeSlots # {}
  PROVE  Newpid \in Pids \ {NULLPROC} /\ pstate[Newpid] = "free"
<1>1. NProc \in Nat \ {0} /\ nextproc \in Int
  BY NProcAssumption, PidsFacts DEF IInv, TableTyped
<1>2. \A i \in 1 .. NProc : Search[i] \in Pids
  <2>1. TAKE i \in 1 .. NProc
  <2>2. nextproc - (i - 1) \in Int
    BY <1>1
  <2>3. (nextproc - (i - 1)) % NProc \in 0 .. NProc - 1
    BY <1>1, <2>2, SlotRange
  <2>4. QED  BY <2>3 DEF Search, Pids
<1>3. FreeSlots \subseteq Nat
  BY <1>1 DEF FreeSlots
<1>4. Min(FreeSlots) \in FreeSlots
  BY <1>3, MinNat
<1>5. Newpid \in Pids /\ pstate[Newpid] = "free"
  BY <1>2, <1>4 DEF FreeSlots, Newpid
<1>6. pstate[NULLPROC] # "free"
  BY TypedNow, NowFields DEF Good
<1>7. QED  BY <1>5, <1>6

\* create succeeds in a slot that was free.
Born == \E p \in UserPids :
          /\ pstate[p] = "free" /\ numproc' = numproc + 1
          /\ \A q \in Pids : pstate'[q] = "free" <=> pstate[q] = "free" /\ q # p
          /\ pstate'[p] = "susp"
          /\ cont' = [cont EXCEPT ![p] = UserCode] /\ pnxtkin' = [pnxtkin EXCEPT ![p] = BADPID]

LEMMA CreateStep ==
  ASSUME IInv, Create
  PROVE  IInv' /\ (Born \/ (SameFree /\ UNCHANGED <<numproc, pnxtkin, cont>>))
<1>1. PICK prio \in Prios :
       IF prio < 1 THEN UNCHANGED <<dispVars, psem, pnxtkin, numproc, msgVars, cont>>
       ELSE /\ Commit([Now EXCEPT !.pstate[Newpid] = "susp", !.pprio[Newpid] = prio])
            /\ numproc' = numproc + 1
            /\ psem' = [psem EXCEPT ![Newpid] = 0]
            /\ pnxtkin' = [pnxtkin EXCEPT ![Newpid] = BADPID]
            /\ phasmsg' = [phasmsg EXCEPT ![Newpid] = 0]
            /\ pend' = [pend EXCEPT ![Newpid] = FALSE]
            /\ cont' = [cont EXCEPT ![Newpid] = UserCode]
  BY DEF Create
<1>2. /\ FreeSlots # {} /\ nextproc' = PrevSlot(Newpid, NProc)
      /\ UNCHANGED <<semVars, clkVars, owed>>
  BY DEF Create
<1> DEFINE p == Newpid
<1>3. p \in Pids \ {NULLPROC} /\ pstate[p] = "free"
  BY <1>2, NewpidFree
<1> HIDE DEF p
<1>4. nextproc' \in Pids
  <2>1. p - 1 \in Int /\ NProc \in Nat \ {0}
    BY <1>3, PidsFacts, NProcAssumption
  <2>2. (p - 1) % NProc \in 0 .. NProc - 1
    BY <2>1, SlotRange
  <2>3. QED  BY <1>2, <2>2 DEF PrevSlot, Pids, p
<1>5. /\ psem \in [Pids -> Sems] /\ pnxtkin \in [Pids -> Pids \cup {BADPID}] /\ numproc \in Int
      /\ 0 \in Sems
  BY NSemAssumption DEF IInv, TableTyped, Sems
<1>6. CASE prio < 1
  <2>1. UNCHANGED <<dispVars, psem, pnxtkin, numproc, msgVars, cont>>
    BY <1>1, <1>6
  <2>2. /\ Settled(Now)' /\ PriosOk(Now)'
        /\ Queues(pstate, psem, semq)' /\ CountIsQueue' /\ SemTyped' /\ SameFree
    BY <1>2, <2>1, IdleStep
  <2>3. TableTyped'
    BY <1>4, <1>5, <2>1 DEF TableTyped
  <2>4. QED  BY <1>2, <2>1, <2>2, <2>3, TypesKept DEF IInv
<1>7. CASE ~(prio < 1)
  <2> DEFINE c == [Now EXCEPT !.pprio[p] = prio]
             e == SetState(c, p, "susp")
  <2>1. /\ Commit(e) /\ numproc' = numproc + 1
        /\ psem' = [psem EXCEPT ![p] = 0] /\ pnxtkin' = [pnxtkin EXCEPT ![p] = BADPID]
        /\ phasmsg' = [phasmsg EXCEPT ![p] = 0] /\ pend' = [pend EXCEPT ![p] = FALSE]
        /\ cont' = [cont EXCEPT ![p] = UserCode]
    <3>1. [Now EXCEPT !.pstate[p] = "susp", !.pprio[p] = prio] = e
      BY DEF SetState, Now
    <3>2. QED  BY <1>1, <1>7, <3>1 DEF p
  <2>2. Settled(Now) /\ pprio \in [Pids -> 0 .. MAXINT]
    BY TypedNow
  <2>3. prio \in 0 .. MAXINT /\ prio > 0
    BY <1>7, KeysAssumption
  <2>4. Settled(c) /\ c.pstate = pstate /\ c.pprio = [pprio EXCEPT ![p] = prio]
    BY <1>3, <2>2, <2>3, SetPrioSettled, NowFields
  <2> HIDE DEF c
  <2>5. /\ Loose(c, p) /\ Good(c, {}) /\ SltopGood(c) /\ HasCurrent(c) /\ Highest(c)
        /\ c.pstate[p] # "curr"
        /\ {} \subseteq {p} /\ "susp" \in States \ {"curr", "ready", "sleep", "trecv"}
    BY <1>3, <2>4 DEF Settled, Good, Matches, Loose, Sleeping, States
  <2>6. Settled(e) /\ Kept(c, e, {p}) /\ e.pstate[p] = "susp"
    BY <1>3, <2>5, SetLooseSettled
  <2> HIDE DEF e
  <2>7. PriosOk(e)
    <3>1. e.pprio = [pprio EXCEPT ![p] = prio]
      BY <2>4, <2>6 DEF Kept
    <3>2. e.pprio[NULLPROC] = 0
      BY <1>3, <2>2, <3>1, PidsFacts, NowFields DEF IInv, PriosOk
    <3>3. ASSUME NEW q \in UserPids, e.pstate[q] # "free" PROVE e.pprio[q] > 0
      <4>1. CASE q = p
        BY <2>2, <2>3, <3>1, <4>1, UserFacts
      <4>2. CASE q # p
        <5>1. pstate[q] # "free"
          BY <2>4, <2>6, <3>3, <4>2, UserFacts DEF Kept
        <5>2. QED  BY <2>2, <3>1, <4>2, <5>1, NowFields, UserFacts DEF IInv, PriosOk
      <4>3. QED  BY <4>1, <4>2
    <3>4. QED  BY <3>2, <3>3 DEF PriosOk
  <2>8. SameWaiters(e)
    BY <1>3, <2>4, <2>6 DEF Kept, SameWaiters
  <2>9. \A q \in Pids : pstate[q] = "wait" => psem'[q] = psem[q]
    BY <1>3, <1>5, <2>1
  <2>10. /\ Settled(Now)' /\ PriosOk(Now)'
         /\ Queues(pstate, psem, semq)' /\ CountIsQueue' /\ SemTyped'
    BY <1>2, <2>1, <2>6, <2>7, <2>8, <2>9, KeptStep
  <2>11. TableTyped'
    <3>1. psem' \in [Pids -> Sems] /\ pnxtkin' \in [Pids -> Pids \cup {BADPID}]
      BY <1>3, <1>5, <2>1
    <3>2. QED  BY <1>4, <1>5, <2>1, <3>1 DEF TableTyped
  <2>12. MsgTyped'
    BY <1>3, <2>1, BoundsAssumption DEF IInv, MsgTyped
  <2>13. ContTyped'
    BY <1>3, <2>1, ContUser
  <2>14. Born
    <3>1. \A q \in Pids : pstate'[q] = "free" <=> pstate[q] = "free" /\ q # p
      BY <1>3, <2>1, <2>4, <2>6, CommitNow DEF Kept
    <3>2. p \in UserPids /\ pnxtkin' = [pnxtkin EXCEPT ![p] = BADPID]
      BY <1>3, <2>1 DEF UserPids
    <3>3. pstate'[p] = "susp"
      BY <2>1, <2>6, CommitNow
    <3>4. QED  BY <1>3, <2>1, <3>1, <3>2, <3>3 DEF Born
  <2>15. QED  BY <1>2, <2>10, <2>11, <2>12, <2>13, <2>14, TypesKept DEF IInv
<1>8. QED  BY <1>6, <1>7

LEMMA SetnokStep ==
  ASSUME IInv, NEW nok \in Pids \cup {BADPID}, NEW p \in UserPids, Setnok(nok, p)
  PROVE  IInv' /\ SameFree
<1>1. /\ pnxtkin' = [pnxtkin EXCEPT ![p] = nok]
      /\ UNCHANGED <<dispVars, semVars, psem, numproc, nextproc, msgVars, clkVars, cont, owed>>
  BY DEF Setnok
<1>2. /\ Settled(Now)' /\ PriosOk(Now)'
      /\ Queues(pstate, psem, semq)' /\ CountIsQueue' /\ SemTyped' /\ SameFree
  BY <1>1, IdleStep
<1>3. TableTyped'
  BY <1>1, UserFacts DEF IInv, TableTyped
<1>4. QED  BY <1>1, <1>2, <1>3, TypesKept DEF IInv

------------------------------------------------------------------------------
(* Queues of semaphores. *)

LEMMA QueueFacts ==
  ASSUME IInv, NEW s \in Sems
  PROVE  /\ semq[s] \in Seq(Pids) /\ IsInjective(semq[s]) /\ semcnt[s] \in Int
         /\ Len(semq[s]) \in Nat
         /\ Len(semq[s]) = IF sstate[s] = "used" /\ semcnt[s] < 0 THEN -semcnt[s] ELSE 0
         /\ ToSet(semq[s]) \subseteq Pids
         /\ \A p \in ToSet(semq[s]) : pstate[p] = "wait" /\ psem[p] = s /\ Loose(Now, p)
         /\ \A p \in Pids : pstate[p] = "wait" /\ psem[p] = s => p \in ToSet(semq[s])
<1>1. semq[s] \in Seq(Pids) /\ IsInjective(semq[s]) /\ semcnt[s] \in Int
  BY DEF IInv, SemTyped, Queues
<1>2. Len(semq[s]) = IF sstate[s] = "used" /\ semcnt[s] < 0 THEN -semcnt[s] ELSE 0
  BY DEF IInv, CountIsQueue
<1>3. ToSet(semq[s]) \subseteq Pids
  BY <1>1, SetOfList
<1>4. \A p \in Pids : p \in ToSet(semq[s]) <=> pstate[p] = "wait" /\ psem[p] = s
  BY DEF IInv, Queues
<1>5. \A p \in Pids : pstate[p] = "wait" => Loose(Now, p)
  BY TypedNow, NowFields DEF Good, Matches, Loose, Sleeping
<1>6. Len(semq[s]) \in Nat
  BY <1>1
<1>7. QED  BY <1>1, <1>2, <1>3, <1>4, <1>5, <1>6

\* The processes of R leave the queue of s and stop waiting, nobody else does.
LEMMA QueuesReleased ==
  ASSUME IInv, NEW s \in Sems, NEW R, NEW l \in Seq(Pids), IsInjective(l),
         R \subseteq ToSet(semq[s]), ToSet(l) = ToSet(semq[s]) \ R,
         semq' = [semq EXCEPT ![s] = l], psem' = psem,
         NEW e, pstate' = e.pstate, Kept(Now, e, R), \A p \in R : e.pstate[p] # "wait"
  PROVE  /\ Queues(pstate, psem, semq)' /\ semq' \in [Sems -> Seq(Pids)]
         /\ \A t \in Sems : semq'[t] = IF t = s THEN l ELSE semq[t]
<1>1. semq \in [Sems -> Seq(Pids)]
  BY DEF IInv, SemTyped
<1>2. semq' \in [Sems -> Seq(Pids)] /\ \A t \in Sems : semq'[t] = IF t = s THEN l ELSE semq[t]
  BY <1>1
<1>3. R \subseteq Pids
  BY QueueFacts
<1>4. ASSUME NEW t \in Sems
      PROVE  /\ IsInjective(semq'[t])
             /\ \A p \in Pids : p \in ToSet(semq'[t]) <=> pstate'[p] = "wait" /\ psem'[p] = t
  <2>1. IsInjective(semq'[t])
    BY <1>2, QueueFacts
  <2>2. ASSUME NEW p \in Pids
        PROVE  p \in ToSet(semq'[t]) <=> pstate'[p] = "wait" /\ psem'[p] = t
    <3>1. p \in ToSet(semq[t]) <=> pstate[p] = "wait" /\ psem[p] = t
      BY DEF IInv, Queues
    <3>2. CASE p \in R
      <4>1. pstate'[p] # "wait" /\ psem[p] = s
        BY <3>2, QueueFacts
      <4>2. p \notin ToSet(semq'[t])
        BY <1>2, <3>1, <3>2, <4>1
      <4>3. QED  BY <4>1, <4>2
    <3>3. CASE p \notin R
      <4>1. pstate'[p] = "wait" <=> pstate[p] = "wait"
        BY <3>3, NowFields DEF Kept
      <4>2. p \in ToSet(semq'[t]) <=> p \in ToSet(semq[t])
        BY <1>2, <3>3
      <4>3. QED  BY <3>1, <4>1, <4>2
    <3>4. QED  BY <3>2, <3>3
  <2>3. QED  BY <2>1, <2>2
<1>5. QED  BY <1>2, <1>4 DEF Queues

\* kill's end, where d is the state it finds: the victim leaves the semaphore it waits for.
LEMMA BuryStep ==
  ASSUME IInv, NEW p \in UserPids, NEW d, Settled(d), Kept(Now, d, {}),
         Commit(Bury(d, p)), LeaveSemaphore(p), psem' = psem
  PROVE  /\ Settled(Now)' /\ PriosOk(Now)'
         /\ Queues(pstate, psem, semq)' /\ CountIsQueue' /\ SemTyped' /\ Dies(p)
<1> DEFINE e == Bury(d, p)
<1>1. p \in Pids \ {NULLPROC} /\ p \in Pids
  BY UserFacts
<1>2. Settled(e) /\ Kept(d, e, {p}) /\ e.pstate[p] = "free"
  BY <1>1, BurySettled
<1>3. Commit(e)
  OBVIOUS
<1> HIDE DEF e
<1>4. Kept(Now, e, {p})
  BY <1>2 DEF Kept
<1>5. PriosOk(e)
  BY <1>2, <1>4, PriosKept, TypedNow
<1>6. Dies(p)
  BY <1>1, <1>2, <1>3, <1>4, CommitNow, NowFields DEF Kept, Dies
<1>7. CASE pstate[p] # "wait"
  <2>1. UNCHANGED semVars
    BY <1>7 DEF LeaveSemaphore
  <2>2. SameWaiters(e)
    BY <1>2, <1>4, <1>7, KeptWaiters
  <2>3. QED  BY <1>2, <1>3, <1>5, <1>6, <2>1, <2>2, KeptStep
<1>8. CASE pstate[p] = "wait"
  <2> DEFINE s == psem[p]
             l == Delete(semq[s], p)
  <2>1. s \in Sems
    BY <1>1 DEF IInv, TableTyped
  <2>2. /\ semcnt' = [semcnt EXCEPT ![s] = semcnt[s] + 1]
        /\ semq' = [semq EXCEPT ![s] = l]
        /\ UNCHANGED <<sstate, nextsem>>
    BY <1>8 DEF LeaveSemaphore
  <2> HIDE DEF s
  <2>3. /\ semq[s] \in Seq(Pids) /\ IsInjective(semq[s]) /\ p \in ToSet(semq[s])
        /\ semcnt[s] \in Int /\ Len(semq[s]) \in Nat
        /\ Len(semq[s]) = IF sstate[s] = "used" /\ semcnt[s] < 0 THEN -semcnt[s] ELSE 0
    BY <1>1, <1>8, <2>1, QueueFacts DEF s
  <2>4. /\ l \in Seq(Pids) /\ IsInjective(l) /\ ToSet(l) = ToSet(semq[s]) \ {p}
        /\ Len(l) = Len(semq[s]) - 1
    BY <2>3, DeleteList
  <2> HIDE DEF l
  <2>5. NextNow = e /\ pstate' = e.pstate
    BY <1>2, <1>3, CommitNow
  <2>6. /\ Queues(pstate, psem, semq)' /\ semq' \in [Sems -> Seq(Pids)]
        /\ \A t \in Sems : semq'[t] = IF t = s THEN l ELSE semq[t]
    <3>1. {p} \subseteq ToSet(semq[s]) /\ \A q \in {p} : e.pstate[q] # "wait"
      BY <1>2, <2>3
    <3>2. QED  BY <1>4, <2>1, <2>2, <2>4, <2>5, <3>1, QueuesReleased
  <2>7. CountIsQueue'
    <3>1. semcnt \in [Sems -> Int]
      BY DEF IInv, SemTyped
    <3>2. SUFFICES ASSUME NEW t \in Sems
                   PROVE  Len(semq'[t]) =
                            IF sstate[t] = "used" /\ semcnt'[t] < 0 THEN -semcnt'[t] ELSE 0
      BY <2>2 DEF CountIsQueue
    <3>3. CASE t = s
      <4>1. Len(semq[s]) # 0
        BY <2>4, <2>3
      <4>2. semcnt'[s] = semcnt[s] + 1
        BY <2>1, <2>2, <3>1
      <4>3. QED  BY <2>1, <2>3, <2>4, <2>6, <3>3, <4>1, <4>2
    <3>4. CASE t # s
      <4>1. semcnt'[t] = semcnt[t] /\ semq'[t] = semq[t]
        BY <2>2, <2>6, <3>1, <3>4
      <4>2. QED  BY <4>1, QueueFacts
    <3>5. QED  BY <3>3, <3>4
  <2>8. SemTyped'
    BY <2>1, <2>2, <2>6 DEF IInv, SemTyped
  <2>9. QED  BY <1>2, <1>5, <1>6, <2>5, <2>6, <2>7, <2>8, PrimedParts
<1>9. QED  BY <1>7, <1>8

LEMMA FinishKillStep ==
  ASSUME IInv, FinishKill
  PROVE  IInv' /\ cont[currpid].arg \in UserPids /\ Dies(cont[currpid].arg)
<1> DEFINE p == cont[currpid].arg
<1>1. /\ cont[currpid].op = "kill" /\ Commit(Bury(Now, p)) /\ LeaveSemaphore(p)
      /\ cont' = [cont EXCEPT ![currpid] = UserCode]
      /\ UNCHANGED <<tableVars, msgVars, clkVars, owed>>
  BY DEF FinishKill
<1>2. currpid \in Pids /\ Settled(Now) /\ Kept(Now, Now, {})
  BY TypedNow DEF Kept
<1>3. p \in UserPids
  BY <1>1, <1>2 DEF IInv, ContTyped, UserPids
<1> HIDE DEF p
<1>4. psem' = psem
  BY <1>1 DEF tableVars
<1>5. /\ Settled(Now)' /\ PriosOk(Now)'
      /\ Queues(pstate, psem, semq)' /\ CountIsQueue' /\ SemTyped' /\ Dies(p)
  BY <1>1, <1>2, <1>3, <1>4, BuryStep
<1>6. ContTyped'
  BY <1>1, <1>2, ContUser
<1>7. QED  BY <1>1, <1>3, <1>5, <1>6, TypesKept DEF IInv, p

LEMMA KillStep ==
  ASSUME IInv, NEW p \in UserPids, Kill(p)
  PROVE  /\ IInv'
         /\ \/ Dies(p) /\ cont' = cont
            \/ SameFree /\ Noted(currpid, "kill", p) /\ pnxtkin[p] \in UserPids
<1> DEFINE nok == pnxtkin[p]
           notify == nok \in UserPids /\ pstate[nok] # "free" /\ phasmsg[nok] = 0
           d == IF notify THEN Deliver(Now, nok) ELSE Now
<1>1. /\ numproc' = numproc - 1
      /\ phasmsg' = IF notify THEN [phasmsg EXCEPT ![nok] = 1] ELSE phasmsg
      /\ pend' = IF notify THEN [pend EXCEPT ![nok] = TRUE] ELSE pend
      /\ IF d.currpid = currpid
         THEN Commit(Bury(d, p)) /\ LeaveSemaphore(p) /\ UNCHANGED cont
         ELSE /\ Commit(d) /\ UNCHANGED semVars
              /\ cont' = [cont EXCEPT ![currpid] = [op |-> "kill", arg |-> p]]
      /\ UNCHANGED <<psem, pnxtkin, nextproc, clkVars, owed>>
  BY DEF Kill
<1>2. Settled(Now) /\ Kept(Now, Now, {}) /\ currpid \in Pids
  BY TypedNow DEF Kept
<1>3. Settled(d) /\ Kept(Now, d, {})
  <2>1. CASE notify
    <3>1. Settled(Deliver(Now, nok)) /\ Kept(Now, Deliver(Now, nok), {})
      BY <1>2, <2>1, UserFacts, DeliverSettled
    <3>2. QED  BY <2>1, <3>1
  <2>2. CASE ~notify
    BY <1>2, <2>2
  <2>3. QED  BY <2>1, <2>2
<1>9. d.currpid # currpid => pnxtkin[p] \in UserPids
  BY NowFields
<1> HIDE DEF d
<1>4. MsgTyped'
  <2>1. CASE notify
    <3>1. phasmsg' = [phasmsg EXCEPT ![nok] = 1] /\ pend' = [pend EXCEPT ![nok] = TRUE]
      BY <1>1, <2>1
    <3>2. 1 \in 0 .. HasMsgMod - 1
      BY BoundsAssumption
    <3>3. nok \in Pids
      BY <2>1, UserFacts
    <3> HIDE DEF nok
    <3>4. QED  BY <3>1, <3>2, <3>3 DEF IInv, MsgTyped
  <2>2. CASE ~notify
    BY <1>1, <2>2 DEF IInv, MsgTyped
  <2>3. QED  BY <2>1, <2>2
<1>5. TableTyped'
  BY <1>1 DEF IInv, TableTyped
<1>6. CASE d.currpid = currpid
  <2>1. Commit(Bury(d, p)) /\ LeaveSemaphore(p) /\ UNCHANGED cont /\ psem' = psem
    BY <1>1, <1>6
  <2>2. /\ Settled(Now)' /\ PriosOk(Now)'
        /\ Queues(pstate, psem, semq)' /\ CountIsQueue' /\ SemTyped' /\ Dies(p)
    BY <1>3, <2>1, BuryStep
  <2>3. QED  BY <1>1, <1>4, <1>5, <2>1, <2>2, TypesKept DEF IInv
<1>7. CASE d.currpid # currpid
  <2>1. Commit(d) /\ UNCHANGED semVars /\ UNCHANGED psem /\ Noted(currpid, "kill", p)
    BY <1>1, <1>7 DEF Noted
  <2>2. /\ Settled(Now)' /\ PriosOk(Now)'
        /\ Queues(pstate, psem, semq)' /\ CountIsQueue' /\ SemTyped' /\ SameFree
    BY <1>3, <2>1, PlainStep
  <2>3. ContTyped'
    <3>1. "kill" \in Ops /\ p \in Pids /\ p # NULLPROC
      BY UserFacts DEF Ops
    <3>2. QED  BY <1>2, <2>1, <3>1, ContChanged
  <2>4. QED  BY <1>1, <1>4, <1>5, <1>7, <1>9, <2>1, <2>2, <2>3, TypesKept DEF IInv
<1>8. QED  BY <1>6, <1>7

------------------------------------------------------------------------------
(* Semaphores. *)

\* What remains to show of a semaphore call, the rest being left alone.
LEMMA SemStep ==
  ASSUME IInv, SemUnchanged, psem' \in [Pids -> Sems],
         Settled(Now)', PriosOk(Now)', Queues(pstate, psem, semq)', CountIsQueue', SemTyped'
  PROVE  IInv'
<1>1. UNCHANGED <<pnxtkin, numproc, nextproc, msgVars, clkVars, cont, owed>>
  BY DEF SemUnchanged
<1>2. TableTyped'
  BY <1>1 DEF IInv, TableTyped
<1>3. QED  BY <1>1, <1>2, TypesKept DEF IInv

LEMMA PsemTyped ==
  ASSUME IInv
  PROVE  psem \in [Pids -> Sems]
BY DEF IInv, TableTyped

LEMMA NewsemFree ==
  ASSUME IInv, FreeSems # {}
  PROVE  SemSearch[Min(FreeSems)] \in Sems /\ sstate[SemSearch[Min(FreeSems)]] = "free"
<1>1. NSem \in Nat \ {0} /\ nextsem \in Int /\ Sems \subseteq Int
  BY NSemAssumption DEF IInv, SemTyped, Sems
<1>2. \A i \in 1 .. NSem : SemSearch[i] \in Sems
  <2>1. TAKE i \in 1 .. NSem
  <2>2. nextsem - (i - 1) \in Int
    BY <1>1
  <2>3. (nextsem - (i - 1)) % NSem \in 0 .. NSem - 1
    BY <1>1, <2>2, SlotRange
  <2>4. QED  BY <2>3 DEF SemSearch, Sems
<1>3. FreeSems \subseteq Nat
  BY <1>1 DEF FreeSems
<1>4. Min(FreeSems) \in FreeSems
  BY <1>3, MinNat
<1>5. QED  BY <1>2, <1>4 DEF FreeSems

LEMMA ScreateStep ==
  ASSUME IInv, NEW count \in Nat, Screate(count)
  PROVE  IInv' /\ SameFree
<1> DEFINE sem == SemSearch[Min(FreeSems)]
<1>1. /\ FreeSems # {} /\ sstate' = [sstate EXCEPT ![sem] = "used"]
      /\ semcnt' = [semcnt EXCEPT ![sem] = count] /\ nextsem' = PrevSlot(sem, NSem)
      /\ UNCHANGED <<dispVars, semq, psem>> /\ SemUnchanged
  BY DEF Screate
<1>2. NSem \in Nat \ {0} /\ Sems \subseteq Int
  BY NSemAssumption DEF Sems
<1>4. sem \in Sems /\ sstate[sem] = "free"
  BY <1>1, NewsemFree
<1> HIDE DEF sem
<1>5. nextsem' \in Sems
  <2>1. sem - 1 \in Int
    BY <1>2, <1>4
  <2>2. (sem - 1) % NSem \in 0 .. NSem - 1
    BY <1>2, <2>1, SlotRange
  <2>3. QED  BY <1>1, <2>2 DEF PrevSlot, Sems
<1>6. Settled(Now)' /\ PriosOk(Now)' /\ pstate' = pstate
  <2>1. NextNow = Now /\ pstate' = pstate
    BY <1>1, KeepNow, NowFields
  <2>2. QED  BY <2>1, TypedNow, PrimedParts
<1>7. Queues(pstate, psem, semq)'
  BY <1>1, <1>6 DEF IInv, Queues
<1>8. SemTyped'
  BY <1>1, <1>4, <1>5 DEF IInv, SemTyped
<1>9. CountIsQueue'
  <2>1. SUFFICES ASSUME NEW t \in Sems
                 PROVE  Len(semq[t]) =
                          IF sstate'[t] = "used" /\ semcnt'[t] < 0 THEN -semcnt'[t] ELSE 0
    BY <1>1 DEF CountIsQueue
  <2>2. sstate \in [Sems -> {"free", "used"}] /\ semcnt \in [Sems -> Int]
    BY DEF IInv, SemTyped
  <2>3. CASE t = sem
    <3>1. semcnt'[t] = count /\ Len(semq[t]) = 0
      BY <1>1, <1>4, <2>2, <2>3, QueueFacts
    <3>2. QED  BY <3>1
  <2>4. CASE t # sem
    <3>1. semcnt'[t] = semcnt[t] /\ sstate'[t] = sstate[t]
      BY <1>1, <1>4, <2>2, <2>4
    <3>2. QED  BY <3>1, QueueFacts
  <2>5. QED  BY <2>3, <2>4
<1>10. QED  BY <1>1, <1>6, <1>7, <1>8, <1>9, PsemTyped, SemStep DEF SameFree

\* A call that empties a part of the queue of s into the ready list and sets count and
\* state of s accordingly.
LEMMA ReleaseStep ==
  ASSUME IInv, NEW s \in Sems, NEW R, NEW l \in Seq(Pids), IsInjective(l),
         R \subseteq ToSet(semq[s]), ToSet(l) = ToSet(semq[s]) \ R,
         semq' = [semq EXCEPT ![s] = l], psem' = psem, SemUnchanged,
         NEW n \in Int, semcnt' = [semcnt EXCEPT ![s] = n],
         NEW st \in {"free", "used"}, sstate' = [sstate EXCEPT ![s] = st],
         Len(l) = IF st = "used" /\ n < 0 THEN -n ELSE 0, nextsem' = nextsem,
         NEW e, Commit(e), Settled(e), Kept(Now, e, R),
         \A p \in R : e.pstate[p] \in {"curr", "ready"}
  PROVE  IInv' /\ SameFree
<1>1. NextNow = e /\ pstate' = e.pstate
  BY CommitNow
<1>2. R \subseteq Pids /\ \A p \in R : e.pstate[p] # "wait" /\ pstate[p] # "free"
  BY QueueFacts
<1>3. PriosOk(e)
  BY <1>2, PriosKept, TypedNow, NowFields
<1>4. Settled(Now)' /\ PriosOk(Now)'
  BY <1>1, <1>3, PrimedParts
<1>5. /\ Queues(pstate, psem, semq)' /\ semq' \in [Sems -> Seq(Pids)]
      /\ \A t \in Sems : semq'[t] = IF t = s THEN l ELSE semq[t]
  BY <1>1, <1>2, QueuesReleased
<1>6. sstate \in [Sems -> {"free", "used"}] /\ semcnt \in [Sems -> Int] /\ nextsem \in Sems
  BY DEF IInv, SemTyped
<1>7. SemTyped'
  BY <1>5, <1>6 DEF SemTyped
<1>8. CountIsQueue'
  <2>1. SUFFICES ASSUME NEW t \in Sems
                 PROVE  Len(semq'[t]) =
                          IF sstate'[t] = "used" /\ semcnt'[t] < 0 THEN -semcnt'[t] ELSE 0
    BY DEF CountIsQueue
  <2>2. CASE t = s
    <3>1. semcnt'[t] = n /\ sstate'[t] = st /\ semq'[t] = l
      BY <1>5, <1>6, <2>2
    <3>2. QED  BY <3>1
  <2>3. CASE t # s
    <3>1. semcnt'[t] = semcnt[t] /\ sstate'[t] = sstate[t] /\ semq'[t] = semq[t]
      BY <1>5, <1>6, <2>3
    <3>2. QED  BY <3>1, QueueFacts
  <2>4. QED  BY <2>2, <2>3
<1>9. SameFree
  BY <1>1, <1>2, NowFields DEF Kept, SameFree
<1>10. QED  BY <1>4, <1>5, <1>7, <1>8, <1>9, PsemTyped, SemStep

\* The state after the processes of a part l of a semaphore's queue were readied.
LEMMA ReleasedSettled ==
  ASSUME IInv, NEW s \in Sems, NEW l \in Seq(Pids), IsInjective(l),
         ToSet(l) \subseteq ToSet(semq[s])
  PROVE  LET e == Resched(ReadyAll(Now, l)) IN
         /\ Settled(e) /\ Kept(Now, e, ToSet(l)) /\ Moves(Now, e, ToSet(l))
         /\ \A p \in ToSet(l) : e.pstate[p] \in {"curr", "ready"}
<1>1. \A p \in ToSet(l) : Loose(Now, p)
  BY QueueFacts
<1>2. Good(Now, {}) /\ SltopGood(Now)
  BY TypedNow
<1>3. QED  BY <1>1, <1>2, ReadyAllSettled

LEMMA EmptyList ==
  /\ <<>> \in Seq(Pids) /\ IsInjective(<<>>) /\ Len(<<>>) = 0
  /\ \A R : ToSet(<<>>) = R \ R
BY DEF IsInjective, ToSet

LEMMA SdeleteStep ==
  ASSUME IInv, NEW s \in Sems, Sdelete(s)
  PROVE  IInv' /\ SameFree
<1> DEFINE R == ToSet(semq[s])
           f == Resched(ReadyAll(Now, semq[s]))
           e == IF semq[s] = <<>> THEN Now ELSE f
           n == semcnt[s]
<1>1. /\ sstate' = [sstate EXCEPT ![s] = "free"] /\ semq' = [semq EXCEPT ![s] = <<>>]
      /\ Commit(e) /\ UNCHANGED <<semcnt, nextsem, psem>> /\ SemUnchanged
  BY DEF Sdelete
<1>2. semq[s] \in Seq(Pids) /\ IsInjective(semq[s]) /\ n \in Int
  BY QueueFacts
<1>3. semcnt' = [semcnt EXCEPT ![s] = n]
  BY <1>1 DEF IInv, SemTyped
<1>4. Settled(e) /\ Kept(Now, e, R) /\ \A p \in R : e.pstate[p] \in {"curr", "ready"}
  <2>1. Settled(f) /\ Kept(Now, f, R) /\ \A p \in R : f.pstate[p] \in {"curr", "ready"}
    BY <1>2, ReleasedSettled
  <2>2. semq[s] = <<>> => R = {}
    BY EmptyList
  <2>3. Settled(Now) /\ Kept(Now, Now, R)
    BY TypedNow DEF Kept
  <2> HIDE DEF f, R
  <2>4. CASE semq[s] = <<>>
    BY <2>2, <2>3, <2>4
  <2>5. CASE semq[s] # <<>>
    BY <2>1, <2>5
  <2>6. QED  BY <2>4, <2>5
<1> HIDE DEF e, n
<1>5. R \subseteq ToSet(semq[s]) /\ ToSet(<<>>) = ToSet(semq[s]) \ R
  BY EmptyList
<1> HIDE DEF R
<1> DEFINE l == <<>>
           st == "free"
<1>6. /\ l \in Seq(Pids) /\ IsInjective(l) /\ st \in {"free", "used"}
      /\ Len(l) = IF st = "used" /\ n < 0 THEN -n ELSE 0
  BY EmptyList
<1>7. semq' = [semq EXCEPT ![s] = l] /\ sstate' = [sstate EXCEPT ![s] = st] /\ ToSet(l) = ToSet(semq[s]) \ R
  BY <1>1, <1>5
<1> HIDE DEF l, st
<1>8. psem' = psem /\ nextsem' = nextsem /\ SemUnchanged /\ Commit(e)
  BY <1>1
<1>9. QED  BY <1>2, <1>3, <1>4, <1>5, <1>6, <1>7, <1>8, ReleaseStep

LEMMA SresetStep ==
  ASSUME IInv, NEW s \in Sems, NEW count \in Nat, Sreset(s, count)
  PROVE  IInv' /\ SameFree
<1> DEFINE R == ToSet(semq[s])
           e == Resched(ReadyAll(Now, semq[s]))
<1>1. /\ sstate[s] = "used" /\ semcnt' = [semcnt EXCEPT ![s] = count]
      /\ semq' = [semq EXCEPT ![s] = <<>>]
      /\ Commit(e) /\ UNCHANGED <<sstate, nextsem, psem>> /\ SemUnchanged
  BY DEF Sreset
<1>2. semq[s] \in Seq(Pids) /\ IsInjective(semq[s])
  BY QueueFacts
<1>3. Settled(e) /\ Kept(Now, e, R) /\ \A p \in R : e.pstate[p] \in {"curr", "ready"}
  BY <1>2, ReleasedSettled
<1> HIDE DEF e
<1>4. R \subseteq ToSet(semq[s]) /\ ToSet(<<>>) = ToSet(semq[s]) \ R
  BY EmptyList
<1> HIDE DEF R
<1> DEFINE l == <<>>
           st == "used"
<1>5. /\ l \in Seq(Pids) /\ IsInjective(l) /\ st \in {"free", "used"} /\ count \in Int
      /\ Len(l) = IF st = "used" /\ count < 0 THEN -count ELSE 0
  BY EmptyList
<1>6. semq' = [semq EXCEPT ![s] = l] /\ ToSet(l) = ToSet(semq[s]) \ R
  BY <1>1, <1>4
<1>7. sstate' = [sstate EXCEPT ![s] = st]
  BY <1>1 DEF IInv, SemTyped
<1> HIDE DEF l, st
<1>8. /\ psem' = psem /\ nextsem' = nextsem /\ SemUnchanged /\ Commit(e)
      /\ semcnt' = [semcnt EXCEPT ![s] = count]
  BY <1>1
<1>9. QED  BY <1>3, <1>4, <1>5, <1>6, <1>7, <1>8, ReleaseStep

\* The state does not change but for the count.
LEMMA CountStep ==
  ASSUME IInv, NEW s \in Sems, NEW n \in Int, semcnt' = [semcnt EXCEPT ![s] = n],
         sstate[s] = "used", n >= 0, Len(semq[s]) = 0,
         UNCHANGED <<dispVars, semq, psem, sstate, nextsem>>, SemUnchanged
  PROVE  IInv' /\ SameFree
<1>1. Settled(Now)' /\ PriosOk(Now)' /\ pstate' = pstate
  <2>1. NextNow = Now /\ pstate' = pstate
    BY KeepNow, NowFields
  <2>2. QED  BY <2>1, TypedNow, PrimedParts
<1>2. Queues(pstate, psem, semq)' /\ SemTyped'
  BY <1>1 DEF IInv, Queues, SemTyped
<1>3. CountIsQueue'
  <2>1. SUFFICES ASSUME NEW t \in Sems
                 PROVE  Len(semq[t]) =
                          IF sstate[t] = "used" /\ semcnt'[t] < 0 THEN -semcnt'[t] ELSE 0
    BY DEF CountIsQueue
  <2>2. semcnt \in [Sems -> Int]
    BY DEF IInv, SemTyped
  <2>3. CASE t = s
    <3>1. semcnt'[t] = n
      BY <2>2, <2>3
    <3>2. QED  BY <2>3, <3>1
  <2>4. CASE t # s
    <3>1. semcnt'[t] = semcnt[t]
      BY <2>2, <2>4
    <3>2. QED  BY <3>1, QueueFacts
  <2>5. QED  BY <2>3, <2>4
<1>4. psem' \in [Pids -> Sems]
  BY PsemTyped
<1>5. QED  BY <1>1, <1>2, <1>3, <1>4, SemStep DEF SameFree

LEMMA SignalStep ==
  ASSUME IInv, NEW s \in Sems, Signal(s)
  PROVE  IInv' /\ SameFree
<1> DEFINE n == semcnt[s] + 1
<1>1. /\ sstate[s] = "used" /\ semcnt' = [semcnt EXCEPT ![s] = n]
      /\ UNCHANGED <<sstate, nextsem, psem>> /\ SemUnchanged
  BY DEF Signal
<1>2. /\ semq[s] \in Seq(Pids) /\ IsInjective(semq[s]) /\ semcnt[s] \in Int
      /\ Len(semq[s]) = IF semcnt[s] < 0 THEN -semcnt[s] ELSE 0
  BY <1>1, QueueFacts
<1>3. n \in Int
  BY <1>2
<1>4. CASE semcnt[s] < 0
  <2> DEFINE p == Head(semq[s])
             l == Tail(semq[s])
             e == Resched(Ready(Now, p))
  <2>1. semq' = [semq EXCEPT ![s] = l] /\ Commit(e)
    BY <1>4 DEF Signal
  <2>2. semq[s] # <<>>
    BY <1>2, <1>4
  <2>3. /\ l \in Seq(Pids) /\ IsInjective(l) /\ Len(l) = Len(semq[s]) - 1
        /\ p \in Pids /\ p \in ToSet(semq[s]) /\ ToSet(l) = ToSet(semq[s]) \ {p}
    BY <1>2, <2>2, HeadTailDistinct
  <2> HIDE DEF l, p
  <2>4. Settled(e) /\ Kept(Now, e, {p}) /\ e.pstate[p] \in {"curr", "ready"}
    <3>1. Loose(Now, p) /\ Good(Now, {}) /\ SltopGood(Now) /\ {} \subseteq {p} /\ p \in Pids
      BY <2>3, QueueFacts, TypedNow
    <3>2. QED  BY <3>1, ReadySettled
  <2> HIDE DEF e
  <2> DEFINE R == {p}
             st == "used"
  <2>5. /\ R \subseteq ToSet(semq[s]) /\ ToSet(l) = ToSet(semq[s]) \ R /\ Kept(Now, e, R)
        /\ \A q \in R : e.pstate[q] \in {"curr", "ready"}
    BY <2>3, <2>4
  <2>6. Len(l) = IF st = "used" /\ n < 0 THEN -n ELSE 0
    BY <1>2, <1>4, <2>3
  <2>7. sstate' = [sstate EXCEPT ![s] = st] /\ st \in {"free", "used"}
    BY <1>1 DEF IInv, SemTyped
  <2> HIDE DEF n, R, st
  <2>8. QED  BY <1>1, <1>3, <2>1, <2>3, <2>4, <2>5, <2>6, <2>7, ReleaseStep
<1>5. CASE ~(semcnt[s] < 0)
  <2>1. UNCHANGED <<semq, dispVars>>
    BY <1>5 DEF Signal
  <2>2. n >= 0 /\ Len(semq[s]) = 0
    BY <1>2, <1>5
  <2> HIDE DEF n
  <2>3. QED  BY <1>1, <1>3, <2>1, <2>2, CountStep
<1>6. QED  BY <1>4, <1>5

LEMMA SignalnStep ==
  ASSUME IInv, NEW s \in Sems, NEW count \in Nat, Signaln(s, count)
  PROVE  IInv' /\ SameFree
<1> DEFINE m == IF semcnt[s] >= 0 THEN 0 ELSE IF count < -semcnt[s] THEN count ELSE -semcnt[s]
           n == semcnt[s] + count
           l == SubSeq(semq[s], m + 1, Len(semq[s]))
           freed == SubSeq(semq[s], 1, m)
           e == Resched(ReadyAll(Now, freed))
<1>1. /\ sstate[s] = "used" /\ count > 0 /\ semcnt' = [semcnt EXCEPT ![s] = n]
      /\ semq' = [semq EXCEPT ![s] = l] /\ Commit(e)
      /\ UNCHANGED <<sstate, nextsem, psem>> /\ SemUnchanged
  BY DEF Signaln
<1>2. /\ semq[s] \in Seq(Pids) /\ IsInjective(semq[s]) /\ semcnt[s] \in Int
      /\ Len(semq[s]) = IF semcnt[s] < 0 THEN -semcnt[s] ELSE 0
  BY <1>1, QueueFacts
<1>3. n \in Int /\ m \in 0 .. Len(semq[s])
  BY <1>2
<1>4. Len(semq[s]) - m = IF n < 0 THEN -n ELSE 0
  BY <1>1, <1>2
<1> HIDE DEF m, n
<1>5. /\ l \in Seq(Pids) /\ IsInjective(l) /\ Len(l) = Len(semq[s]) - m
      /\ freed \in Seq(Pids) /\ IsInjective(freed)
      /\ ToSet(l) = ToSet(semq[s]) \ ToSet(freed) /\ ToSet(freed) \subseteq ToSet(semq[s])
  BY <1>2, <1>3, SplitDistinct
<1> HIDE DEF l, freed
<1>6. /\ Settled(e) /\ Kept(Now, e, ToSet(freed))
      /\ \A p \in ToSet(freed) : e.pstate[p] \in {"curr", "ready"}
  BY <1>5, ReleasedSettled
<1> HIDE DEF e
<1> DEFINE R == ToSet(freed)
           st == "used"
<1>7. Len(l) = IF st = "used" /\ n < 0 THEN -n ELSE 0
  BY <1>4, <1>5
<1>8. sstate' = [sstate EXCEPT ![s] = st] /\ st \in {"free", "used"}
  BY <1>1 DEF IInv, SemTyped
<1>9. /\ R \subseteq ToSet(semq[s]) /\ ToSet(l) = ToSet(semq[s]) \ R /\ Kept(Now, e, R)
      /\ \A q \in R : e.pstate[q] \in {"curr", "ready"}
  BY <1>5, <1>6
<1> HIDE DEF R, st
<1>10. QED  BY <1>1, <1>3, <1>5, <1>6, <1>7, <1>8, <1>9, ReleaseStep

LEMMA WaitStep ==
  ASSUME IInv, NEW s \in Sems, Wait(s)
  PROVE  IInv' /\ SameFree
<1> DEFINE n == semcnt[s] - 1
           p == currpid
<1>1. /\ sstate[s] = "used" /\ semcnt' = [semcnt EXCEPT ![s] = n] /\ p # NULLPROC
      /\ UNCHANGED <<sstate, nextsem>> /\ SemUnchanged
  BY DEF Wait, Call
<1>2. /\ semq[s] \in Seq(Pids) /\ IsInjective(semq[s]) /\ semcnt[s] \in Int
      /\ Len(semq[s]) = IF semcnt[s] < 0 THEN -semcnt[s] ELSE 0
  BY <1>1, QueueFacts
<1>3. n \in Int
  BY <1>2
<1>4. CASE ~(n < 0)
  <2>1. UNCHANGED <<psem, semq, dispVars>>
    BY <1>4 DEF Wait
  <2>2. n >= 0 /\ Len(semq[s]) = 0
    BY <1>2, <1>4
  <2> HIDE DEF n
  <2>3. QED  BY <1>1, <1>3, <2>1, <2>2, CountStep
<1>5. CASE n < 0
  <2> DEFINE l == Append(semq[s], p)
             e == Resched([Now EXCEPT !.pstate[p] = "wait"])
  <2>1. /\ psem' = [psem EXCEPT ![p] = s] /\ semq' = [semq EXCEPT ![s] = l] /\ Commit(e)
    BY <1>5 DEF Wait
  <2>2. p \in Pids \ {NULLPROC} /\ p \in Pids /\ pstate[p] = "curr" /\ Settled(Now)
    BY <1>1, TypedNow
  <2> HIDE DEF p
  <2>3. Settled(e) /\ Kept(Now, e, {p}) /\ e.pstate[p] = "wait"
    <3>1. "wait" \in States \ {"curr", "ready", "sleep", "trecv"}
      BY DEF States
    <3>2. QED  BY <2>2, <3>1, LeaveSettled, NowFields
  <2> HIDE DEF e
  <2>4. p \notin ToSet(semq[s]) /\ \A t \in Sems : p \notin ToSet(semq[t])
    BY <2>2, QueueFacts
  <2>5. /\ l \in Seq(Pids) /\ IsInjective(l) /\ ToSet(l) = ToSet(semq[s]) \cup {p}
        /\ Len(l) = Len(semq[s]) + 1
    BY <1>2, <2>2, <2>4, AppendDistinct
  <2> HIDE DEF l
  <2>6. NextNow = e /\ pstate' = e.pstate
    BY <2>1, <2>3, CommitNow
  <2>7. PriosOk(e)
    BY <2>2, <2>3, PriosKept, NowFields, TypedNow
  <2>8. Settled(Now)' /\ PriosOk(Now)'
    BY <2>3, <2>6, <2>7, PrimedParts
  <2>9. /\ psem \in [Pids -> Sems] /\ semq \in [Sems -> Seq(Pids)] /\ semcnt \in [Sems -> Int]
        /\ sstate \in [Sems -> {"free", "used"}] /\ nextsem \in Sems
    BY DEF IInv, SemTyped, TableTyped
  <2>10. /\ \A t \in Sems : semq'[t] = IF t = s THEN l ELSE semq[t]
         /\ \A q \in Pids : psem'[q] = IF q = p THEN s ELSE psem[q]
         /\ psem' \in [Pids -> Sems]
    BY <2>1, <2>2, <2>9
  <2>11. Queues(pstate, psem, semq)'
    <3>1. SUFFICES ASSUME NEW t \in Sems
                   PROVE  /\ IsInjective(semq'[t])
                          /\ \A q \in Pids : q \in ToSet(semq'[t]) <=>
                                               pstate'[q] = "wait" /\ psem'[q] = t
      BY DEF Queues
    <3>2. IsInjective(semq'[t])
      BY <2>5, <2>10, QueueFacts
    <3>3. ASSUME NEW q \in Pids
          PROVE  q \in ToSet(semq'[t]) <=> pstate'[q] = "wait" /\ psem'[q] = t
      <4>1. CASE q = p
        <5>1. q \in ToSet(semq'[t]) <=> t = s
          BY <2>4, <2>5, <2>10, <4>1
        <5>2. QED  BY <2>3, <2>6, <2>10, <4>1, <5>1
      <4>2. CASE q # p
        <5>1. q \in ToSet(semq'[t]) <=> q \in ToSet(semq[t])
          BY <2>5, <2>10, <4>2
        <5>2. pstate'[q] = "wait" <=> pstate[q] = "wait"
          BY <2>3, <2>6, <4>2, NowFields DEF Kept
        <5>3. psem'[q] = psem[q]
          BY <2>10, <4>2
        <5>4. QED  BY <5>1, <5>2, <5>3 DEF IInv, Queues
      <4>3. QED  BY <4>1, <4>2
    <3>4. QED  BY <3>2, <3>3
  <2>12. CountIsQueue'
    <3>1. SUFFICES ASSUME NEW t \in Sems
                   PROVE  Len(semq'[t]) =
                            IF sstate[t] = "used" /\ semcnt'[t] < 0 THEN -semcnt'[t] ELSE 0
      BY <1>1 DEF CountIsQueue
    <3>2. CASE t = s
      <4>1. semcnt'[t] = n /\ semq'[t] = l /\ sstate[t] = "used"
        BY <1>1, <2>9, <2>10, <3>2
      <4>2. Len(l) = -n
        BY <1>2, <1>5, <2>5
      <4> HIDE DEF n
      <4>3. QED  BY <1>5, <4>1, <4>2
    <3>3. CASE t # s
      <4>1. semcnt'[t] = semcnt[t] /\ semq'[t] = semq[t]
        BY <1>1, <2>9, <2>10, <3>3
      <4>2. QED  BY <4>1, QueueFacts
    <3>4. QED  BY <3>2, <3>3
  <2>13. SemTyped'
    BY <1>1, <1>3, <2>1, <2>5, <2>9 DEF SemTyped
  <2>14. SameFree
    BY <2>2, <2>3, <2>6, NowFields DEF Kept, SameFree
  <2>15. QED  BY <1>1, <2>8, <2>10, <2>11, <2>12, <2>13, <2>14, SemStep
<1>6. QED  BY <1>4, <1>5

------------------------------------------------------------------------------
(* Messages. *)

\* A step that commits e and leaves semaphores, table and clock alone.
LEMMA MsgStep ==
  ASSUME IInv, NEW e, Settled(e), Kept(Now, e, {}), Commit(e), MsgUnchanged,
         MsgTyped', ContTyped', OwedTyped'
  PROVE  IInv' /\ SameFree
<1>1. UNCHANGED semVars /\ UNCHANGED tableVars /\ UNCHANGED clkVars /\ UNCHANGED psem
  BY DEF MsgUnchanged, tableVars
<1>2. /\ Settled(Now)' /\ PriosOk(Now)'
      /\ Queues(pstate, psem, semq)' /\ CountIsQueue' /\ SemTyped' /\ SameFree
  BY <1>1, PlainStep
<1>3. QED  BY <1>1, <1>2, TypesKept DEF IInv

LEMMA MsgIdleStep ==
  ASSUME IInv, UNCHANGED dispVars, MsgUnchanged, MsgTyped', ContTyped', OwedTyped'
  PROVE  IInv' /\ SameFree
<1>1. Commit(Now)
  BY DEF dispVars, Commit, Now
<1>2. Kept(Now, Now, {}) /\ Settled(Now)
  BY TypedNow DEF Kept
<1>3. QED  BY <1>1, <1>2, MsgStep

LEMMA MsgSet ==
  ASSUME IInv, NEW p \in Pids, NEW n \in 0 .. HasMsgMod - 1, NEW b \in BOOLEAN,
         phasmsg' = [phasmsg EXCEPT ![p] = n], pend' = [pend EXCEPT ![p] = b]
  PROVE  MsgTyped'
BY DEF IInv, MsgTyped

LEMMA TakeTyped ==
  ASSUME IInv, Take(currpid)
  PROVE  MsgTyped'
<1>1. 0 \in 0 .. HasMsgMod - 1 /\ currpid \in Pids
  BY BoundsAssumption, TypedNow
<1>2. phasmsg' = [phasmsg EXCEPT ![currpid] = 0] /\ pend' = [pend EXCEPT ![currpid] = FALSE]
  BY DEF Take
<1>3. QED  BY <1>1, <1>2, MsgSet

LEMMA SendStep ==
  ASSUME IInv, NEW p \in UserPids, Send(p)
  PROVE  IInv' /\ SameFree
<1>1. /\ phasmsg' = [phasmsg EXCEPT ![p] = 1] /\ pend' = [pend EXCEPT ![p] = TRUE]
      /\ Commit(Deliver(Now, p)) /\ UNCHANGED <<cont, owed>> /\ MsgUnchanged
  BY DEF Send
<1>2. Settled(Deliver(Now, p)) /\ Kept(Now, Deliver(Now, p), {})
  BY TypedNow, UserFacts, DeliverSettled
<1>3. MsgTyped'
  <2>1. 1 \in 0 .. HasMsgMod - 1
    BY BoundsAssumption
  <2>2. QED  BY <1>1, <2>1, UserFacts, MsgSet
<1>4. ContTyped' /\ OwedTyped'
  BY <1>1, TypesKept
<1>5. QED  BY <1>1, <1>2, <1>3, <1>4, MsgStep

LEMMA SendfStep ==
  ASSUME IInv, NEW p \in UserPids, Sendf(p)
  PROVE  IInv' /\ SameFree
<1> DEFINE n == (phasmsg[p] + 1) % HasMsgMod
           f == Resched(Ready(Now, p))
           e == IF pstate[p] = "recv" THEN f ELSE Now
<1>1. /\ phasmsg' = [phasmsg EXCEPT ![p] = n] /\ pend' = [pend EXCEPT ![p] = TRUE]
      /\ Commit(e) /\ UNCHANGED <<cont, owed>> /\ MsgUnchanged
  BY DEF Sendf
<1>2. p \in Pids /\ Settled(Now) /\ Good(Now, {}) /\ SltopGood(Now) /\ Kept(Now, Now, {})
  BY TypedNow, UserFacts DEF Kept
<1>3. Settled(e) /\ Kept(Now, e, {})
  <2>1. CASE pstate[p] = "recv"
    <3>1. Loose(Now, p) /\ {} \subseteq {p}
      BY <1>2, <2>1, NowFields DEF Good, Matches, Loose, Sleeping
    <3>2. Settled(f) /\ Kept(Now, f, {p}) /\ f.pstate[p] \in {"curr", "ready"}
      BY <1>2, <3>1, ReadySettled
    <3> HIDE DEF f
    <3>3. Kept(Now, f, {})
      BY <2>1, <3>2, NowFields DEF Kept
    <3>4. QED  BY <2>1, <3>2, <3>3
  <2>2. CASE pstate[p] # "recv"
    BY <1>2, <2>2
  <2>3. QED  BY <2>1, <2>2
<1> HIDE DEF e
<1>4. MsgTyped'
  <2>1. phasmsg[p] \in 0 .. HasMsgMod - 1 /\ HasMsgMod \in Nat \ {0}
    BY <1>2, BoundsAssumption DEF IInv, MsgTyped
  <2>2. n \in 0 .. HasMsgMod - 1
    <3>1. phasmsg[p] + 1 \in Int
      BY <2>1
    <3>2. QED  BY <2>1, <3>1, SlotRange
  <2> HIDE DEF n
  <2>3. QED  BY <1>1, <1>2, <2>2, MsgSet
<1>5. ContTyped' /\ OwedTyped'
  BY <1>1, TypesKept
<1>6. QED  BY <1>1, <1>3, <1>4, <1>5, MsgStep

LEMMA ReceiveStep ==
  ASSUME IInv, Receive
  PROVE  IInv' /\ SameFree
<1>1. UNCHANGED owed /\ MsgUnchanged /\ currpid # NULLPROC
  BY DEF Receive, Call
<1>2. OwedTyped'
  BY <1>1, TypesKept
<1>3. CASE phasmsg[currpid] # 0
  <2>1. Take(currpid) /\ UNCHANGED <<dispVars, cont>>
    BY <1>3 DEF Receive
  <2>2. MsgTyped' /\ ContTyped'
    BY <2>1, TakeTyped, TypesKept
  <2>3. QED  BY <1>1, <1>2, <2>1, <2>2, MsgIdleStep
<1>4. CASE phasmsg[currpid] = 0
  <2> DEFINE p == currpid
             e == Resched([Now EXCEPT !.pstate[p] = "recv"])
  <2>1. Commit(e) /\ cont' = [cont EXCEPT ![p].op = "receive"] /\ UNCHANGED msgVars
    BY <1>4 DEF Receive
  <2>2. /\ p \in Pids \ {NULLPROC} /\ p \in Pids /\ pstate[p] = "curr" /\ Settled(Now)
        /\ "recv" \in States \ {"curr", "ready", "sleep", "trecv"}
    BY <1>1, TypedNow DEF States
  <2> HIDE DEF p
  <2>3. Settled(e) /\ Kept(Now, e, {p}) /\ e.pstate[p] = "recv"
    BY <2>2, LeaveSettled, NowFields
  <2> HIDE DEF e
  <2>4. Kept(Now, e, {})
    BY <2>2, <2>3, NowFields DEF Kept
  <2>5. ContTyped'
    <3>1. "receive" \in Ops \ {"kill"}
      BY DEF Ops
    <3>2. QED  BY <2>1, <2>2, <3>1, ContOp
  <2>6. MsgTyped'
    BY <2>1, TypesKept
  <2>7. QED  BY <1>1, <1>2, <2>1, <2>3, <2>4, <2>5, <2>6, MsgStep
<1>5. QED  BY <1>3, <1>4

LEMMA FinishReceiveStep ==
  ASSUME IInv, FinishReceive
  PROVE  IInv' /\ SameFree
<1>1. /\ Take(currpid) /\ cont' = [cont EXCEPT ![currpid] = UserCode]
      /\ UNCHANGED dispVars /\ UNCHANGED owed /\ MsgUnchanged
  BY DEF FinishReceive
<1>2. MsgTyped' /\ ContTyped' /\ OwedTyped'
  BY <1>1, TakeTyped, ContUser, TypedNow, TypesKept
<1>3. QED  BY <1>1, <1>2, MsgIdleStep

LEMMA RecvclrStep ==
  ASSUME IInv, Recvclr
  PROVE  IInv' /\ SameFree
<1>1. Take(currpid) /\ UNCHANGED cont /\ UNCHANGED dispVars /\ UNCHANGED owed /\ MsgUnchanged
  BY DEF Recvclr
<1>2. MsgTyped' /\ ContTyped' /\ OwedTyped'
  BY <1>1, TakeTyped, TypesKept
<1>3. QED  BY <1>1, <1>2, MsgIdleStep

LEMMA RecvtimStep ==
  ASSUME IInv, NEW maxwait \in Delays, Recvtim(maxwait)
  PROVE  IInv' /\ SameFree
<1>0. MsgUnchanged /\ currpid # NULLPROC /\ maxwait \in Nat /\ maxwait \in Int
  BY KeysAssumption DEF Recvtim, Call
<1>1. CASE phasmsg[currpid] # 0
  <2>1. Take(currpid) /\ UNCHANGED dispVars /\ UNCHANGED cont /\ UNCHANGED owed
    BY <1>1 DEF Recvtim
  <2>2. MsgTyped' /\ ContTyped' /\ OwedTyped'
    BY <2>1, TakeTyped, TypesKept
  <2>3. QED  BY <1>0, <2>1, <2>2, MsgIdleStep
<1>2. CASE phasmsg[currpid] = 0
  <2> DEFINE e == Resched([InsertSleep(Now, Now.currpid, maxwait)
                             EXCEPT !.pstate[Now.currpid] = "trecv"])
  <2>1. /\ Commit(e) /\ cont' = [cont EXCEPT ![currpid].op = "recvtim"]
        /\ owed' = [owed EXCEPT ![currpid] = maxwait] /\ UNCHANGED msgVars
    BY <1>2, NowFields DEF Recvtim
  <2>2. Settled(Now) /\ Now.currpid # NULLPROC /\ "trecv" \in Sleeping
    BY <1>0, TypedNow, NowFields DEF Sleeping
  <2>3. Settled(e) /\ Kept(Now, e, {})
    BY <1>0, <2>2, SleepSettled
  <2> HIDE DEF e
  <2>4. ContTyped'
    <3>1. "recvtim" \in Ops \ {"kill"}
      BY DEF Ops
    <3>2. QED  BY <2>1, <3>1, TypedNow, ContOp
  <2>5. OwedTyped'
    BY <1>0, <2>1 DEF IInv, OwedTyped
  <2>6. MsgTyped'
    BY <2>1, TypesKept
  <2>7. QED  BY <1>0, <2>1, <2>3, <2>4, <2>5, <2>6, MsgStep
<1>3. QED  BY <1>1, <1>2

LEMMA FinishRecvtimStep ==
  ASSUME IInv, FinishRecvtim
  PROVE  IInv' /\ SameFree
<1>1. /\ IF phasmsg[currpid] # 0 THEN Take(currpid) ELSE UNCHANGED msgVars
      /\ cont' = [cont EXCEPT ![currpid] = UserCode]
      /\ UNCHANGED dispVars /\ UNCHANGED owed /\ MsgUnchanged
  BY DEF FinishRecvtim
<1>2. MsgTyped'
  BY <1>1, TakeTyped, TypesKept
<1>3. ContTyped' /\ OwedTyped'
  BY <1>1, ContUser, TypedNow, TypesKept
<1>4. QED  BY <1>1, <1>2, <1>3, MsgIdleStep

------------------------------------------------------------------------------
(* The clock. *)

LEMMA ClkStep ==
  ASSUME IInv, NEW e, Settled(e), Kept(Now, e, {}), Commit(e), ClkUnchanged,
         ClkTyped', ContTyped', OwedTyped'
  PROVE  IInv' /\ SameFree
<1>1. UNCHANGED semVars /\ UNCHANGED tableVars /\ UNCHANGED msgVars /\ UNCHANGED psem
  BY DEF ClkUnchanged, tableVars
<1>2. /\ Settled(Now)' /\ PriosOk(Now)'
      /\ Queues(pstate, psem, semq)' /\ CountIsQueue' /\ SemTyped' /\ SameFree
  BY <1>1, PlainStep
<1>3. QED  BY <1>1, <1>2, TypesKept DEF IInv

LEMMA ClkIdleStep ==
  ASSUME IInv, UNCHANGED dispVars, ClkUnchanged, ClkTyped', ContTyped', OwedTyped'
  PROVE  IInv' /\ SameFree
<1>1. Commit(Now)
  BY DEF dispVars, Commit, Now
<1>2. Kept(Now, Now, {}) /\ Settled(Now)
  BY TypedNow DEF Kept
<1>3. QED  BY <1>1, <1>2, ClkStep

LEMMA Sleep10Step ==
  ASSUME IInv, NEW n \in Delays, Sleep10(n)
  PROVE  IInv' /\ SameFree
<1> DEFINE f == Resched([InsertSleep(Now, Now.currpid, n) EXCEPT !.pstate[Now.currpid] = "sleep"])
           e == IF n = 0 THEN Resched(Now) ELSE f
<1>1. /\ currpid # NULLPROC /\ owed' = [owed EXCEPT ![currpid] = n] /\ n \in Nat /\ n \in Int
      /\ UNCHANGED clkVars /\ UNCHANGED cont /\ ClkUnchanged
  BY KeysAssumption DEF Sleep10, Call
<1>2. Commit(e)
  BY NowFields DEF Sleep10
<1>3. Settled(Now) /\ Now.currpid # NULLPROC /\ "sleep" \in Sleeping
  BY <1>1, TypedNow, NowFields DEF Sleeping
<1>4. Settled(f) /\ Kept(Now, f, {})
  BY <1>1, <1>3, SleepSettled
<1>5. Settled(Resched(Now)) /\ Kept(Now, Resched(Now), {})
  BY <1>3, ReschedSettled DEF Settled
<1> HIDE DEF f
<1>6. Settled(e) /\ Kept(Now, e, {})
  BY <1>4, <1>5
<1> HIDE DEF e
<1>7. OwedTyped'
  BY <1>1 DEF IInv, OwedTyped
<1>8. ClkTyped' /\ ContTyped'
  BY <1>1, TypesKept
<1>9. QED  BY <1>1, <1>2, <1>6, <1>7, <1>8, ClkStep

\* The key sltop points to is counted down, and no other.
LEMMA TopGood ==
  ASSUME IInv, slnempty
  PROVE  LET top == [Now EXCEPT !.qkey[sltop] = @ - 1] IN
         /\ Good(top, {}) /\ Kept(Now, top, {})
         /\ \A i \in 2 .. Len(top.slp) : top.qkey[top.slp[i]] >= 0
         /\ top.qkey[sltop] >= 0 => Settled(top)
<1> DEFINE key == [Now.qkey EXCEPT ![sltop] = Now.qkey[sltop] - 1]
           c == [Now EXCEPT !.qkey = key, !.preempt = Now.preempt]
<1>1. Settled(Now) /\ Now.qkey \in [Pids -> Int] /\ Now.preempt \in -1 .. Quantum /\ sltop \in Pids
  BY TypedNow, NowFields
<1>2. key \in [Pids -> Int] /\ \A p \in Pids : p # sltop => key[p] = qkey[p]
  BY <1>1, NowFields
<1>3. [Now EXCEPT !.qkey[sltop] = @ - 1] = c
  BY DEF Now
<1>4. c.slp = slp /\ c.qkey = key
  BY DEF Now
<1> HIDE DEF key
<1>5. /\ slp \in Seq(Pids) /\ slp # <<>> /\ IsInjective(slp) /\ sltop = slp[1] /\ sltop \in ToSet(slp)
      /\ ToSet(slp) \subseteq Pids /\ \A p \in ToSet(slp) : qkey[p] >= 0
  BY HeadTailDistinct, SetOfList, TypedNow, NowFields DEF SltopGood, DelaysGood, Good
<1>6. \A p \in ToSet(Now.rdy) : key[p] = Now.qkey[p]
  <2>1. sltop \notin ToSet(rdy)
    BY <1>1, <1>5, TypedNow, NowFields DEF Good, Matches, Sleeping
  <2>2. ToSet(rdy) \subseteq Pids
    BY TypedNow, SetOfList
  <2>3. QED  BY <1>2, <2>1, <2>2, NowFields
<1>7. ASSUME NEW i \in 2 .. Len(slp) PROVE key[slp[i]] >= 0
  <2>1. i \in 1 .. Len(slp) /\ 1 \in 1 .. Len(slp) /\ i # 1
    BY <1>5
  <2>2. slp[i] # sltop
    BY <1>5, <2>1, DistinctEntries
  <2>3. slp[i] \in ToSet(slp)
    BY <1>5, <2>1, SetOfList
  <2>4. QED  BY <1>2, <1>5, <2>2, <2>3
<1>8. ASSUME key[sltop] >= 0 PROVE \A p \in ToSet(Now.slp) : key[p] >= 0
  BY <1>2, <1>5, <1>8, NowFields
<1>9. /\ Good(c, {}) /\ Kept(Now, c, {})
      /\ (\A p \in ToSet(Now.slp) : key[p] >= 0) => Settled(c)
  BY <1>1, <1>2, <1>6, KeysSettled
<1> HIDE DEF c
<1>10. QED  BY <1>3, <1>4, <1>7, <1>8, <1>9

LEMMA ClkintStep ==
  ASSUME IInv, Clkint
  PROVE  IInv' /\ SameFree
<1> DEFINE top == [Now EXCEPT !.qkey[sltop] = @ - 1]
           wakes == slnempty /\ top.qkey[sltop] < 0
           d == IF wakes THEN Wakeup(top) ELSE IF slnempty THEN top ELSE Now
<1>1. /\ owed' = [p \in Pids |-> IF pstate[p] \notin {"sleep", "trecv"} THEN 0
                                 ELSE IF owed[p] > -MaxLate THEN owed[p] - 1 ELSE owed[p]]
      /\ IF defclk # 0
         THEN clkdiff < MaxDefer /\ clkdiff' = clkdiff + 1 /\ UNCHANGED <<dispVars, cont>>
         ELSE /\ UNCHANGED clkdiff
              /\ IF wakes /\ d.currpid # currpid
                 THEN Commit(d) /\ cont' = [cont EXCEPT ![currpid].op = "clpreem"]
                 ELSE Commit(Preempt(d)) /\ UNCHANGED cont
      /\ UNCHANGED defclk /\ ClkUnchanged
  BY DEF Clkint
<1>2. OwedTyped'
  BY <1>1 DEF IInv, OwedTyped
<1>3. ClkTyped'
  BY <1>1 DEF IInv, ClkTyped
<1>4. Settled(d) /\ Kept(Now, d, {})
  <2>1. CASE wakes
    <3>1. /\ Good(top, {}) /\ Kept(Now, top, {})
          /\ \A i \in 2 .. Len(top.slp) : top.qkey[top.slp[i]] >= 0
      BY <2>1, TopGood
    <3>2. d = Wakeup(top)
      BY <2>1
    <3> HIDE DEF top, wakes, d
    <3>3. Settled(Wakeup(top)) /\ Kept(top, Wakeup(top), {})
      BY <3>1, WakeupSettled
    <3>4. QED  BY <3>1, <3>2, <3>3 DEF Kept
  <2>2. CASE slnempty /\ ~wakes
    <3>1. /\ Kept(Now, top, {}) /\ top.qkey[sltop] \in Int
          /\ top.qkey[sltop] >= 0 => Settled(top)
      <4>1. top.qkey[sltop] \in Int
        BY TypedNow DEF Now
      <4>2. QED  BY <2>2, <4>1, TopGood
    <3>2. top.qkey[sltop] >= 0 /\ d = top
      <4>1. ~(top.qkey[sltop] < 0) /\ d = top
        BY <2>2
      <4> HIDE DEF top
      <4>2. QED  BY <3>1, <4>1
    <3> HIDE DEF top, d
    <3>3. QED  BY <3>1, <3>2
  <2>3. CASE ~slnempty
    <3>1. d = Now
      BY <2>3
    <3>2. Settled(Now) /\ Kept(Now, Now, {})
      BY TypedNow DEF Kept
    <3>3. QED  BY <3>1, <3>2
  <2> HIDE DEF wakes, d
  <2>4. QED  BY <2>1, <2>2, <2>3
<1> HIDE DEF d, wakes
<1>5. CASE defclk # 0
  <2>1. UNCHANGED dispVars /\ UNCHANGED cont
    BY <1>1, <1>5
  <2>2. QED  BY <1>1, <1>2, <1>3, <2>1, ClkIdleStep, TypesKept
<1>6. CASE defclk = 0 /\ wakes /\ d.currpid # currpid
  <2>1. Commit(d) /\ cont' = [cont EXCEPT ![currpid].op = "clpreem"]
    BY <1>1, <1>6
  <2>2. ContTyped'
    <3>1. "clpreem" \in Ops \ {"kill"}
      BY DEF Ops
    <3>2. QED  BY <2>1, <3>1, TypedNow, ContOp
  <2>3. QED  BY <1>1, <1>2, <1>3, <1>4, <2>1, <2>2, ClkStep
<1>7. CASE defclk = 0 /\ ~(wakes /\ d.currpid # currpid)
  <2> DEFINE e == Preempt(d)
  <2>1. Commit(e) /\ UNCHANGED cont
    BY <1>1, <1>7
  <2>2. Settled(e) /\ Kept(d, e, {})
    BY <1>4, PreemptSettled
  <2> HIDE DEF e
  <2>3. Kept(Now, e, {})
    BY <1>4, <2>2 DEF Kept
  <2>4. ContTyped'
    BY <2>1, TypesKept
  <2>5. QED  BY <1>1, <1>2, <1>3, <2>1, <2>2, <2>3, <2>4, ClkStep
<1>8. QED  BY <1>5, <1>6, <1>7

LEMMA FinishClkintStep ==
  ASSUME IInv, FinishClkint
  PROVE  IInv' /\ SameFree
<1>1. /\ Commit(Preempt(Now)) /\ cont' = [cont EXCEPT ![currpid] = UserCode]
      /\ UNCHANGED clkVars /\ UNCHANGED owed /\ ClkUnchanged
  BY DEF FinishClkint
<1>2. Settled(Preempt(Now)) /\ Kept(Now, Preempt(Now), {})
  BY TypedNow, PreemptSettled
<1>3. ClkTyped' /\ OwedTyped' /\ ContTyped'
  BY <1>1, TypesKept, TypedNow, ContUser
<1>4. QED  BY <1>1, <1>2, <1>3, ClkStep

LEMMA StopclkStep ==
  ASSUME IInv, Stopclk
  PROVE  IInv' /\ SameFree
<1>1. /\ defclk < MaxDefer /\ defclk' = defclk + 1 /\ clkdiff' = clkdiff
      /\ UNCHANGED dispVars /\ UNCHANGED cont /\ UNCHANGED owed /\ ClkUnchanged
  BY DEF Stopclk
<1>2. ClkTyped'
  BY <1>1, BoundsAssumption DEF IInv, ClkTyped
<1>3. OwedTyped' /\ ContTyped'
  BY <1>1, TypesKept
<1>4. QED  BY <1>1, <1>2, <1>3, ClkIdleStep

LEMMA StrtclkStep ==
  ASSUME IInv, Strtclk
  PROVE  IInv' /\ SameFree
<1> DEFINE e == MakeUp(Now, clkdiff)
           d == IF slnempty THEN Wakeup(e) ELSE e
<1>1. /\ defclk > 0 /\ defclk' = defclk - 1
      /\ IF defclk > 1 THEN UNCHANGED <<clkdiff, dispVars, cont>>
         ELSE /\ clkdiff' = 0
              /\ IF d.currpid # currpid
                 THEN Commit(d) /\ cont' = [cont EXCEPT ![currpid].op = "strtclk"]
                 ELSE Commit(Settle(d)) /\ UNCHANGED cont
      /\ UNCHANGED owed /\ ClkUnchanged
  BY DEF Strtclk
<1>2. OwedTyped'
  BY <1>1, TypesKept
<1>3. ClkTyped'
  <2>1. defclk \in 0 .. MaxDefer /\ clkdiff \in Nat
    BY DEF IInv, ClkTyped
  <2>2. defclk' \in 0 .. MaxDefer
    BY <1>1, <2>1, BoundsAssumption
  <2>3. clkdiff' \in Nat
    <3> HIDE DEF d
    <3>1. CASE defclk > 1
      BY <1>1, <2>1, <3>1
    <3>2. CASE ~(defclk > 1)
      BY <1>1, <3>2
    <3>3. QED  BY <3>1, <3>2
  <2>4. QED  BY <2>2, <2>3 DEF ClkTyped
<1>4. Settled(d) /\ Kept(Now, d, {})
  <2>1. Settled(e) /\ Kept(Now, e, {})
    BY TypedNow, MakeUpSettled DEF IInv, ClkTyped
  <2> HIDE DEF e
  <2>2. \A i \in 2 .. Len(e.slp) : e.qkey[e.slp[i]] >= 0
    <3>1. e.slp \in Seq(Pids)
      BY <2>1, DispFields DEF Settled, Good
    <3>2. \A i \in 2 .. Len(e.slp) : e.slp[i] \in ToSet(e.slp)
      BY <3>1, SetOfList
    <3>3. QED  BY <2>1, <3>2 DEF Settled, SltopGood, DelaysGood
  <2>3. Settled(Wakeup(e)) /\ Kept(e, Wakeup(e), {})
    BY <2>1, <2>2, WakeupSettled DEF Settled
  <2>4. Kept(Now, Wakeup(e), {})
    BY <2>1, <2>3 DEF Kept
  <2>5. QED  BY <2>1, <2>3, <2>4
<1> HIDE DEF d
<1>5. CASE defclk > 1
  <2>1. UNCHANGED dispVars /\ UNCHANGED cont
    BY <1>1, <1>5
  <2>2. QED  BY <1>1, <1>2, <1>3, <2>1, ClkIdleStep, TypesKept
<1>6. CASE ~(defclk > 1) /\ d.currpid # currpid
  <2>1. Commit(d) /\ cont' = [cont EXCEPT ![currpid].op = "strtclk"]
    BY <1>1, <1>6
  <2>2. ContTyped'
    <3>1. "strtclk" \in Ops \ {"kill"}
      BY DEF Ops
    <3>2. QED  BY <2>1, <3>1, TypedNow, ContOp
  <2>3. QED  BY <1>1, <1>2, <1>3, <1>4, <2>1, <2>2, ClkStep
<1>7. CASE ~(defclk > 1) /\ d.currpid = currpid
  <2> DEFINE f == Settle(d)
  <2>1. Commit(f) /\ UNCHANGED cont
    BY <1>1, <1>7
  <2>2. Settled(f) /\ Kept(d, f, {})
    BY <1>4, SettleSettled
  <2> HIDE DEF f
  <2>3. Kept(Now, f, {})
    BY <1>4, <2>2 DEF Kept
  <2>4. ContTyped'
    BY <2>1, TypesKept
  <2>5. QED  BY <1>1, <1>2, <1>3, <2>1, <2>2, <2>3, <2>4, ClkStep
<1>8. QED  BY <1>5, <1>6, <1>7

LEMMA FinishStrtclkStep ==
  ASSUME IInv, FinishStrtclk
  PROVE  IInv' /\ SameFree
<1>1. /\ Commit(Settle(Now)) /\ cont' = [cont EXCEPT ![currpid] = UserCode]
      /\ UNCHANGED clkVars /\ UNCHANGED owed /\ ClkUnchanged
  BY DEF FinishStrtclk
<1>2. Settled(Settle(Now)) /\ Kept(Now, Settle(Now), {})
  BY TypedNow, SettleSettled
<1>3. ClkTyped' /\ OwedTyped' /\ ContTyped'
  BY <1>1, TypesKept, TypedNow, ContUser
<1>4. QED  BY <1>1, <1>2, <1>3, ClkStep

------------------------------------------------------------------------------
(* The invariant and what follows from it. *)

LEMMA InitSettled ==
  ASSUME Init
  PROVE  Settled(Now) /\ PriosOk(Now)
<1> DEFINE main == NProc - 1
<1>1. PICK x \in Prios \ {0} : pprio = [p \in Pids |-> IF p = main THEN x ELSE 0]
  BY DEF Init
<1>2. /\ pstate = [p \in Pids |-> IF p = main THEN "curr"
                                  ELSE IF p = NULLPROC THEN "ready" ELSE "free"]
      /\ qkey = [p \in Pids |-> IF p = main THEN pprio[p] ELSE 0]
      /\ rdy = <<NULLPROC>> /\ slp = <<>> /\ slnempty = FALSE /\ sltop = NULLPROC
      /\ currpid = main /\ preempt = Quantum
  BY DEF Init
<1>3. /\ main \in Pids /\ NULLPROC \in Pids /\ main # NULLPROC
      /\ x \in 0 .. MAXINT /\ x > 0 /\ 0 \in 0 .. MAXINT
  <2>1. main \in Pids /\ NULLPROC \in Pids /\ main # NULLPROC
    BY NProcAssumption, PidsFacts DEF NULLPROC
  <2>2. x \in 0 .. MAXINT /\ x # 0
    BY KeysAssumption
  <2>3. 0 \in 0 .. MAXINT
    BY DEF MAXINT
  <2>4. x > 0
    BY <2>2
  <2>5. QED  BY <2>1, <2>2, <2>3, <2>4
<1> HIDE DEF main
<1>4. pstate \in [Pids -> States] /\ pprio \in [Pids -> 0 .. MAXINT] /\ qkey \in [Pids -> Int]
  BY <1>1, <1>2, <1>3 DEF States
<1>5. Now \in DispType
  <2>1. rdy \in Seq(Pids) /\ slp \in Seq(Pids)
    BY <1>2, <1>3
  <2>2. slnempty \in BOOLEAN /\ sltop \in Pids /\ currpid \in Pids /\ preempt \in -1 .. Quantum
    BY <1>2, <1>3, QuantumInt
  <2>3. QED  BY <1>4, <2>1, <2>2 DEF Now, DispType
<1>6. ToSet(rdy) = {NULLPROC} /\ ToSet(slp) = {} /\ IsInjective(rdy) /\ IsInjective(slp)
  BY <1>2, <1>3 DEF ToSet, IsInjective
<1>7. \A p \in Pids : Matches(Now, p)
  BY <1>2, <1>3, <1>6, NowFields DEF Matches, Sleeping
<1>8. /\ \A p \in Pids : pstate[p] = "curr" => p = currpid
      /\ pstate[NULLPROC] = "ready" /\ pstate[currpid] = "curr"
  BY <1>2, <1>3
<1>9. Good(Now, {})
  <2>1. Ordered(Now)
    <3>1. Len(rdy) = 1 /\ \A i \in 1 .. Len(rdy) : i = 1
      BY <1>2
    <3>2. Ascends(rdy, pprio)
      BY <3>1 DEF Ascends
    <3>3. qkey[NULLPROC] = pprio[NULLPROC]
      BY <1>1, <1>2, <1>3
    <3>4. QED  BY <1>6, <3>2, <3>3, NowFields DEF Ordered
  <2>2. QED  BY <1>5, <1>6, <1>7, <1>8, <2>1, NowFields DEF Good
<1>10. SltopGood(Now) /\ HasCurrent(Now) /\ Highest(Now)
  <2>1. pprio[NULLPROC] <= pprio[main]
    BY <1>1, <1>3
  <2>2. DelaysGood(Now)
    BY <1>6, NowFields DEF DelaysGood
  <2>3. QED  BY <1>2, <1>6, <1>8, <2>1, <2>2, NowFields DEF SltopGood, HasCurrent, Highest
<1>11. PriosOk(Now)
  <2>1. pprio[NULLPROC] = 0
    BY <1>1, <1>3
  <2>2. ASSUME NEW p \in UserPids, pstate[p] # "free" PROVE pprio[p] > 0
    <3>1. p = main
      BY <1>2, <2>2, UserFacts
    <3>2. QED  BY <1>1, <1>3, <3>1
  <2>3. QED  BY <2>1, <2>2, NowFields DEF PriosOk
<1>12. QED  BY <1>9, <1>10, <1>11 DEF Settled

LEMMA InitIInv ==
  ASSUME Init
  PROVE  IInv
<1>1. /\ psem = [p \in Pids |-> 0] /\ pnxtkin = [p \in Pids |-> IF p = NProc - 1 THEN BADPID ELSE 0]
      /\ phasmsg = [p \in Pids |-> 0] /\ pend = [p \in Pids |-> FALSE]
      /\ numproc = 1 /\ nextproc = NProc - 2
      /\ sstate = [s \in Sems |-> IF s = NSem - 1 THEN "used" ELSE "free"]
      /\ semcnt = [s \in Sems |-> IF s = NSem - 1 THEN 1 ELSE 0]
      /\ semq = [s \in Sems |-> <<>>] /\ nextsem = (NSem - 2) % NSem
      /\ defclk = 0 /\ clkdiff = 0
      /\ cont = [p \in Pids |-> UserCode] /\ owed = [p \in Pids |-> 0]
      /\ pstate = [p \in Pids |-> IF p = NProc - 1 THEN "curr"
                                  ELSE IF p = NULLPROC THEN "ready" ELSE "free"]
  BY DEF Init
<1>2. 0 \in Pids /\ 0 \in Sems /\ NProc - 2 \in Pids
  BY NProcAssumption, NSemAssumption DEF Pids, Sems
<1>3. TableTyped
  BY <1>1, <1>2 DEF TableTyped
<1>4. SemTyped
  <2>1. (NSem - 2) % NSem \in 0 .. NSem - 1
    BY NSemAssumption, NSem - 2 \in Int, SlotRange
  <2>2. <<>> \in Seq(Pids)
    OBVIOUS
  <2>3. sstate \in [Sems -> {"free", "used"}] /\ semcnt \in [Sems -> Int] /\ nextsem \in Sems
    BY <1>1, <2>1 DEF Sems
  <2>4. semq \in [Sems -> Seq(Pids)]
    BY <1>1, <2>2
  <2>5. QED  BY <2>3, <2>4 DEF SemTyped
<1>5. MsgTyped /\ ClkTyped /\ OwedTyped
  BY <1>1, BoundsAssumption DEF MsgTyped, ClkTyped, OwedTyped
<1>6. ContTyped
  BY <1>1, <1>2 DEF ContTyped, UserCode, Ops
<1>7. Queues(pstate, psem, semq)
  BY <1>1, EmptyList DEF Queues, ToSet
<1>8. CountIsQueue
  BY <1>1 DEF CountIsQueue
<1>9. QED  BY <1>3, <1>4, <1>5, <1>6, <1>7, <1>8, InitSettled DEF IInv

\* Every step preserves the invariant.
LEMMA NextIInv ==
  ASSUME IInv, [Next]_vars
  PROVE  IInv'
<1>1. CASE ProcessNext
  <2>1. CASE Create
    BY <2>1, CreateStep
  <2>2. ASSUME NEW p \in UserPids, Resume(p) \/ Suspend(p) \/ Kill(p) PROVE IInv'
    BY <2>2, ResumeStep, SuspendStep, KillStep
  <2>3. ASSUME NEW p \in UserPids, NEW x \in Prios, Chprio(p, x) PROVE IInv'
    BY <2>3, ChprioStep
  <2>4. ASSUME NEW p \in UserPids, Setnok(BADPID, p) \/ Setnok(currpid, p) PROVE IInv'
    <3>1. BADPID \in Pids \cup {BADPID} /\ currpid \in Pids \cup {BADPID}
      BY TypedNow
    <3>2. QED  BY <2>4, <3>1, SetnokStep
  <2>5. CASE FinishKill
    BY <2>5, FinishKillStep
  <2>6. QED  BY <1>1, <2>1, <2>2, <2>3, <2>4, <2>5 DEF ProcessNext
<1>2. CASE SemaphoreNext
  <2>1. ASSUME NEW s \in Sems, Sdelete(s) \/ Wait(s) \/ Signal(s) PROVE IInv'
    BY <2>1, SdeleteStep, WaitStep, SignalStep
  <2>2. ASSUME NEW s \in Sems, NEW count \in 0 .. MaxCount,
               Screate(count) \/ Sreset(s, count) \/ Signaln(s, count)
        PROVE  IInv'
    <3>1. count \in Nat
      BY <2>2
    <3>2. QED  BY <2>2, <3>1, ScreateStep, SresetStep, SignalnStep
  <2>3. QED  BY <1>2, <2>1, <2>2 DEF SemaphoreNext
<1>3. CASE MessageNext
  <2>1. ASSUME NEW p \in UserPids, Send(p) \/ Sendf(p) PROVE IInv'
    BY <2>1, SendStep, SendfStep
  <2>2. ASSUME NEW n \in Delays, Recvtim(n) PROVE IInv'
    BY <2>2, RecvtimStep
  <2>3. CASE Receive \/ FinishReceive \/ Recvclr \/ FinishRecvtim
    BY <2>3, ReceiveStep, FinishReceiveStep, RecvclrStep, FinishRecvtimStep
  <2>4. QED  BY <1>3, <2>1, <2>2, <2>3 DEF MessageNext
<1>4. CASE ClockNext
  <2>1. ASSUME NEW n \in Delays, Sleep10(n) PROVE IInv'
    BY <2>1, Sleep10Step
  <2>2. CASE Clkint \/ FinishClkint \/ Stopclk \/ Strtclk \/ FinishStrtclk
    BY <2>2, ClkintStep, FinishClkintStep, StopclkStep, StrtclkStep, FinishStrtclkStep
  <2>3. QED  BY <1>4, <2>1, <2>2 DEF ClockNext
<1>5. CASE UNCHANGED vars
  <2>1. /\ UNCHANGED dispVars /\ UNCHANGED semVars /\ UNCHANGED tableVars /\ UNCHANGED msgVars
        /\ UNCHANGED clkVars /\ UNCHANGED cont /\ UNCHANGED owed
    BY <1>5 DEF vars
  <2>2. UNCHANGED psem
    BY <2>1 DEF tableVars
  <2>3. /\ Settled(Now)' /\ PriosOk(Now)'
        /\ Queues(pstate, psem, semq)' /\ CountIsQueue' /\ SemTyped'
    BY <2>1, <2>2, IdleStep
  <2>4. QED  BY <2>1, <2>3, TypesKept DEF IInv
<1>6. QED  BY <1>1, <1>2, <1>3, <1>4, <1>5 DEF Next

LEMMA InvariantHolds == Spec => []IInv
<1>1. Init => IInv
  BY InitIInv
<1>2. IInv /\ [Next]_vars => IInv'
  BY NextIInv
<1>3. QED  BY <1>1, <1>2, PTL DEF Spec

\* The kernel's variables have the types of their C declarations.
THEOREM TypeCorrect == Spec => []TypeOK
<1>1. IInv => TypeOK
  BY TypedNow DEF IInv, TableTyped, SemTyped, MsgTyped, ClkTyped, OwedTyped, ContTyped,
     Ops, TypeOK
<1>2. QED  BY <1>1, InvariantHolds, PTL

\* Every process stands on the list its state names, once, and on no other (resched,
\* ready, kill, wait, signal, unsleep, wakeup: every routine that changes a state).
THEOREM ListsCorrect == Spec => []ListsMatchStates
<1>1. IInv => ListsMatchStates
  <2>1. SUFFICES ASSUME IInv PROVE ListsMatchStates
    OBVIOUS
  <2>2. IsInjective(rdy) /\ IsInjective(slp)
    BY <2>1, TypedNow, NowFields DEF Good
  <2>3. \A s \in Sems : IsInjective(semq[s])
    BY <2>1, QueueFacts
  <2>4. ASSUME NEW p \in Pids
        PROVE  /\ p \in ToSet(rdy) <=> pstate[p] = "ready"
               /\ p \in ToSet(slp) <=> pstate[p] \in {"sleep", "trecv"}
               /\ pstate[p] = "curr" <=> p = currpid
    BY <2>1, TypedNow, NowFields DEF Good, Matches, Sleeping
  <2>5. \A p \in Pids, s \in Sems : p \in ToSet(semq[s]) <=> pstate[p] = "wait" /\ psem[p] = s
    BY <2>1 DEF IInv, Queues
  <2>6. QED  BY <2>2, <2>3, <2>4, <2>5 DEF ListsMatchStates
<1>2. QED  BY <1>1, InvariantHolds, PTL

\* The null process is always ready or running, below everybody else: resched never
\* takes from an empty ready list.
THEOREM NullCorrect == Spec => []NullEligible
<1>1. IInv => NullEligible
  BY TypedNow, NowFields DEF IInv, PriosOk, Good, NullEligible, UserPids
<1>2. QED  BY <1>1, InvariantHolds, PTL

\* A negative semaphore count is the number of processes in the queue (wait, signal,
\* signaln, sreset, sdelete and kill's correction of the count).
THEOREM CountsCorrect == Spec => []CountIsQueue
<1>1. IInv => CountIsQueue
  BY DEF IInv
<1>2. QED  BY <1>1, InvariantHolds, PTL

\* The ready list ascends by priority, also after chprio of a ready process: insert,
\* resched and ready keep the order that resched relies on.
THEOREM ReadyOrderCorrect == Spec => []ReadySorted
<1>1. IInv => ReadySorted
  <2>1. SUFFICES ASSUME IInv PROVE ReadySorted
    OBVIOUS
  <2>2. /\ rdy \in Seq(Pids) /\ pprio \in [Pids -> 0 .. MAXINT] /\ Ascends(rdy, pprio)
        /\ \A p \in ToSet(rdy) : qkey[p] = pprio[p]
    BY <2>1, TypedNow, NowFields DEF Good, Ordered
  <2>3. \A i \in 1 .. Len(rdy) : rdy[i] \in Pids /\ qkey[rdy[i]] = pprio[rdy[i]]
    BY <2>2, SetOfList
  <2>4. ASSUME NEW i \in 1 .. Len(rdy), NEW j \in 1 .. Len(rdy), i <= j
        PROVE  qkey[rdy[i]] <= qkey[rdy[j]]
    <3>1. CASE i < j
      BY <2>2, <2>3, <3>1 DEF Ascends
    <3>2. CASE i = j
      <4>1. pprio[rdy[i]] \in 0 .. MAXINT
        BY <2>2, <2>3
      <4>2. QED  BY <2>3, <3>2, <4>1
    <3>3. QED  BY <2>4, <3>1, <3>2
  <2>5. QED  BY <2>3, <2>4 DEF ReadySorted
<1>2. QED  BY <1>1, InvariantHolds, PTL

\* No ready process has a higher priority than the running one: every call that readies,
\* kills, suspends or gives another priority also reschedules.
THEOREM HighestRuns == Spec => []CurrentIsHighest
<1>1. IInv => CurrentIsHighest
  BY TypedNow, NowFields, SetOfList DEF IInv, Settled, Highest, CurrentIsHighest
<1>2. QED  BY <1>1, InvariantHolds, PTL

\* slnempty and sltop tell the clock interrupt whether a process sleeps and which key is
\* the first, and no key of a sleeper is negative between two calls: insertd, unsleep,
\* wakeup and strtclk each keep the delta list so.
THEOREM SltopCorrect == Spec => []SltopIsHead
<1>1. IInv => SltopIsHead
  <2>1. SUFFICES ASSUME IInv PROVE SltopIsHead
    OBVIOUS
  <2>2. /\ slnempty <=> slp # <<>>
        /\ slnempty => sltop = Head(slp)
        /\ slp \in Seq(Pids) /\ \A p \in ToSet(slp) : qkey[p] >= 0
    BY <2>1, TypedNow, NowFields DEF SltopGood, DelaysGood
  <2>3. \A i \in 1 .. Len(slp) : slp[i] \in ToSet(slp)
    BY <2>2, SetOfList
  <2>4. QED  BY <2>2, <2>3 DEF SltopIsHead
<1>2. QED  BY <1>1, InvariantHolds, PTL
==============================================================================
