------------------------------ MODULE PortProofs ------------------------------
(***************************************************************************)
(* Proofs about the buffer pools and the ports (module Ports): that no     *)
(* unit of their semaphores is lost or made, that nobody is left behind at *)
(* a port, that no node is lost and each buffer is in one place.           *)
(***************************************************************************)
EXTENDS Ports, ListLemmas, FiniteSetTheorems

------------------------------------------------------------------------------
(* Semaphores. *)

Sems == [ok : BOOLEAN, n : Int, q : Seq(Procs)]
Sound(s) == s \in Sems /\ SemGood(s)

LEMMA ContainsSet ==
  ASSUME NEW S, NEW l \in Seq(S), NEW x
  PROVE  Contains(l, x) <=> x \in ToSet(l)
BY SetOfList DEF Contains

LEMMA EmptyList ==
  /\ \A S : <<>> \in Seq(S)
  /\ Len(<<>>) = 0 /\ ToSet(<<>>) = {} /\ IsInjective(<<>>)
BY DEF ToSet, IsInjective

LEMMA NewSound ==
  ASSUME NEW n \in Nat
  PROVE  /\ Sound(Sem(n)) /\ Sem(n).ok /\ Sem(n).n = n /\ Sem(n).q = <<>>
         /\ Sound(NoSem) /\ ~NoSem.ok /\ NoSem.n = 0 /\ NoSem.q = <<>>
BY EmptyList DEF Sound, Sems, SemGood, Sem, NoSem

LEMMA SoundFacts ==
  ASSUME NEW s, Sound(s)
  PROVE  /\ s.ok \in BOOLEAN /\ s.n \in Int /\ s.q \in Seq(Procs) /\ IsInjective(s.q)
         /\ Len(s.q) = (IF s.ok /\ s.n < 0 THEN -s.n ELSE 0)
         /\ s = [ok |-> s.ok, n |-> s.n, q |-> s.q]
         /\ ToSet(s.q) \subseteq Procs
<1>1. s.q \in Seq(Procs)
  BY DEF Sound, Sems
<1>2. QED  BY <1>1, SetOfList DEF Sound, Sems, SemGood

LEMMA WaitedSound ==
  ASSUME NEW s, Sound(s), NEW p \in Procs, p \notin ToSet(s.q)
  PROVE  /\ Sound(Waited(s, p)) /\ Waited(s, p).ok = s.ok
         /\ Waited(s, p).n = IF s.ok THEN s.n - 1 ELSE s.n
         /\ ToSet(Waited(s, p).q) = IF Blocks(s) THEN ToSet(s.q) \cup {p} ELSE ToSet(s.q)
<1> DEFINE a == Append(s.q, p)
<1>1. /\ s.ok \in BOOLEAN /\ s.n \in Int /\ s.q \in Seq(Procs) /\ IsInjective(s.q)
      /\ Len(s.q) = (IF s.ok /\ s.n < 0 THEN -s.n ELSE 0)
      /\ s = [ok |-> s.ok, n |-> s.n, q |-> s.q]
  BY SoundFacts
<1>2. /\ a \in Seq(Procs) /\ IsInjective(a) /\ Len(a) = Len(s.q) + 1
      /\ ToSet(a) = ToSet(s.q) \cup {p}
  BY <1>1, AppendDistinct
<1>3. CASE ~s.ok
  BY <1>1, <1>3 DEF Waited, Blocks
<1>4. CASE s.ok
  <2>1. Waited(s, p) = [ok |-> TRUE, n |-> s.n - 1, q |-> IF s.n <= 0 THEN a ELSE s.q]
    BY <1>1, <1>4 DEF Waited, Blocks
  <2> HIDE DEF a
  <2>2. CASE s.n <= 0
    <3> DEFINE t == [ok |-> TRUE, n |-> s.n - 1, q |-> a]
    <3>1. Waited(s, p) = t /\ Blocks(s)
      BY <1>4, <2>1, <2>2 DEF Blocks
    <3>2. Len(a) = -(s.n - 1) /\ s.n - 1 < 0
      BY <1>1, <1>2, <1>4, <2>2
    <3>3. t \in Sems /\ SemGood(t)
      BY <1>1, <1>2, <3>2 DEF Sems, SemGood
    <3>4. QED  BY <1>2, <1>4, <3>1, <3>3 DEF Sound
  <2>3. CASE s.n > 0
    BY <1>1, <1>4, <2>1, <2>3 DEF Sound, Sems, SemGood, Blocks
  <2>4. QED  BY <1>1, <2>2, <2>3
<1>5. QED  BY <1>1, <1>3, <1>4

LEMMA SignaledSound ==
  ASSUME NEW s, Sound(s)
  PROVE  /\ Sound(Signaled(s)) /\ Signaled(s).ok = s.ok
         /\ Signaled(s).n = IF s.ok THEN s.n + 1 ELSE s.n
         /\ ToSet(Signaled(s).q) \subseteq ToSet(s.q)
<1> DEFINE t == Tail(s.q)
<1>1. /\ s.ok \in BOOLEAN /\ s.n \in Int /\ s.q \in Seq(Procs) /\ IsInjective(s.q)
      /\ Len(s.q) = (IF s.ok /\ s.n < 0 THEN -s.n ELSE 0)
      /\ s = [ok |-> s.ok, n |-> s.n, q |-> s.q]
  BY SoundFacts
<1>2. s.q # <<>> => /\ t \in Seq(Procs) /\ IsInjective(t) /\ Len(t) = Len(s.q) - 1
                    /\ ToSet(t) = ToSet(s.q) \ {Head(s.q)}
  BY <1>1, HeadTailDistinct
<1>3. CASE ~s.ok
  BY <1>1, <1>3 DEF Signaled
<1>4. CASE s.ok
  <2>1. Signaled(s) = [ok |-> TRUE, n |-> s.n + 1, q |-> IF s.n < 0 THEN t ELSE s.q]
    BY <1>1, <1>4 DEF Signaled, Frees
  <2>2. s.n < 0 => s.q # <<>>
    BY <1>1, <1>4
  <2> HIDE DEF t
  <2>3. QED  BY <1>1, <1>2, <1>4, <2>1, <2>2 DEF Sound, Sems, SemGood
<1>5. QED  BY <1>1, <1>3, <1>4

LEMMA LeftSound ==
  ASSUME NEW s, Sound(s), NEW p \in Procs
  PROVE  /\ Sound(Left(s, p)) /\ Left(s, p).ok = s.ok
         /\ Left(s, p).n = IF p \in ToSet(s.q) THEN s.n + 1 ELSE s.n
         /\ ToSet(Left(s, p).q) = ToSet(s.q) \ {p}
         /\ p \in ToSet(s.q) => s.ok
         /\ p \notin ToSet(s.q) => Left(s, p) = s
<1>1. /\ s.ok \in BOOLEAN /\ s.n \in Int /\ s.q \in Seq(Procs) /\ IsInjective(s.q)
      /\ Len(s.q) = (IF s.ok /\ s.n < 0 THEN -s.n ELSE 0)
      /\ s = [ok |-> s.ok, n |-> s.n, q |-> s.q]
  BY SoundFacts
<1>2. CASE p \notin ToSet(s.q)
  BY <1>1, <1>2, ContainsSet DEF Left
<1>3. CASE p \in ToSet(s.q)
  <2>1. Contains(s.q, p)
    BY <1>1, <1>3, ContainsSet
  <2> DEFINE k == CHOOSE i \in 1 .. Len(s.q) : s.q[i] = p
             r == RemoveAt(s.q, k)
  <2>2. k \in 1 .. Len(s.q) /\ s.q[k] = p
    BY <2>1 DEF Contains
  <2>3. Left(s, p) = [ok |-> s.ok, n |-> s.n + 1, q |-> r]
    BY <1>1, <2>1 DEF Left
  <2> HIDE DEF k
  <2>4. /\ r \in Seq(Procs) /\ IsInjective(r) /\ ToSet(r) = ToSet(s.q) \ {p}
        /\ Len(r) = Len(s.q) - 1
    BY <1>1, <2>2, RemoveAtDistinct
  <2> HIDE DEF r
  <2>5. s.ok /\ s.n < 0
    BY <1>1, <2>2
  <2>6. QED  BY <1>1, <1>3, <2>3, <2>4, <2>5 DEF Sound, Sems, SemGood
<1>4. QED  BY <1>2, <1>3

\* Of the processes in a call those not in the queue have been let go.
LEMMA WaitingCounted ==
  ASSUME NEW W, IsFiniteSet(W), NEW q \in Seq(Procs), IsInjective(q), ToSet(q) \subseteq W
  PROVE  /\ Cardinality(W) \in Nat
         /\ Cardinality(W) = Len(q) + Cardinality({p \in W : ~Contains(q, p)})
<1>1. ExistsBijection(1 .. Len(q), ToSet(q))
  <2>1. q \in [1 .. Len(q) -> ToSet(q)]
    <3>1. q = [i \in 1 .. Len(q) |-> q[i]]
      OBVIOUS
    <3>2. \A i \in 1 .. Len(q) : q[i] \in ToSet(q)
      BY SetOfList
    <3>3. QED  BY <3>1, <3>2
  <2>2. \A x \in ToSet(q) : \E i \in 1 .. Len(q) : q[i] = x
    BY SetOfList
  <2>3. q \in Bijection(1 .. Len(q), ToSet(q))
    BY <2>1, <2>2 DEF Bijection, Injection, Surjection, IsInjective
  <2>4. QED  BY <2>3 DEF ExistsBijection
<1>2. IsFiniteSet(1 .. Len(q)) /\ Cardinality(1 .. Len(q)) = Len(q)
  <2>1. 1 \in Int /\ Len(q) \in Int /\ Len(q) >= 0
    OBVIOUS
  <2>2. /\ IsFiniteSet(1 .. Len(q))
        /\ Cardinality(1 .. Len(q)) = IF 1 > Len(q) THEN 0 ELSE Len(q) - 1 + 1
    BY <2>1, FS_Interval
  <2>3. QED  BY <2>1, <2>2
<1>3. IsFiniteSet(ToSet(q)) /\ Cardinality(ToSet(q)) = Len(q)
  BY <1>1, <1>2, FS_Bijection
<1>4. W \ ToSet(q) = {p \in W : ~Contains(q, p)} /\ W \cap ToSet(q) = ToSet(q)
  BY ContainsSet
<1>5. Cardinality(W \ ToSet(q)) = Cardinality(W) - Cardinality(W \cap ToSet(q))
  BY FS_Difference
<1>6. Cardinality(W) \in Nat /\ Cardinality(W \ ToSet(q)) \in Nat
  <2>1. IsFiniteSet(W \ ToSet(q))
    BY FS_Difference
  <2>2. QED  BY <2>1, FS_CardinalityType
<1>7. Cardinality(W \ ToSet(q)) = Cardinality(W) - Len(q)
  BY <1>3, <1>4, <1>5
<1>8. Cardinality(W) = Len(q) + Cardinality(W \ ToSet(q))
  BY <1>6, <1>7
<1>9. QED  BY <1>4, <1>6, <1>8

------------------------------------------------------------------------------
(* Who is in which call. *)

ClientOps == {"user", "dead", "getbuf", "freebuf", "mark", "pinit", "other", "psend", "preceive",
              "dispose", "clearR", "clearEnd"}
Conts == [op : ClientOps, on : Nat, buf : Bufs \cup {<<>>}, n : Nat, to : {"free", "alloc"}]

\* The processes whose continuation is one of C.
Having(f, C) == {p \in Procs : f[p] \in C}
In(op, on) == {c \in Conts : c.op = op /\ c.on = on}
InSince(op, on, gen) == {c \in In(op, on) : c.n = gen}

LEMMA HavingCounted ==
  ASSUME NEW f, NEW C
  PROVE  IsFiniteSet(Having(f, C)) /\ Cardinality(Having(f, C)) \in Nat
<1>1. IsFiniteSet(Having(f, C))
  BY ClientsAssumption, FS_Subset DEF Having
<1>2. QED  BY <1>1, FS_CardinalityType

\* From f to g only what p is doing changes.
OnlyMoves(f, g, p) == p \in Procs /\ \A q \in Procs \ {p} : g[q] = f[q]

LEMMA HavingMoves ==
  ASSUME NEW f, NEW g, NEW p, OnlyMoves(f, g, p), NEW C
  PROVE  /\ Having(g, C) = (Having(f, C) \ {p}) \cup (IF g[p] \in C THEN {p} ELSE {})
         /\ Cardinality(Having(g, C)) = Cardinality(Having(f, C))
              - (IF f[p] \in C THEN 1 ELSE 0) + (IF g[p] \in C THEN 1 ELSE 0)
<1> DEFINE H == Having(f, C)
           D == H \ {p}
<1>1. Having(g, C) = D \cup (IF g[p] \in C THEN {p} ELSE {})
  BY DEF Having, OnlyMoves
<1>2. IsFiniteSet(H) /\ Cardinality(H) \in Nat
  BY HavingCounted
<1>3. p \in H <=> f[p] \in C
  BY DEF Having, OnlyMoves
<1> HIDE DEF H
<1>4. IsFiniteSet(D) /\ Cardinality(D) = IF p \in H THEN Cardinality(H) - 1 ELSE Cardinality(H)
  BY <1>2, FS_RemoveElement
<1>5. p \notin D
  OBVIOUS
<1> HIDE DEF D
<1>6. Cardinality(D \cup {p}) = Cardinality(D) + 1
  BY <1>4, <1>5, FS_AddElement
<1>7. Cardinality(D) = Cardinality(H) - (IF f[p] \in C THEN 1 ELSE 0)
  BY <1>2, <1>3, <1>4
<1>8. Cardinality(Having(g, C)) = Cardinality(D) + (IF g[p] \in C THEN 1 ELSE 0)
  <2>1. CASE g[p] \in C
    BY <1>1, <1>6, <2>1
  <2>2. CASE g[p] \notin C
    <3>1. Having(g, C) = D /\ Cardinality(D) \in Nat
      BY <1>1, <1>4, <2>2, FS_CardinalityType
    <3>2. QED  BY <2>2, <3>1
  <2>3. QED  BY <2>1, <2>2
<1>9. QED  BY <1>1, <1>7, <1>8 DEF D, H

------------------------------------------------------------------------------
(* The buffer pools.  What follows holds whoever marks what. *)

Live == {b \in Bufs : b[1] < nbpools}

PoolTyped ==
  /\ cont \in [Procs -> Conts] /\ nbpools \in 0 .. NBPools
  /\ bpnext \in [Pools -> Seq(Live)] /\ bpsem \in [Pools -> Sems]
  /\ held \in [Procs -> SUBSET Live] /\ lostUnits \in [Pools -> Nat]
  /\ ptq \in [Ports -> Seq(Live)]

\* What the rest of a call is about.
Placed(p) ==
  LET c == cont[p] IN
  /\ c.op \in {"getbuf", "freebuf"} => c.on < nbpools
  /\ c.op \in {"psend", "preceive", "dispose", "clearR", "clearEnd"} => c.on \in Ports
  /\ c.op = "psend" => c.buf \in held[p]
  /\ c.op = "dispose" => c.n >= 1

\* The processes between getbuf's wait and its list, or waiting, and those between
\* freebuf's list and its signal.
Taking(k) == Having(cont, In("getbuf", k))
Giving(k) == Having(cont, In("freebuf", k))
Units(k) == bpsem[k].n + Cardinality(Taking(k)) + Cardinality(Giving(k)) + lostUnits[k]

PoolRight(k) ==
  /\ Sound(bpsem[k]) /\ ToSet(bpsem[k].q) \subseteq Taking(k)
  /\ bpsem[k].ok => Units(k) = Len(bpnext[k])
  /\ k >= nbpools => ~bpsem[k].ok /\ bpnext[k] = <<>> /\ lostUnits[k] = 0

PoolInv == PoolTyped /\ (\A p \in Procs : Placed(p)) /\ (\A k \in Pools : PoolRight(k))

LEMMA PoolAccountedInv == PoolInv => PoolAccounted
<1>1. SUFFICES ASSUME PoolInv, NEW k \in 0 .. nbpools - 1, bpsem[k].ok
               PROVE  bpsem[k].n + Len(bpsem[k].q) + Cardinality(Getters(k)) + Cardinality(Freers(k))
                        + lostUnits[k] = Len(bpnext[k])
  BY DEF PoolAccounted
<1>2. k \in Pools /\ PoolRight(k) /\ cont \in [Procs -> Conts]
  BY <1>1, PoolAssumption DEF PoolInv, PoolTyped, Pools
<1>3. /\ Units(k) = Len(bpnext[k]) /\ ToSet(bpsem[k].q) \subseteq Taking(k)
      /\ bpsem[k].q \in Seq(Procs) /\ IsInjective(bpsem[k].q) /\ bpsem[k].n \in Int
  BY <1>1, <1>2, SoundFacts DEF PoolRight
<1>4. IsFiniteSet(Taking(k)) /\ Cardinality(Taking(k)) \in Nat
  BY HavingCounted DEF Taking
<1>5. Cardinality(Taking(k)) = Len(bpsem[k].q) + Cardinality({p \in Taking(k) : ~Contains(bpsem[k].q, p)})
  BY <1>3, <1>4, WaitingCounted
<1>6. Getters(k) = {p \in Taking(k) : ~Contains(bpsem[k].q, p)}
  BY <1>2 DEF Getters, Released, At, Taking, Having, In
<1>7. Freers(k) = Giving(k)
  BY <1>2 DEF Freers, At, Giving, Having, In
<1>8. IsFiniteSet({p \in Taking(k) : ~Contains(bpsem[k].q, p)})
  BY <1>4, FS_Subset
<1>9. Cardinality({p \in Taking(k) : ~Contains(bpsem[k].q, p)}) \in Nat /\ Cardinality(Giving(k)) \in Nat
  BY <1>8, FS_CardinalityType, HavingCounted DEF Giving
<1>10. Len(bpsem[k].q) \in Nat /\ lostUnits[k] \in Nat
  BY <1>1, <1>2, <1>3 DEF PoolInv, PoolTyped
<1>11. bpsem[k].n + Cardinality(Taking(k)) + Cardinality(Giving(k)) + lostUnits[k] = Len(bpnext[k])
  BY <1>3 DEF Units
<1>12. QED  BY <1>3, <1>5, <1>6, <1>7, <1>9, <1>10, <1>11

\* What a change of one continuation does to the counts.
LEMMA PoolMoves ==
  ASSUME PoolInv, NEW p \in Procs, NEW c \in Conts, Then(p, c), NEW k \in Pools
  PROVE  /\ Taking(k)' = (Taking(k) \ {p}) \cup (IF c.op = "getbuf" /\ c.on = k THEN {p} ELSE {})
         /\ Cardinality(Taking(k)') = Cardinality(Taking(k))
              - (IF At(p, "getbuf") /\ cont[p].on = k THEN 1 ELSE 0)
              + (IF c.op = "getbuf" /\ c.on = k THEN 1 ELSE 0)
         /\ Cardinality(Giving(k)') = Cardinality(Giving(k))
              - (IF At(p, "freebuf") /\ cont[p].on = k THEN 1 ELSE 0)
              + (IF c.op = "freebuf" /\ c.on = k THEN 1 ELSE 0)
         /\ Cardinality(Taking(k)) \in Nat /\ Cardinality(Giving(k)) \in Nat
<1>1. cont \in [Procs -> Conts] /\ cont' = [cont EXCEPT ![p] = c] /\ DOMAIN cont = Procs /\ cont[p] \in Conts
  BY DEF PoolInv, PoolTyped, Then
<1>2. /\ c \in In("getbuf", k) <=> c.op = "getbuf" /\ c.on = k
      /\ c \in In("freebuf", k) <=> c.op = "freebuf" /\ c.on = k
      /\ cont[p] \in In("getbuf", k) <=> At(p, "getbuf") /\ cont[p].on = k
      /\ cont[p] \in In("freebuf", k) <=> At(p, "freebuf") /\ cont[p].on = k
  BY <1>1 DEF In, At
<1>3. Taking(k)' = Having(cont', In("getbuf", k)) /\ Giving(k)' = Having(cont', In("freebuf", k))
  BY DEF Taking, Giving
<1>4. Cardinality(Taking(k)) \in Nat /\ Cardinality(Giving(k)) \in Nat
  BY HavingCounted DEF Taking, Giving
<1>5. OnlyMoves(cont, cont', p) /\ cont'[p] = c
  BY <1>1 DEF OnlyMoves
<1>6. Taking(k) = Having(cont, In("getbuf", k)) /\ Giving(k) = Having(cont, In("freebuf", k))
  BY DEF Taking, Giving
<1>7. QED  BY <1>2, <1>3, <1>4, <1>5, <1>6, HavingMoves

LEMMA PlacedKept ==
  ASSUME PoolInv, NEW p \in Procs, NEW c, Then(p, c), nbpools' \in Nat, nbpools <= nbpools',
         \A q \in Procs \ {p} : held'[q] = held[q]
  PROVE  \A q \in Procs \ {p} : Placed(q)'
<1>1. SUFFICES ASSUME NEW q \in Procs \ {p} PROVE Placed(q)'
  OBVIOUS
<1>2. cont'[q] = cont[q] /\ held'[q] = held[q] /\ Placed(q) /\ cont[q].on \in Nat /\ nbpools \in Nat
  BY DEF PoolInv, PoolTyped, Then, Conts
<1>3. QED  BY <1>2 DEF Placed

PoolOps == {"getbuf", "freebuf"}

\* A pool that a step has nothing to do with.
LEMMA PoolUntouched ==
  ASSUME PoolInv, NEW p \in Procs, NEW c \in Conts, Then(p, c), NEW k \in Pools,
         bpsem'[k] = bpsem[k], bpnext'[k] = bpnext[k], lostUnits'[k] = lostUnits[k],
         nbpools' \in Nat, nbpools <= nbpools',
         ~(cont[p].op \in PoolOps /\ cont[p].on = k), ~(c.op \in PoolOps /\ c.on = k)
  PROVE  PoolRight(k)'
<1>1. nbpools \in Nat /\ k \in Nat /\ PoolRight(k)
  BY DEF PoolInv, PoolTyped, Pools
<1>2. /\ Taking(k)' = Taking(k) \ {p}
      /\ Cardinality(Taking(k)') = Cardinality(Taking(k))
      /\ Cardinality(Giving(k)') = Cardinality(Giving(k))
  <2>1. /\ ~(c.op = "getbuf" /\ c.on = k) /\ ~(At(p, "getbuf") /\ cont[p].on = k)
        /\ ~(c.op = "freebuf" /\ c.on = k) /\ ~(At(p, "freebuf") /\ cont[p].on = k)
    BY DEF PoolOps, At
  <2>2. QED  BY <2>1, PoolMoves
<1>3. p \notin Taking(k)
  BY DEF PoolOps, Taking, Having, In
<1>4. Taking(k)' = Taking(k) /\ Units(k)' = Units(k)
  BY <1>2, <1>3 DEF Units
<1>5. QED  BY <1>1, <1>4 DEF PoolRight

LEMMA ContTypes ==
  /\ Idle \in Conts /\ Idle.op = "user"
  /\ \A op \in ClientOps, on \in Nat, buf \in Bufs \cup {<<>>}, n \in Nat :
       /\ Do(op, on, buf, n) \in Conts /\ Do(op, on, buf, n).op = op /\ Do(op, on, buf, n).on = on
       /\ Do(op, on, buf, n).buf = buf /\ Do(op, on, buf, n).n = n
<1>1. Idle \in Conts /\ Idle.op = "user"
  BY DEF Idle, Conts, ClientOps
<1>2. ASSUME NEW op \in ClientOps, NEW on \in Nat, NEW buf \in Bufs \cup {<<>>}, NEW n \in Nat
      PROVE  /\ Do(op, on, buf, n) \in Conts /\ Do(op, on, buf, n).op = op /\ Do(op, on, buf, n).on = on
             /\ Do(op, on, buf, n).buf = buf /\ Do(op, on, buf, n).n = n
  BY <1>2 DEF Do, Conts
<1>3. QED  BY <1>1, <1>2

\* A step that leaves the pools alone, but for what programs hold.
LEMMA PoolsQuiet ==
  ASSUME PoolInv, NEW p \in Procs, NEW c \in Conts, Then(p, c), cont[p].op \notin PoolOps, c.op \notin PoolOps,
         UNCHANGED <<nbpools, bpnext, bpsem, lostUnits>>,
         ptq' \in [Ports -> Seq(Live)], held' \in [Procs -> SUBSET Live],
         \A q \in Procs \ {p} : held'[q] = held[q], Placed(p)'
  PROVE  PoolInv'
<1>1. cont' \in [Procs -> Conts] /\ nbpools \in Nat
  BY DEF PoolInv, PoolTyped, Then
<1>2. Live' = Live
  BY DEF Live
<1>3. PoolTyped'
  BY <1>1, <1>2 DEF PoolInv, PoolTyped
<1>4. \A q \in Procs : Placed(q)'
  BY <1>1, PlacedKept
<1>5. \A k \in Pools : PoolRight(k)'
  BY <1>1, PoolUntouched
<1>6. QED  BY <1>3, <1>4, <1>5 DEF PoolInv

LEMMA GetbufInv ==
  ASSUME PoolInv, NEW p \in Procs, NEW pool \in Pools, Getbuf(p, pool), UNCHANGED ptq
  PROVE  PoolInv'
<1> DEFINE c == Do("getbuf", pool, <<>>, 0)
           s == bpsem[pool]
<1>1. /\ cont[p] = Idle /\ pool < nbpools /\ Then(p, c) /\ bpsem' = [bpsem EXCEPT ![pool] = Waited(s, p)]
      /\ UNCHANGED <<nbpools, bpnext, held, lostUnits>>
  BY DEF Getbuf, Call
<1>2. c \in Conts /\ c.op = "getbuf" /\ c.on = pool /\ cont[p].op = "user"
  BY <1>1, ContTypes DEF Pools, ClientOps
<1> HIDE DEF c
<1>3. /\ PoolTyped /\ nbpools \in Nat /\ pool \in Nat /\ PoolRight(pool)
      /\ Cardinality(Taking(pool)) \in Nat /\ Cardinality(Giving(pool)) \in Nat
  BY <1>1, <1>2, PoolMoves DEF PoolInv, PoolTyped, Pools
<1>4. p \notin ToSet(s.q) /\ Sound(s)
  BY <1>2, <1>3 DEF PoolRight, Taking, Having, In
<1>5. /\ Sound(Waited(s, p)) /\ Waited(s, p).ok = s.ok
      /\ Waited(s, p).n = IF s.ok THEN s.n - 1 ELSE s.n
      /\ ToSet(Waited(s, p).q) \subseteq ToSet(s.q) \cup {p}
  BY <1>4, WaitedSound
<1>6. PoolTyped'
  <2>1. cont' \in [Procs -> Conts] /\ Live' = Live
    BY <1>1, <1>2, <1>3 DEF PoolTyped, Live, Then
  <2>2. bpsem' \in [Pools -> Sems]
    BY <1>1, <1>3, <1>5 DEF PoolTyped, Sound
  <2>3. QED  BY <1>1, <1>3, <2>1, <2>2 DEF PoolTyped
<1>7. \A q \in Procs : Placed(q)'
  <2>1. Placed(p)'
    BY <1>1, <1>2, <1>3 DEF Placed, Then, PoolTyped
  <2>2. \A q \in Procs \ {p} : Placed(q)'
    BY <1>1, <1>3, PlacedKept
  <2>3. QED  BY <2>1, <2>2
<1>8. ASSUME NEW k \in Pools, k # pool PROVE PoolRight(k)'
  <2>1. bpsem'[k] = bpsem[k]
    BY <1>1, <1>3, <1>8 DEF PoolTyped
  <2>2. QED  BY <1>1, <1>2, <1>3, <1>8, <2>1, PoolUntouched DEF PoolOps
<1>9. PoolRight(pool)'
  <2>1. bpsem'[pool] = Waited(s, p)
    BY <1>1, <1>3 DEF PoolTyped
  <2>2. /\ Taking(pool)' = Taking(pool) \cup {p} /\ Cardinality(Taking(pool)') = Cardinality(Taking(pool)) + 1
        /\ Cardinality(Giving(pool)') = Cardinality(Giving(pool))
    BY <1>1, <1>2, <1>3, PoolMoves DEF At
  <2>3. s.n \in Int /\ s.ok \in BOOLEAN /\ lostUnits[pool] \in Nat
    BY <1>3, <1>4, SoundFacts DEF PoolTyped
  <2>4. s.ok => Units(pool)' = Units(pool)
    BY <1>1, <1>3, <1>5, <2>1, <2>2, <2>3 DEF Units
  <2>5. QED  BY <1>1, <1>3, <1>5, <2>1, <2>2, <2>3, <2>4 DEF PoolRight
<1>10. QED  BY <1>6, <1>7, <1>8, <1>9 DEF PoolInv

LEMMA FinishGetbufInv ==
  ASSUME PoolInv, NEW p \in Procs, FinishGetbuf(p), UNCHANGED ptq
  PROVE  PoolInv'
<1>0. PICK pool \in Pools : pool = cont[p].on
  <2>1. Placed(p) /\ cont[p] \in Conts /\ nbpools \in 0 .. NBPools /\ cont[p].op \in PoolOps
    BY DEF FinishGetbuf, At, PoolInv, PoolTyped, PoolOps
  <2>2. cont[p].on \in Nat /\ cont[p].on < nbpools /\ NBPools \in Nat
    BY <2>1, PoolAssumption DEF Placed, Conts, PoolOps
  <2>3. QED  BY <2>1, <2>2 DEF Pools
<1> DEFINE l == bpnext[pool]
<1>1. /\ cont[p].op = "getbuf" /\ Then(p, Idle) /\ l # <<>> /\ ~Contains(bpsem[pool].q, p)
      /\ held' = [held EXCEPT ![p] = @ \cup {Head(l)}]
      /\ bpnext' = [bpnext EXCEPT ![pool] = Tail(l)]
      /\ UNCHANGED <<nbpools, bpsem, lostUnits>>
  BY <1>0 DEF FinishGetbuf, At
<1>2. /\ PoolTyped /\ nbpools \in Nat /\ cont[p] \in Conts /\ Placed(p)
  BY DEF PoolInv, PoolTyped
<1>3. pool \in Pools /\ pool < nbpools /\ pool \in Nat
  BY <1>0, <1>1, <1>2 DEF Placed, Pools
<1>4. PoolRight(pool) /\ l \in Seq(Live) /\ Idle \in Conts /\ Idle.op = "user"
  BY <1>2, <1>3, ContTypes DEF PoolInv, PoolTyped
<1>5. Head(l) \in Live /\ Tail(l) \in Seq(Live) /\ Len(Tail(l)) = Len(l) - 1
  BY <1>1, <1>4
<1>6. PoolTyped'
  <2>1. cont' \in [Procs -> Conts] /\ Live' = Live
    BY <1>1, <1>2, <1>4 DEF PoolTyped, Live, Then
  <2>2. bpnext' \in [Pools -> Seq(Live)] /\ held' \in [Procs -> SUBSET Live]
    BY <1>1, <1>2, <1>5 DEF PoolTyped
  <2>3. QED  BY <1>1, <1>2, <2>1, <2>2 DEF PoolTyped
<1>7. \A q \in Procs : Placed(q)'
  <2>1. Placed(p)'
    BY <1>1, <1>2, <1>4 DEF Placed, Then, PoolTyped
  <2>2. \A q \in Procs \ {p} : Placed(q)'
    <3>1. \A q \in Procs \ {p} : held'[q] = held[q]
      BY <1>1, <1>2 DEF PoolTyped
    <3>2. QED  BY <1>1, <1>2, <3>1, PlacedKept
  <2>3. QED  BY <2>1, <2>2
<1> HIDE DEF l
<1>8. ASSUME NEW k \in Pools, k # pool PROVE PoolRight(k)'
  <2>1. bpnext'[k] = bpnext[k]
    BY <1>1, <1>2, <1>8 DEF PoolTyped
  <2>2. QED  BY <1>0, <1>1, <1>2, <1>4, <1>8, <2>1, PoolUntouched DEF PoolOps
<1>9. PoolRight(pool)'
  <2> DEFINE s == bpsem[pool]
  <2>1. bpnext'[pool] = Tail(l) /\ bpsem'[pool] = s /\ lostUnits'[pool] = lostUnits[pool]
    BY <1>1, <1>2 DEF PoolTyped
  <2>2. /\ Taking(pool)' = Taking(pool) \ {p}
        /\ Cardinality(Taking(pool)') = Cardinality(Taking(pool)) - 1
        /\ Cardinality(Giving(pool)') = Cardinality(Giving(pool))
        /\ Cardinality(Giving(pool)) \in Nat /\ Cardinality(Taking(pool)) \in Nat
    BY <1>0, <1>1, <1>2, <1>4, PoolMoves DEF At
  <2>3. s.n \in Int /\ lostUnits[pool] \in Nat /\ s.q \in Seq(Procs)
    BY <1>2, <1>4, SoundFacts DEF PoolTyped, PoolRight
  <2>4. p \notin ToSet(s.q)
    BY <1>1, <2>3, ContainsSet
  <2> HIDE DEF s
  <2>5. l = bpnext[pool] /\ s = bpsem[pool]
    BY DEF l, s
  <2>6. Units(pool)' = Units(pool) - 1 /\ Units(pool) \in Int
    <3>1. bpsem[pool].n \in Int /\ bpsem'[pool].n = bpsem[pool].n /\ lostUnits'[pool] = lostUnits[pool]
      BY <2>1, <2>3, <2>5
    <3>2. Units(pool) \in Int
      BY <2>2, <2>3, <3>1 DEF Units
    <3>3. Units(pool)' = bpsem[pool].n + (Cardinality(Taking(pool)) - 1) + Cardinality(Giving(pool)) + lostUnits[pool]
      BY <2>2, <3>1 DEF Units
    <3>4. \A n, t, g, l0 \in Int : n + (t - 1) + g + l0 = (n + t + g + l0) - 1
      OBVIOUS
    <3>5. /\ bpsem[pool].n \in Int /\ Cardinality(Taking(pool)) \in Int /\ Cardinality(Giving(pool)) \in Int
          /\ lostUnits[pool] \in Int
      BY <2>2, <2>3, <3>1
    <3>6. QED  BY ONLY <3>2, <3>3, <3>4, <3>5 DEF Units
  <2>7. QED  BY <1>1, <1>3, <1>4, <1>5, <2>1, <2>2, <2>4, <2>5, <2>6 DEF PoolRight
<1>10. QED  BY <1>6, <1>7, <1>8, <1>9 DEF PoolInv

LEMMA FreebufInv ==
  ASSUME PoolInv, NEW p \in Procs, NEW b \in Bufs, Freebuf(p, b), UNCHANGED ptq
  PROVE  PoolInv'
<1> DEFINE k == b[1]
           c == Do("freebuf", k, <<>>, 0)
           l == bpnext[k]
<1>1. /\ cont[p] = Idle /\ Then(p, c) /\ b \in held[p]
      /\ held' = [held EXCEPT ![p] = @ \ {b}]
      /\ bpnext' = [bpnext EXCEPT ![k] = <<b>> \o l]
      /\ UNCHANGED <<nbpools, bpsem, lostUnits>>
  BY DEF Freebuf, Call
<1>2. /\ PoolTyped /\ nbpools \in Nat /\ b \in Live /\ k \in Pools /\ k \in Nat /\ k < nbpools
  BY <1>1 DEF PoolInv, PoolTyped, Live, Bufs, Pools
<1> HIDE DEF k
<1>3. c \in Conts /\ c.op = "freebuf" /\ c.on = k /\ cont[p].op = "user"
  <2>1. k \in Nat /\ cont[p] = Idle
    BY <1>1, <1>2
  <2>2. c \in Conts /\ c.op = "freebuf" /\ c.on = k
    <3>1. "freebuf" \in ClientOps /\ <<>> \in Bufs \cup {<<>>} /\ 0 \in Nat
      BY DEF ClientOps
    <3>2. QED  BY ONLY <2>1, <3>1 DEF Do, Conts
  <2>3. QED  BY <2>1, <2>2, ContTypes
<1> HIDE DEF c
<1>4. PoolRight(k) /\ l \in Seq(Live)
  BY <1>2 DEF PoolInv, PoolTyped
<1>5. <<b>> \o l \in Seq(Live) /\ Len(<<b>> \o l) = Len(l) + 1
  <2>1. <<b>> \in Seq(Live) /\ Len(<<b>>) = 1
    BY <1>2
  <2>2. QED  BY <1>4, <2>1, ConcatList
<1>6. PoolTyped'
  <2>1. cont' \in [Procs -> Conts] /\ Live' = Live
    BY <1>1, <1>2, <1>3 DEF PoolTyped, Live, Then
  <2>2. bpnext' \in [Pools -> Seq(Live)] /\ held' \in [Procs -> SUBSET Live]
    BY <1>1, <1>2, <1>5 DEF PoolTyped
  <2>3. QED  BY <1>1, <1>2, <2>1, <2>2 DEF PoolTyped
<1>7. \A q \in Procs : Placed(q)'
  <2>1. Placed(p)'
    BY <1>1, <1>2, <1>3 DEF Placed, Then, PoolTyped
  <2>2. \A q \in Procs \ {p} : Placed(q)'
    <3>1. \A q \in Procs \ {p} : held'[q] = held[q]
      BY <1>1, <1>2 DEF PoolTyped
    <3>2. QED  BY <1>1, <1>2, <3>1, PlacedKept
  <2>3. QED  BY <2>1, <2>2
<1>8. ASSUME NEW j \in Pools, j # k PROVE PoolRight(j)'
  <2>1. bpnext'[j] = bpnext[j]
    BY <1>1, <1>2, <1>8 DEF PoolTyped
  <2>2. /\ Then(p, c) /\ UNCHANGED <<nbpools, bpsem, lostUnits>> /\ c \in Conts /\ nbpools \in Nat
        /\ cont[p].op \notin PoolOps /\ c.on # j
    BY <1>1, <1>2, <1>3, <1>8 DEF PoolOps
  <2>3. QED  BY <2>1, <2>2, PoolUntouched
<1>9. PoolRight(k)'
  <2> DEFINE s == bpsem[k]
  <2>1. bpnext'[k] = <<b>> \o l /\ bpsem'[k] = s /\ lostUnits'[k] = lostUnits[k] /\ nbpools' = nbpools
    BY <1>1, <1>2 DEF PoolTyped
  <2>2. /\ Taking(k)' = Taking(k) \ {p} /\ Cardinality(Taking(k)') = Cardinality(Taking(k))
        /\ Cardinality(Giving(k)') = Cardinality(Giving(k)) + 1
        /\ Cardinality(Giving(k)) \in Nat /\ Cardinality(Taking(k)) \in Nat
    BY <1>1, <1>2, <1>3, PoolMoves DEF At
  <2>3. s.n \in Int /\ lostUnits[k] \in Nat
    BY <1>2, <1>4, SoundFacts DEF PoolTyped, PoolRight
  <2>4. p \notin Taking(k)
    BY <1>3 DEF Taking, Having, In
  <2> HIDE DEF s, l
  <2>5. Units(k)' = Units(k) + 1 /\ Units(k) \in Int
    <3>1. bpsem[k].n \in Int /\ bpsem'[k].n = bpsem[k].n /\ lostUnits'[k] = lostUnits[k]
      BY <2>1, <2>3 DEF s
    <3>2. QED  BY ONLY <2>2, <2>3, <3>1 DEF Units
  <2>6. l = bpnext[k] /\ s = bpsem[k]
    BY DEF l, s
  <2>7. QED  BY <1>2, <1>4, <1>5, <2>1, <2>2, <2>4, <2>5, <2>6 DEF PoolRight
<1>10. QED  BY <1>6, <1>7, <1>8, <1>9 DEF PoolInv

LEMMA FinishFreebufInv ==
  ASSUME PoolInv, NEW p \in Procs, FinishFreebuf(p), UNCHANGED ptq
  PROVE  PoolInv'
<1>0. PICK k \in Pools : k = cont[p].on
  <2>1. Placed(p) /\ cont[p] \in Conts /\ nbpools \in 0 .. NBPools /\ cont[p].op \in PoolOps
    BY DEF FinishFreebuf, At, PoolInv, PoolTyped, PoolOps
  <2>2. cont[p].on \in Nat /\ cont[p].on < nbpools /\ NBPools \in Nat
    BY <2>1, PoolAssumption DEF Placed, Conts, PoolOps
  <2>3. QED  BY <2>1, <2>2 DEF Pools
<1> DEFINE s == bpsem[k]
<1>1. /\ cont[p].op = "freebuf" /\ Then(p, Idle) /\ bpsem' = [bpsem EXCEPT ![k] = Signaled(s)]
      /\ UNCHANGED <<nbpools, bpnext, held, lostUnits>>
  BY <1>0 DEF FinishFreebuf, At
<1>2. /\ PoolTyped /\ nbpools \in Nat /\ cont[p] \in Conts /\ Placed(p)
  BY DEF PoolInv, PoolTyped
<1>3. k \in Pools /\ k < nbpools /\ k \in Nat
  BY <1>0, <1>1, <1>2 DEF Placed, Pools
<1>4. PoolRight(k) /\ Idle \in Conts /\ Idle.op = "user" /\ Sound(s)
  BY <1>2, <1>3, ContTypes DEF PoolInv, PoolRight
<1>5. /\ Sound(Signaled(s)) /\ Signaled(s).ok = s.ok
      /\ Signaled(s).n = IF s.ok THEN s.n + 1 ELSE s.n
      /\ ToSet(Signaled(s).q) \subseteq ToSet(s.q)
  BY <1>4, SignaledSound
<1>6. PoolTyped'
  <2>1. cont' \in [Procs -> Conts] /\ Live' = Live
    BY <1>1, <1>2, <1>4 DEF PoolTyped, Live, Then
  <2>2. bpsem' \in [Pools -> Sems]
    BY <1>1, <1>2, <1>5 DEF PoolTyped, Sound
  <2>3. QED  BY <1>1, <1>2, <2>1, <2>2 DEF PoolTyped
<1>7. \A q \in Procs : Placed(q)'
  <2>1. Placed(p)'
    BY <1>1, <1>2, <1>4 DEF Placed, Then, PoolTyped
  <2>2. \A q \in Procs \ {p} : Placed(q)'
    BY <1>1, <1>2, PlacedKept
  <2>3. QED  BY <2>1, <2>2
<1> HIDE DEF s
<1>8. ASSUME NEW j \in Pools, j # k PROVE PoolRight(j)'
  <2>1. bpsem'[j] = bpsem[j]
    BY <1>1, <1>2, <1>8 DEF PoolTyped
  <2>2. QED  BY <1>0, <1>1, <1>2, <1>4, <1>8, <2>1, PoolUntouched DEF PoolOps
<1>9. PoolRight(k)'
  <2>1. /\ Taking(k)' = Taking(k) \ {p} /\ Cardinality(Taking(k)') = Cardinality(Taking(k))
        /\ Cardinality(Giving(k)') = Cardinality(Giving(k)) - 1
        /\ Cardinality(Giving(k)) \in Nat /\ Cardinality(Taking(k)) \in Nat
    BY <1>0, <1>1, <1>2, <1>4, PoolMoves DEF At
  <2>2. s.n \in Int /\ s.ok \in BOOLEAN /\ lostUnits[k] \in Nat
    BY <1>2, <1>4, SoundFacts DEF PoolTyped
  <2>3. p \notin Taking(k)
    BY <1>1 DEF Taking, Having, In
  <2>4. bpsem'[k] = Signaled(s) /\ s = bpsem[k] /\ UNCHANGED <<nbpools, bpnext, lostUnits>>
    BY <1>1, <1>2 DEF PoolTyped, s
  <2>5. s.ok => Units(k)' = Units(k)
    BY <1>5, <2>1, <2>2, <2>4 DEF Units
  <2>6. QED  BY <1>3, <1>4, <1>5, <2>1, <2>2, <2>3, <2>4, <2>5 DEF PoolRight
<1>10. QED  BY <1>6, <1>7, <1>8, <1>9 DEF PoolInv

LEMMA MkpoolInv ==
  ASSUME PoolInv, NEW p \in Procs, Mkpool(p), UNCHANGED ptq
  PROVE  PoolInv'
<1>1. /\ PoolTyped /\ nbpools < NBPools /\ nbpools \in Nat /\ cont[p] = Idle /\ cont' = cont
      /\ nbpools' = nbpools + 1 /\ UNCHANGED <<held, lostUnits>>
      /\ bpnext' = [bpnext EXCEPT ![nbpools] = BufsOf(nbpools)]
      /\ bpsem' = [bpsem EXCEPT ![nbpools] = IF semsLeft > 0 THEN Sem(NBufs) ELSE NoSem]
  BY DEF PoolInv, PoolTyped, Mkpool, Call
<1>2. PICK k \in Pools : k = nbpools
  BY <1>1, PoolAssumption DEF Pools
<1>3. k \in Nat /\ NBufs \in Nat /\ Idle \in Conts /\ cont[p].op \notin PoolOps
  BY <1>1, <1>2, PoolAssumption, ContTypes DEF PoolOps
<1>4. Live \subseteq Live' /\ \A n \in 1 .. NBufs : <<k, n>> \in Live'
  <2>1. \A n \in 1 .. NBufs : <<k, n>> \in Bufs /\ <<k, n>>[1] = k
    BY DEF Bufs
  <2>2. \A b \in Bufs : b[1] \in Nat
    BY DEF Bufs, Pools
  <2>3. QED  BY <1>1, <1>2, <2>1, <2>2 DEF Live
<1>5. BufsOf(k) \in Seq(Live') /\ Len(BufsOf(k)) = NBufs
  BY <1>3, <1>4 DEF BufsOf
<1>6. \A l \in Seq(Live) : l \in Seq(Live')
  BY <1>4
<1>7. PoolTyped'
  <2>1. Sem(NBufs) \in Sems /\ NoSem \in Sems
    BY <1>3, NewSound DEF Sound
  <2>2. bpnext' \in [Pools -> Seq(Live')]
    BY <1>1, <1>2, <1>5, <1>6 DEF PoolTyped
  <2>3. held' \in [Procs -> SUBSET Live'] /\ ptq' \in [Ports -> Seq(Live')]
    BY <1>1, <1>4, <1>6 DEF PoolTyped
  <2>4. bpsem' \in [Pools -> Sems]
    BY <1>1, <2>1 DEF PoolTyped
  <2>5. nbpools' \in 0 .. NBPools
    BY <1>1, PoolAssumption
  <2>6. QED  BY <1>1, <2>2, <2>3, <2>4, <2>5 DEF PoolTyped
<1>8. ASSUME NEW q \in Procs PROVE Placed(q)'
  <2>1. Placed(q) /\ cont[q] \in Conts
    BY <1>1 DEF PoolInv, PoolTyped
  <2>2. cont[q].on \in Nat
    BY <2>1 DEF Conts
  <2>3. QED  BY <1>1, <2>1, <2>2 DEF Placed
<1>9. ASSUME NEW j \in Pools, j # k PROVE PoolRight(j)'
  <2>1. bpnext'[j] = bpnext[j] /\ bpsem'[j] = bpsem[j] /\ lostUnits'[j] = lostUnits[j]
    BY <1>1, <1>2, <1>9 DEF PoolTyped
  <2>2. Then(p, Idle) /\ nbpools' \in Nat /\ nbpools <= nbpools'
    BY <1>1 DEF Then, PoolTyped
  <2>3. Idle.op \notin PoolOps
    BY ContTypes DEF PoolOps
  <2>4. QED  BY <1>3, <2>1, <2>2, <2>3, PoolUntouched
<1>10. PoolRight(k)'
  <2>1. Taking(k) = {} /\ Giving(k) = {}
    <3>1. \A q \in Procs : cont[q].op \in PoolOps => cont[q].on \in Nat /\ cont[q].on < k
      BY <1>1, <1>2 DEF PoolInv, PoolTyped, Conts, Placed, PoolOps
    <3>2. \A q \in Procs : cont[q].op \in PoolOps => cont[q].on # k
      BY <1>3, <3>1
    <3>3. QED  BY <3>2 DEF Taking, Giving, Having, In, PoolOps
  <2>2. Taking(k)' = {} /\ Giving(k)' = {} /\ Cardinality({}) = 0
    BY <1>1, <2>1, FS_EmptySet DEF Taking, Giving
  <2>3. lostUnits'[k] = 0 /\ ~(k >= nbpools') /\ bpnext'[k] = BufsOf(k)
    BY <1>1, <1>2 DEF PoolInv, PoolTyped, PoolRight
  <2>4. bpsem'[k] = Sem(NBufs) \/ bpsem'[k] = NoSem
    BY <1>1, <1>2 DEF PoolTyped
  <2>5. /\ Sound(bpsem'[k]) /\ bpsem'[k].q = <<>> /\ bpsem'[k].ok => bpsem'[k].n = NBufs
    BY <1>3, <2>4, NewSound
  <2>6. Units(k)' = bpsem'[k].n + 0 + 0 + 0
    BY <2>2, <2>3 DEF Units
  <2>7. ToSet(bpsem'[k].q) = {}
    BY <2>4, NewSound, EmptyList, <1>3
  <2>8. Sound(bpsem'[k])
    BY <1>3, <2>4, NewSound
  <2>9. bpsem'[k].ok => Units(k)' = Len(bpnext'[k])
    <3>1. bpsem'[k].n \in Int
      BY <2>8, SoundFacts
    <3>2. bpsem'[k].ok => bpsem'[k].n = NBufs
      BY <1>3, <2>4, NewSound
    <3>3. Len(bpnext'[k]) = NBufs
      BY <1>5, <2>3
    <3>4. QED  BY <1>3, <2>6, <3>1, <3>2, <3>3
  <2>10. QED  BY <2>3, <2>7, <2>8, <2>9 DEF PoolRight
<1>11. QED  BY <1>7, <1>8, <1>9, <1>10 DEF PoolInv

LEMMA PoolStepInv ==
  ASSUME PoolInv, NEW p \in Procs, PoolStep(p), UNCHANGED ptq
  PROVE  PoolInv'
BY GetbufInv, FinishGetbufInv, FreebufInv, FinishFreebufInv, MkpoolInv DEF PoolStep

\* kill: what the process was promised goes with it, and is booked as lost.
LEMMA KillPoolInv ==
  ASSUME PoolInv, NEW p \in Procs, Kill(p)
  PROVE  PoolInv'
<1> DEFINE c == Do("dead", 0, <<>>, 0)
<1>1. /\ Then(p, c) /\ UNCHANGED <<nbpools, bpnext, held, ptq>>
      /\ bpsem' = [k \in Pools |-> Left(bpsem[k], p)]
      /\ lostUnits' = [k \in Pools |-> lostUnits[k] + (IF p \in Getters(k) THEN 1 ELSE 0)
                                                    + (IF p \in Freers(k) THEN 1 ELSE 0)]
  BY DEF Kill
<1>2. c \in Conts /\ c.op = "dead"
  BY DEF Do, Conts, ClientOps
<1> HIDE DEF c
<1>3. /\ PoolTyped /\ nbpools \in Nat /\ cont[p] \in Conts
  BY DEF PoolInv, PoolTyped
<1>4. ASSUME NEW k \in Pools
      PROVE  /\ Sound(bpsem'[k]) /\ bpsem'[k].ok = bpsem[k].ok
             /\ bpsem'[k].n = IF p \in ToSet(bpsem[k].q) THEN bpsem[k].n + 1 ELSE bpsem[k].n
             /\ ToSet(bpsem'[k].q) = ToSet(bpsem[k].q) \ {p}
             /\ lostUnits'[k] = lostUnits[k] + (IF p \in Getters(k) THEN 1 ELSE 0)
                                             + (IF p \in Freers(k) THEN 1 ELSE 0)
             /\ Sound(bpsem[k])
  <2>1. Sound(bpsem[k])
    BY DEF PoolInv, PoolRight
  <2>2. bpsem'[k] = Left(bpsem[k], p)
    BY <1>1
  <2>3. lostUnits'[k] = lostUnits[k] + (IF p \in Getters(k) THEN 1 ELSE 0)
                                     + (IF p \in Freers(k) THEN 1 ELSE 0)
    BY <1>1
  <2>4. QED  BY <2>1, <2>2, <2>3, LeftSound
<1>5. PoolTyped'
  <2>1. cont' \in [Procs -> Conts] /\ Live' = Live
    BY <1>1, <1>2, <1>3 DEF PoolTyped, Live, Then
  <2>2. bpsem' \in [Pools -> Sems]
    BY <1>1, <1>4 DEF Sound
  <2>3. lostUnits' \in [Pools -> Nat]
    BY <1>1, <1>3 DEF PoolTyped
  <2>4. QED  BY <1>1, <1>3, <2>1, <2>2, <2>3 DEF PoolTyped
<1>6. \A q \in Procs : Placed(q)'
  <2>1. Placed(p)'
    BY <1>1, <1>2, <1>3 DEF Placed, Then, PoolTyped
  <2>2. \A q \in Procs \ {p} : Placed(q)'
    BY <1>1, <1>3, PlacedKept
  <2>3. QED  BY <2>1, <2>2
<1>7. ASSUME NEW k \in Pools PROVE PoolRight(k)'
  <2> DEFINE inQ == p \in ToSet(bpsem[k].q)
             inT == At(p, "getbuf") /\ cont[p].on = k
             inG == At(p, "freebuf") /\ cont[p].on = k
  <2>1. PoolRight(k) /\ bpsem[k].q \in Seq(Procs) /\ bpsem[k].n \in Int /\ lostUnits[k] \in Nat /\ k \in Nat
    BY <1>3, <1>4, SoundFacts DEF PoolInv, PoolTyped, Pools
  <2>2. (p \in Getters(k) <=> inT /\ ~inQ) /\ (p \in Freers(k) <=> inG)
    BY <2>1, ContainsSet DEF Getters, Released, Freers
  <2>3. (inQ => inT) /\ ~(inT /\ inG)
    BY <1>3, <2>1 DEF PoolRight, Taking, Having, In, At
  <2>a. Taking(k)' = Taking(k) \ {p}
    BY <1>1, <1>2, PoolMoves
  <2>4. /\ Cardinality(Taking(k)') = Cardinality(Taking(k)) - (IF inT THEN 1 ELSE 0)
        /\ Cardinality(Giving(k)') = Cardinality(Giving(k)) - (IF inG THEN 1 ELSE 0)
    BY <1>1, <1>2, PoolMoves
  <2>b. Cardinality(Taking(k)) \in Nat /\ Cardinality(Giving(k)) \in Nat
    BY <1>1, <1>2, PoolMoves
  <2>c. bpsem[k].n \in Int /\ lostUnits[k] \in Nat
    BY <2>1
  <2>5. /\ bpsem'[k].n = IF inQ THEN bpsem[k].n + 1 ELSE bpsem[k].n
        /\ lostUnits'[k] = lostUnits[k] + (IF inT /\ ~inQ THEN 1 ELSE 0) + (IF inG THEN 1 ELSE 0)
    BY <1>4, <2>2
  <2> HIDE DEF inQ, inT, inG
  <2>6. bpsem'[k].n + Cardinality(Taking(k)') + Cardinality(Giving(k)') + lostUnits'[k]
        = bpsem[k].n + Cardinality(Taking(k)) + Cardinality(Giving(k)) + lostUnits[k]
    <3>1. CASE inT
      <4>1. CASE inQ
        <5>1. bpsem'[k].n = bpsem[k].n + 1 /\ lostUnits'[k] = lostUnits[k]
          BY <2>3, <2>5, <2>c, <3>1, <4>1
        <5>2. Cardinality(Taking(k)') = Cardinality(Taking(k)) - 1 /\ Cardinality(Giving(k)') = Cardinality(Giving(k))
          BY <2>b, <2>3, <2>4, <3>1
        <5>3. QED  BY ONLY <2>b, <2>c, <5>1, <5>2
      <4>2. CASE ~inQ
        <5>1. bpsem'[k].n = bpsem[k].n /\ lostUnits'[k] = lostUnits[k] + 1
          BY <2>3, <2>5, <2>c, <3>1, <4>2
        <5>2. Cardinality(Taking(k)') = Cardinality(Taking(k)) - 1 /\ Cardinality(Giving(k)') = Cardinality(Giving(k))
          BY <2>3, <2>4, <2>b, <3>1
        <5>3. QED  BY ONLY <2>b, <2>c, <5>1, <5>2
      <4>3. QED  BY <4>1, <4>2
    <3>2. CASE inG
      <4>1. bpsem'[k].n = bpsem[k].n /\ lostUnits'[k] = lostUnits[k] + 1
        BY <2>3, <2>5, <2>c, <3>2
      <4>2. Cardinality(Taking(k)') = Cardinality(Taking(k)) /\ Cardinality(Giving(k)') = Cardinality(Giving(k)) - 1
        BY <2>3, <2>4, <2>b, <3>2
      <4>3. QED  BY ONLY <2>b, <2>c, <4>1, <4>2
    <3>3. CASE ~inT /\ ~inG
      <4>1. bpsem'[k].n = bpsem[k].n /\ lostUnits'[k] = lostUnits[k]
        BY <2>3, <2>5, <2>c, <3>3
      <4>2. Cardinality(Taking(k)') = Cardinality(Taking(k)) /\ Cardinality(Giving(k)') = Cardinality(Giving(k))
        BY <2>4, <2>b, <3>3
      <4>3. QED  BY ONLY <4>1, <4>2
    <3>4. QED  BY <3>1, <3>2, <3>3
  <2>7. Units(k)' = Units(k)
    BY <2>6 DEF Units
  <2>8. k >= nbpools => lostUnits'[k] = 0
    <3>1. SUFFICES ASSUME k >= nbpools PROVE lostUnits'[k] = 0
      OBVIOUS
    <3>2. ~inT /\ ~inG
      <4>1. Placed(p)
        BY DEF PoolInv
      <4>2. cont[p].op \in PoolOps => cont[p].on < nbpools
        BY <4>1 DEF Placed, PoolOps
      <4>3. QED  BY <1>3, <2>1, <3>1, <4>2 DEF inT, inG, At, PoolOps
    <3>3. QED  BY <2>1, <2>5, <3>1, <3>2 DEF PoolRight
  <2>9. ToSet(bpsem'[k].q) \subseteq Taking(k)'
    BY <1>4, <2>1, <2>a DEF PoolRight
  <2>10. QED  BY <1>1, <1>4, <2>1, <2>7, <2>8, <2>9 DEF PoolRight
<1>8. QED  BY <1>5, <1>6, <1>7 DEF PoolInv

------------------------------------------------------------------------------
(* _ptclear's loop over the messages, as the pools see it. *)

\* f is DisposeAll's recursion over messages i to j of q.
DisposedBy(q, i, j, f) ==
  /\ DisposeAll(q, i, j) = f[j]
  /\ f = [m \in 0 .. j |-> IF m < i THEN [next |-> bpnext, sem |-> bpsem] ELSE Freeing(f[m-1], q[m])]

LEMMA DisposeDef ==
  ASSUME NEW q, NEW i \in Nat \ {0}, NEW j \in Nat
  PROVE  \E f : DisposedBy(q, i, j, f)
<1> DEFINE d == [next |-> bpnext, sem |-> bpsem]
           Fits(f, n) == f = [m \in 0 .. n |-> IF m < i THEN d ELSE Freeing(f[m-1], q[m])]
           T == {n \in Nat : ~ \E f : Fits(f, n)}
<1> HIDE DEF d
<1>1. T = {}
  <2>1. SUFFICES ASSUME T # {} PROVE FALSE
    OBVIOUS
  <2>2. PICK n \in T : \A x \in T : n <= x
    <3>1. Min(T) \in T /\ \A x \in T : Min(T) <= x
      BY <2>1, MinNat
    <3>2. QED  BY <3>1
  <2>3. n \in Nat /\ ~ \E f : Fits(f, n)
    BY <2>2
  <2>4. CASE n = 0
    <3> DEFINE g == [m \in 0 .. 0 |-> d]
    <3>1. Fits(g, 0)
      OBVIOUS
    <3>2. QED  BY <2>3, <2>4, <3>1
  <2>5. CASE n > 0
    <3>1. n - 1 \in Nat /\ n - 1 \notin T
      <4> HIDE DEF T, Fits
      <4>1. n - 1 \in Nat /\ ~(n <= n - 1)
        BY <2>3, <2>5
      <4>2. QED  BY <2>2, <4>1
    <3>2. PICK g : Fits(g, n - 1)
      BY <3>1
    <3> DEFINE h == [m \in 0 .. n |-> IF m = n THEN (IF n < i THEN d ELSE Freeing(g[n-1], q[n])) ELSE g[m]]
    <3>3. \A m \in 0 .. n - 1 : g[m] = IF m < i THEN d ELSE Freeing(g[m-1], q[m])
      BY <3>2
    <3>4. \A m \in 0 .. n : h[m] = IF m < i THEN d ELSE Freeing(h[m-1], q[m])
      <4>1. TAKE m \in 0 .. n
      <4>2. CASE m = n
        <5>1. h[m] = (IF m < i THEN d ELSE Freeing(g[m-1], q[m])) /\ h[m-1] = g[m-1]
          BY <2>3, <2>5, <4>2
        <5>2. QED  BY <5>1
      <4>3. CASE m < n
        <5>1. h[m] = g[m] /\ m \in 0 .. n - 1
          BY <2>3, <4>3
        <5>2. ~(m < i) => h[m-1] = g[m-1]
          BY <2>3, <4>3
        <5>3. QED  BY <3>3, <5>1, <5>2
      <4>4. QED  BY <2>3, <4>2, <4>3
    <3>5. h = [m \in 0 .. n |-> h[m]]
      OBVIOUS
    <3> HIDE DEF h
    <3>6. Fits(h, n)
      BY <3>4, <3>5
    <3>7. QED  BY <2>3, <3>6
  <2>6. QED  BY <2>3, <2>4, <2>5
<1>2. PICK g : Fits(g, j)
  BY <1>1
<1> DEFINE F == CHOOSE f : Fits(f, j)
<1>3. Fits(F, j)
  BY <1>2
<1>4. DisposeAll(q, i, j) = F[j]
  BY DEF DisposeAll, d
<1> HIDE DEF F
<1>5. DisposedBy(q, i, j, F)
  BY <1>3, <1>4 DEF DisposedBy, d
<1>6. QED  BY <1>5

\* What a freebuf of the loop keeps: a unit more for each buffer more.
UnitPerBuffer(d) ==
  \A k \in Pools :
    /\ Sound(d.sem[k]) /\ d.sem[k].ok = bpsem[k].ok /\ ToSet(d.sem[k].q) \subseteq ToSet(bpsem[k].q)
    /\ bpsem[k].ok => d.sem[k].n + Len(bpnext[k]) = bpsem[k].n + Len(d.next[k])
    /\ k >= nbpools => d.next[k] = <<>>

Records == [next : [Pools -> Seq(Live)], sem : [Pools -> Sems]]

LEMMA FreeingKeeps ==
  ASSUME PoolInv, NEW d \in Records, UnitPerBuffer(d), NEW b \in Live
  PROVE  Freeing(d, b) \in Records /\ UnitPerBuffer(Freeing(d, b))
<1> DEFINE k == b[1]
           e == Freeing(d, b)
           s == d.sem[k]
           l == <<b>> \o d.next[k]
<1>1. k \in Pools /\ k \in Nat /\ nbpools \in Nat /\ k < nbpools
  BY DEF Live, Bufs, Pools, PoolInv, PoolTyped
<1>2. d.next \in [Pools -> Seq(Live)] /\ d.sem \in [Pools -> Sems]
  BY DEF Records
<1>3. e.next = [d.next EXCEPT ![k] = l] /\ e.sem = [d.sem EXCEPT ![k] = Signaled(s)]
      /\ e = [next |-> e.next, sem |-> e.sem]
  BY DEF Freeing
<1> HIDE DEF e, k
<1>4. l \in Seq(Live) /\ Len(l) = Len(d.next[k]) + 1
  <2>1. <<b>> \in Seq(Live) /\ Len(<<b>>) = 1
    OBVIOUS
  <2>2. QED  BY <1>1, <1>2, <2>1, ConcatList
<1>5. /\ Sound(Signaled(s)) /\ Signaled(s).ok = s.ok
      /\ Signaled(s).n = IF s.ok THEN s.n + 1 ELSE s.n
      /\ ToSet(Signaled(s).q) \subseteq ToSet(s.q)
  BY <1>1, SignaledSound DEF UnitPerBuffer
<1>6. e \in Records
  BY <1>1, <1>2, <1>3, <1>4, <1>5 DEF Records, Sound
<1>7. ASSUME NEW j \in Pools
      PROVE  /\ Sound(e.sem[j]) /\ e.sem[j].ok = bpsem[j].ok /\ ToSet(e.sem[j].q) \subseteq ToSet(bpsem[j].q)
             /\ bpsem[j].ok => e.sem[j].n + Len(bpnext[j]) = bpsem[j].n + Len(e.next[j])
             /\ j >= nbpools => e.next[j] = <<>>
  <2>1. CASE j # k
    <3>1. e.sem[j] = d.sem[j] /\ e.next[j] = d.next[j]
      BY <1>2, <1>3, <2>1
    <3>2. QED  BY <3>1 DEF UnitPerBuffer
  <2>2. CASE j = k
    <3>1. e.sem[j] = Signaled(s) /\ e.next[j] = l
      BY <1>1, <1>2, <1>3, <2>2
    <3>2. /\ s.ok = bpsem[j].ok /\ ToSet(s.q) \subseteq ToSet(bpsem[j].q)
          /\ bpsem[j].ok => s.n + Len(bpnext[j]) = bpsem[j].n + Len(d.next[j])
      BY <2>2 DEF UnitPerBuffer
    <3>3. Len(d.next[j]) \in Nat /\ Len(bpnext[j]) \in Nat
      BY <1>2 DEF PoolInv, PoolTyped
    <3>4. s.n \in Int /\ bpsem[j].n \in Int /\ s.ok \in BOOLEAN
      <4>1. Sound(s) /\ Sound(bpsem[j])
        BY <1>1, <2>2 DEF UnitPerBuffer, PoolInv, PoolRight
      <4>2. QED  BY <4>1, SoundFacts
    <3>5. Len(l) = Len(d.next[j]) + 1
      BY <1>4, <2>2
    <3> HIDE DEF s, l
    <3>6. bpsem[j].ok => Signaled(s).n + Len(bpnext[j]) = bpsem[j].n + Len(l)
      <4>1. SUFFICES ASSUME bpsem[j].ok PROVE Signaled(s).n + Len(bpnext[j]) = bpsem[j].n + Len(l)
        OBVIOUS
      <4>2. Signaled(s).n = s.n + 1 /\ s.n + Len(bpnext[j]) = bpsem[j].n + Len(d.next[j])
        <5>1. s.ok
          BY <3>2, <4>1
        <5>2. Signaled(s).n = s.n + 1
          BY <1>5, <5>1
        <5>3. s.n + Len(bpnext[j]) = bpsem[j].n + Len(d.next[j])
          BY <3>2, <4>1
        <5>4. QED  BY <5>2, <5>3
      <4>3. s.n \in Int /\ bpsem[j].n \in Int /\ Len(bpnext[j]) \in Int /\ Len(d.next[j]) \in Int
        BY <3>3, <3>4
      <4>4. Signaled(s).n + Len(bpnext[j]) = (s.n + Len(bpnext[j])) + 1
        BY ONLY <4>2, <4>3
      <4>5. (s.n + Len(bpnext[j])) + 1 = bpsem[j].n + Len(l)
        BY ONLY <3>5, <4>2, <4>3
      <4>6. QED  BY ONLY <4>4, <4>5
    <3>7. /\ Sound(e.sem[j]) /\ e.sem[j].ok = bpsem[j].ok
          /\ ToSet(e.sem[j].q) \subseteq ToSet(bpsem[j].q)
      BY <1>5, <3>1, <3>2
    <3>8. ~(j >= nbpools)
      BY <1>1, <2>2
    <3>9. bpsem[j].ok => e.sem[j].n + Len(bpnext[j]) = bpsem[j].n + Len(e.next[j])
      BY <3>1, <3>6
    <3>10. QED  BY <3>7, <3>8, <3>9
  <2>3. QED  BY <2>1, <2>2
<1>8. QED  BY <1>6, <1>7 DEF UnitPerBuffer, e

LEMMA DisposeKeeps ==
  ASSUME PoolInv, NEW q \in Seq(Live), NEW i \in Nat \ {0}, NEW j \in 0 .. Len(q)
  PROVE  DisposeAll(q, i, j) \in Records /\ UnitPerBuffer(DisposeAll(q, i, j))
<1>0. PICK f : DisposedBy(q, i, j, f)
  <2>1. j \in Nat
    OBVIOUS
  <2>2. QED  BY <2>1, DisposeDef
<1>1. /\ DisposeAll(q, i, j) = f[j]
      /\ f = [m \in 0 .. j |-> IF m < i THEN [next |-> bpnext, sem |-> bpsem]
                               ELSE Freeing(f[m-1], q[m])]
  BY <1>0 DEF DisposedBy
<1> DEFINE d == [next |-> bpnext, sem |-> bpsem]
           Ok(m) == f[m] \in Records /\ UnitPerBuffer(f[m])
           T == {m \in 0 .. j : ~Ok(m)}
<1>2. \A m \in 0 .. j : f[m] = IF m < i THEN d ELSE Freeing(f[m-1], q[m])
  BY <1>1
<1>3. d \in Records /\ UnitPerBuffer(d)
  <2>1. d.next = bpnext /\ d.sem = bpsem /\ d \in Records
    BY DEF PoolInv, PoolTyped, Records
  <2> HIDE DEF d
  <2>2. ASSUME NEW k \in Pools
        PROVE  /\ Sound(bpsem[k]) /\ bpsem[k].n \in Int /\ Len(bpnext[k]) \in Nat
               /\ k >= nbpools => bpnext[k] = <<>>
    BY SoundFacts DEF PoolInv, PoolTyped, PoolRight
  <2>3. QED  BY <2>1, <2>2 DEF UnitPerBuffer
<1> HIDE DEF d
<1>4. ASSUME NEW m \in 0 .. j, m >= i, Ok(m - 1) PROVE Ok(m)
  <2>1. f[m] = Freeing(f[m-1], q[m])
    BY <1>2, <1>4
  <2>2. q[m] \in Live
    BY <1>4
  <2>3. QED  BY <1>4, <2>1, <2>2, FreeingKeeps
<1> HIDE DEF Ok
<1>5. T = {}
  <2>1. SUFFICES ASSUME T # {} PROVE FALSE
    OBVIOUS
  <2>2. PICK m \in T : \A x \in T : m <= x
    <3>1. T \subseteq Nat
      OBVIOUS
    <3>2. Min(T) \in T /\ \A x \in T : Min(T) <= x
      BY <2>1, <3>1, MinNat
    <3>3. QED  BY <3>2
  <2>3. m \in 0 .. j /\ ~Ok(m)
    BY <2>2
  <2>4. CASE m < i
    BY <1>2, <1>3, <2>3, <2>4 DEF Ok
  <2>5. CASE m >= i
    <3>1. m - 1 \in 0 .. j /\ ~(m <= m - 1)
      BY <2>3, <2>5
    <3>2. Ok(m - 1)
      BY <2>2, <3>1
    <3>3. QED  BY <1>4, <2>3, <2>5, <3>2
  <2>6. QED  BY <2>3, <2>4, <2>5
<1>6. Ok(j)
  BY <1>5
<1>7. QED  BY <1>1, <1>6 DEF Ok

LEMMA DisposedInv ==
  ASSUME PoolInv, NEW p \in Procs, NEW c \in Conts, Then(p, c), cont[p].op \notin PoolOps, c.op \notin PoolOps,
         NEW q \in Seq(Live), NEW i \in Nat \ {0}, NEW j \in 0 .. Len(q), Disposed(q, i, j),
         UNCHANGED <<nbpools, held, lostUnits>>, ptq' \in [Ports -> Seq(Live)], Placed(p)'
  PROVE  PoolInv'
<1> DEFINE d == DisposeAll(q, i, j)
<1>1. d \in Records /\ UnitPerBuffer(d) /\ bpnext' = d.next /\ bpsem' = d.sem
  BY DisposeKeeps DEF Disposed
<1> HIDE DEF d
<1>2. cont' \in [Procs -> Conts] /\ nbpools \in Nat /\ Live' = Live
  BY DEF PoolInv, PoolTyped, Then, Live
<1>3. PoolTyped'
  BY <1>1, <1>2 DEF PoolInv, PoolTyped, Records
<1>4. \A r \in Procs : Placed(r)'
  BY <1>2, PlacedKept
<1>5. ASSUME NEW k \in Pools PROVE PoolRight(k)'
  <2>1. /\ PoolRight(k) /\ Len(bpnext[k]) \in Nat /\ Len(bpnext'[k]) \in Nat /\ k \in Nat
        /\ lostUnits[k] \in Nat /\ lostUnits'[k] = lostUnits[k]
    <3>1. bpnext[k] \in Seq(Live) /\ lostUnits[k] \in Nat /\ PoolRight(k)
      BY DEF PoolInv, PoolTyped
    <3>2. bpnext'[k] \in Seq(Live')
      BY <1>3 DEF PoolTyped
    <3>3. k \in Nat /\ lostUnits'[k] = lostUnits[k]
      BY DEF Pools
    <3>4. QED  BY ONLY <3>1, <3>2, <3>3
  <2>2. /\ Sound(bpsem'[k]) /\ bpsem'[k].ok = bpsem[k].ok
        /\ ToSet(bpsem'[k].q) \subseteq ToSet(bpsem[k].q)
        /\ bpsem[k].ok => bpsem'[k].n + Len(bpnext[k]) = bpsem[k].n + Len(bpnext'[k])
        /\ k >= nbpools => bpnext'[k] = <<>>
    BY <1>1 DEF UnitPerBuffer
  <2>3. /\ Taking(k)' = Taking(k) \ {p} /\ p \notin Taking(k)
        /\ Cardinality(Taking(k)') = Cardinality(Taking(k))
        /\ Cardinality(Giving(k)') = Cardinality(Giving(k))
        /\ Cardinality(Taking(k)) \in Nat /\ Cardinality(Giving(k)) \in Nat
    <3>1. /\ c.op # "getbuf" /\ ~At(p, "getbuf") /\ c.op # "freebuf" /\ ~At(p, "freebuf")
      BY DEF PoolOps, At
    <3>2. p \notin Taking(k)
      BY <3>1 DEF Taking, Having, In, At
    <3>3. QED  BY <3>1, <3>2, PoolMoves
  <2>4. bpsem[k].n \in Int /\ bpsem'[k].n \in Int
    <3>1. Sound(bpsem[k]) /\ Sound(bpsem'[k])
      BY <2>1, <2>2 DEF PoolRight
    <3>2. QED  BY ONLY <3>1, SoundFacts
  <2>5. Units(k) = bpsem[k].n + (Cardinality(Taking(k)) + Cardinality(Giving(k)) + lostUnits[k])
    BY <2>1, <2>3, <2>4 DEF Units
  <2>6. Units(k)' = bpsem'[k].n + (Cardinality(Taking(k)) + Cardinality(Giving(k)) + lostUnits[k])
    BY <2>1, <2>3, <2>4 DEF Units
  <2>7. bpsem[k].ok => Units(k)' = Len(bpnext'[k])
    <3>1. SUFFICES ASSUME bpsem[k].ok PROVE Units(k)' = Len(bpnext'[k])
      OBVIOUS
    <3>2. /\ bpsem'[k].n + Len(bpnext[k]) = bpsem[k].n + Len(bpnext'[k])
          /\ Units(k) = Len(bpnext[k])
      BY <2>1, <2>2, <3>1 DEF PoolRight
    <3>3. Cardinality(Taking(k)) + Cardinality(Giving(k)) + lostUnits[k] \in Int
      BY <2>1, <2>3
    <3> DEFINE rest == Cardinality(Taking(k)) + Cardinality(Giving(k)) + lostUnits[k]
    <3> HIDE DEF rest
    <3>4. /\ rest \in Int /\ Units(k) = bpsem[k].n + rest /\ Units(k)' = bpsem'[k].n + rest
          /\ Len(bpnext[k]) \in Int /\ Len(bpnext'[k]) \in Int
      BY <2>1, <2>5, <2>6, <3>3 DEF rest
    <3>5. bpsem'[k].n + (bpsem[k].n + rest) = bpsem[k].n + Len(bpnext'[k])
      BY ONLY <3>2, <3>4
    <3>6. PICK x \in Int, y \in Int, z \in Int, w \in Int :
            x = bpsem'[k].n /\ y = bpsem[k].n /\ z = rest /\ w = Len(bpnext'[k])
      BY ONLY <2>4, <3>4
    <3>7. x + (y + z) = y + w
      BY ONLY <3>5, <3>6
    <3>8. x + z = w
      BY ONLY <3>7, x \in Int, y \in Int, z \in Int, w \in Int
    <3>9. QED  BY ONLY <3>4, <3>6, <3>8
  <2>8. ToSet(bpsem'[k].q) \subseteq Taking(k)'
    BY <2>1, <2>2, <2>3 DEF PoolRight
  <2>9. k >= nbpools' => ~bpsem'[k].ok /\ bpnext'[k] = <<>> /\ lostUnits'[k] = 0
    BY <2>1, <2>2 DEF PoolRight
  <2>10. QED  BY <2>2, <2>7, <2>8, <2>9 DEF PoolRight
<1>6. QED  BY <1>3, <1>4, <1>5 DEF PoolInv

LEMMA StopAtCont ==
  ASSUME NEW p \in Procs, NEW op \in {"user", "dispose", "clearR", "clearEnd"}, NEW port \in Ports,
         NEW n \in Nat, NEW to \in {"free", "alloc"}, StopAt(p, op, port, n, to)
  PROVE  \E c \in Conts : /\ Then(p, c) /\ c.op = op
                          /\ op # "user" => c.on = port /\ c.n = n /\ c.to = to
<1>1. port \in Nat /\ <<>> \in Bufs \cup {<<>>} /\ op \in ClientOps
  BY PortsAssumption DEF Ports, ClientOps
<1>2. CASE op = "user"
  BY <1>2, ContTypes DEF StopAt
<1>3. CASE op # "user"
  <2> DEFINE c == [Do(op, port, <<>>, n) EXCEPT !.to = to]
  <2>1. Do(op, port, <<>>, n) = [op |-> op, on |-> port, buf |-> <<>>, n |-> n, to |-> "free"]
    BY DEF Do
  <2>2. c = [op |-> op, on |-> port, buf |-> <<>>, n |-> n, to |-> to]
    BY <2>1
  <2>3. c \in Conts /\ c.op = op /\ c.on = port /\ c.n = n /\ c.to = to
    BY <1>1, <2>2 DEF Conts
  <2>4. Then(p, c)
    BY <1>3 DEF StopAt
  <2>5. QED  BY <2>3, <2>4
<1>4. QED  BY <1>2, <1>3

\* The steps of a clearing on a record written out.
Doing(state, s, r, left, op) == [state |-> state, s |-> s, r |-> r, left |-> left, op |-> op]

LEMMA ReopenedIs ==
  ASSUME NEW state, NEW s, NEW r, NEW left, NEW op, NEW to
  PROVE  Reopened(Doing(state, s, r, left, op), to) = Doing(to, s, r, left, "user")
<1> DEFINE d == Doing(state, s, r, left, op)
           e == [d EXCEPT !.state = to]
           f == [e EXCEPT !.op = "user"]
           g == Doing(to, s, r, left, op)
<1>1. e = g
  BY DEF Doing
<1>2. [g EXCEPT !.op = "user"] = Doing(to, s, r, left, "user")
  BY DEF Doing
<1>3. f = [g EXCEPT !.op = "user"]
  <2> HIDE DEF e, g
  <2>1. QED  BY <1>1
<1>4. Reopened(d, to) = f
  <2> HIDE DEF d
  <2>1. QED  BY DEF Reopened
<1> HIDE DEF f, g
<1>5. QED  BY <1>2, <1>3, <1>4 DEF d

LEMMA RClearIs ==
  ASSUME NEW state, NEW s, NEW r, NEW left, NEW op, NEW to
  PROVE  RClear(Doing(state, s, r, left, op), to) =
           LET r2 == Cleared(r, to, 0) left2 == left + GivenBack(r, to) IN
           IF Yields(r, to) THEN Doing(state, s, r2, left2, "clearEnd") ELSE Doing(to, s, r2, left2, "user")
<1> DEFINE d == Doing(state, s, r, left, op)
           d1 == [d EXCEPT !.r = Cleared(@, to, 0)]
           d2 == [d1 EXCEPT !.left = @ + GivenBack(d.r, to)]
           d3 == [d2 EXCEPT !.op = "clearEnd"]
           e == [d EXCEPT !.r = Cleared(@, to, 0), !.left = @ + GivenBack(d.r, to), !.op = "clearEnd"]
           x == Cleared(r, to, 0)
           y == left + GivenBack(r, to)
           e1 == Doing(state, s, x, left, op)
           e2 == Doing(state, s, x, y, op)
           e3 == Doing(state, s, x, y, "clearEnd")
<1>1. d.r = r
  BY DEF Doing
<1>2. d1 = e1
  <2>1. d1 = [d EXCEPT !.r = x]
    BY <1>1
  <2> HIDE DEF x
  <2>2. [d EXCEPT !.r = x] = e1
    BY DEF Doing
  <2>3. QED  BY <2>1, <2>2
<1>3. d2 = e2
  <2> HIDE DEF x
  <2>1. e1.left = left
    BY DEF Doing
  <2> HIDE DEF d1, d, e1
  <2>2. d2 = [e1 EXCEPT !.left = y]
    BY <1>1, <1>2, <2>1
  <2> HIDE DEF y
  <2> USE DEF e1
  <2>3. [e1 EXCEPT !.left = y] = e2
    BY DEF Doing
  <2>4. QED  BY <2>2, <2>3
<1>4. d3 = e3
  <2> HIDE DEF x, y
  <2>1. [e2 EXCEPT !.op = "clearEnd"] = e3
    BY DEF Doing
  <2> HIDE DEF d2, e2
  <2>2. d3 = [e2 EXCEPT !.op = "clearEnd"]
    BY <1>3
  <2>3. QED  BY <2>1, <2>2
<1>5. e = d3
  <2> HIDE DEF d
  <2>1. QED  OBVIOUS
<1>6. RClear(d, to) = IF Yields(d.r, to) THEN e ELSE Reopened(e, to)
  BY DEF RClear
<1> HIDE DEF d, d3, e
<1>7. QED  BY <1>1, <1>4, <1>5, <1>6, ReopenedIs DEF d

LEMMA SClearIs ==
  ASSUME NEW state, NEW s, NEW r, NEW left, NEW op, NEW to, NEW count
  PROVE  SClear(Doing(state, s, r, left, op), to, count) =
           LET s2 == Cleared(s, to, count) left2 == left + GivenBack(s, to) IN
           IF Yields(s, to) THEN Doing(state, s2, r, left2, "clearR")
           ELSE RClear(Doing(state, s2, r, left2, "clearR"), to)
<1> DEFINE d == Doing(state, s, r, left, op)
           d1 == [d EXCEPT !.s = Cleared(@, to, count)]
           d2 == [d1 EXCEPT !.left = @ + GivenBack(d.s, to)]
           d3 == [d2 EXCEPT !.op = "clearR"]
           e == [d EXCEPT !.s = Cleared(@, to, count), !.left = @ + GivenBack(d.s, to), !.op = "clearR"]
           x == Cleared(s, to, count)
           y == left + GivenBack(s, to)
           e1 == Doing(state, x, r, left, op)
           e2 == Doing(state, x, r, y, op)
           e3 == Doing(state, x, r, y, "clearR")
<1>1. d.s = s
  BY DEF Doing
<1>2. d1 = e1
  <2>1. d1 = [d EXCEPT !.s = x]
    BY <1>1
  <2> HIDE DEF x
  <2>2. [d EXCEPT !.s = x] = e1
    BY DEF Doing
  <2>3. QED  BY <2>1, <2>2
<1>3. d2 = e2
  <2> HIDE DEF x
  <2>1. e1.left = left
    BY DEF Doing
  <2> HIDE DEF d1, d, e1
  <2>2. d2 = [e1 EXCEPT !.left = y]
    BY <1>1, <1>2, <2>1
  <2> HIDE DEF y
  <2> USE DEF e1
  <2>3. [e1 EXCEPT !.left = y] = e2
    BY DEF Doing
  <2>4. QED  BY <2>2, <2>3
<1>4. d3 = e3
  <2> HIDE DEF x, y
  <2>1. [e2 EXCEPT !.op = "clearR"] = e3
    BY DEF Doing
  <2> HIDE DEF d2, e2
  <2>2. d3 = [e2 EXCEPT !.op = "clearR"]
    BY <1>3
  <2>3. QED  BY <2>1, <2>2
<1>5. e = d3
  <2> HIDE DEF d
  <2>1. QED  OBVIOUS
<1>6. SClear(d, to, count) = IF Yields(d.s, to) THEN e ELSE RClear(e, to)
  BY DEF SClear
<1> HIDE DEF d, d3, e
<1>7. QED  BY <1>1, <1>4, <1>5, <1>6 DEF d

LEMMA ClearingIs ==
  ASSUME NEW port
  PROVE  Clearing(port) = Doing("limbo", ptssem[port], ptrsem[port], semsLeft, "clearS")
BY DEF Clearing, Doing

LEMMA ClearOps ==
  ASSUME NEW port, NEW to, NEW count
  PROVE  /\ Reopened(Clearing(port), to).op = "user"
         /\ RClear(Clearing(port), to).op \in {"user", "clearEnd"}
         /\ SClear(Clearing(port), to, count).op \in {"user", "clearR", "clearEnd"}
<1>1. \A state, s, r, left, op : Doing(state, s, r, left, op).op = op
  BY DEF Doing
<1>2. Reopened(Clearing(port), to).op = "user"
  BY <1>1, ClearingIs, ReopenedIs
<1>3. ASSUME NEW state, NEW s, NEW r, NEW left, NEW op
      PROVE  RClear(Doing(state, s, r, left, op), to).op \in {"user", "clearEnd"}
  BY <1>1, RClearIs
<1>4. RClear(Clearing(port), to).op \in {"user", "clearEnd"}
  BY <1>3, ClearingIs
<1>5. SClear(Clearing(port), to, count).op \in {"user", "clearR", "clearEnd"}
  BY <1>1, <1>3, ClearingIs, SClearIs
<1>6. QED  BY <1>2, <1>4, <1>5

LEMMA ClearFromInv ==
  ASSUME PoolInv, NEW p \in Procs, NEW port \in Ports, NEW i \in Nat \ {0}, NEW to \in {"free", "alloc"},
         cont[p].op \notin PoolOps, ClearFrom(p, port, i, to), UNCHANGED <<nbpools, held, lostUnits>>
  PROVE  PoolInv'
<1> DEFINE q == ptq[port]
           frees == {j \in i .. Len(q) : Frees(bpsem[q[j][1]])}
<1>1. q \in Seq(Live) /\ ptq \in [Ports -> Seq(Live)]
  BY DEF PoolInv, PoolTyped
<1>2. CASE frees # {}
  <2>1. Min(frees) \in frees
    <3>1. frees \subseteq Nat
      BY <1>1
    <3>2. QED  BY <1>2, <3>1, MinNat
  <2> DEFINE j == Min(frees)
  <2>2. j \in 0 .. Len(q) /\ j + 1 \in Nat /\ j + 1 >= 1
    <3>1. Len(q) \in Nat /\ i \in Nat
      BY <1>1
    <3>2. j \in i .. Len(q)
      BY <2>1
    <3> HIDE DEF j
    <3>3. QED  BY ONLY <3>1, <3>2
  <2>3. Disposed(q, i, j) /\ StopAt(p, "dispose", port, j + 1, to) /\ ptq' = ptq
    BY <1>2 DEF ClearFrom
  <2> HIDE DEF j
  <2>4. PICK c \in Conts : Then(p, c) /\ c.op = "dispose" /\ c.on = port /\ c.n = j + 1
    BY <2>2, <2>3, StopAtCont
  <2>5. Placed(p)'
    BY <2>2, <2>4 DEF Placed, Then, PoolInv, PoolTyped
  <2>6. QED  BY <1>1, <2>2, <2>3, <2>4, <2>5, DisposedInv DEF PoolOps
<1>3. CASE frees = {}
  <2> DEFINE d == SClear(Clearing(port), to, ptmaxcnt[port])
  <2>1. Disposed(q, i, Len(q)) /\ ptq' = [ptq EXCEPT ![port] = <<>>] /\ StopAt(p, d.op, port, 0, to)
    BY <1>3 DEF ClearFrom, SetPort
  <2>2. d.op \in {"user", "clearR", "clearEnd"}
    BY ClearOps
  <2> HIDE DEF d
  <2>3. PICK c \in Conts : Then(p, c) /\ c.op = d.op /\ (d.op # "user" => c.on = port)
    BY <2>1, <2>2, StopAtCont
  <2>4. Placed(p)'
    BY <2>2, <2>3 DEF Placed, Then, PoolInv, PoolTyped
  <2>5. ptq' \in [Ports -> Seq(Live)] /\ Len(q) \in 0 .. Len(q)
    BY <1>1, <2>1
  <2>6. c.op \notin PoolOps
    BY <2>2, <2>3 DEF PoolOps
  <2>7. QED  BY <1>1, <2>1, <2>3, <2>4, <2>5, <2>6, DisposedInv
<1>4. QED  BY <1>2, <1>3

LEMMA FinishClearInv ==
  ASSUME PoolInv, NEW p \in Procs, FinishClear(p)
  PROVE  PoolInv'
<1> DEFINE port == cont[p].on
           to == cont[p].to
           d == IF At(p, "clearR") THEN RClear(Clearing(port), to) ELSE Reopened(Clearing(port), to)
<1>1. /\ cont[p].op \in {"clearR", "clearEnd"} /\ SetPort(p, port, to, d)
      /\ UNCHANGED <<ptq, bpnext, bpsem, nbpools, held, lostUnits>>
  BY DEF FinishClear, At, ClearUnchanged
<1>2. cont[p] \in Conts /\ Placed(p) /\ PoolTyped
  BY DEF PoolInv, PoolTyped
<1>3. port \in Ports /\ to \in {"free", "alloc"}
  BY <1>1, <1>2 DEF Conts, Placed
<1>4. d.op \in {"user", "clearEnd"}
  BY ClearOps
<1>5. StopAt(p, d.op, port, 0, to)
  BY <1>1 DEF SetPort
<1> HIDE DEF d, port, to
<1>6. PICK c \in Conts : Then(p, c) /\ c.op = d.op /\ (d.op # "user" => c.on = port)
  BY <1>3, <1>4, <1>5, StopAtCont
<1>7. Placed(p)'
  BY <1>2, <1>3, <1>4, <1>6 DEF Placed, Then, PoolTyped
<1>8. c.op \notin PoolOps /\ cont[p].op \notin PoolOps
  BY <1>1, <1>4, <1>6 DEF PoolOps
<1>9. UNCHANGED Live
  BY <1>1 DEF Live
<1>10. QED  BY <1>1, <1>2, <1>6, <1>7, <1>8, <1>9, PoolsQuiet DEF PoolTyped

\* What creating a port does to the pools and the messages.
LEMMA NewPortQuiet ==
  ASSUME PoolInv, NEW p \in Procs, NEW count, NEW state, NEW next, NewPort(p, count, state, next)
  PROVE  Then(p, Idle) /\ ptq' \in [Ports -> Seq(Live)]
<1>1. Then(p, Idle)
  BY DEF NewPort
<1>2. ptq' = ptq \/ \E id : ptq' = [ptq EXCEPT ![id] = <<>>]
  BY DEF NewPort
<1>3. ptq \in [Ports -> Seq(Live)] /\ <<>> \in Seq(Live)
  BY DEF PoolInv, PoolTyped
<1>4. ASSUME NEW id, ptq' = [ptq EXCEPT ![id] = <<>>] PROVE ptq' \in [Ports -> Seq(Live)]
  BY <1>3, <1>4
<1>5. QED  BY <1>1, <1>2, <1>3, <1>4

\* The steps of mark and pinit, and of programs that mark something else.
LEMMA MarkStepInv ==
  ASSUME PoolInv, NEW p \in Procs,
         \/ \E count \in Counts : Pcreate(p, count)
         \/ FinishMark(p) \/ FinishPinit(p) \/ MarkOther(p) \/ FinishOther(p)
  PROVE  PoolInv'
<1> DEFINE Marking == {"user", "mark", "pinit", "other"}
<1>1. PoolTyped /\ cont[p] \in Conts /\ Idle \in Conts /\ Idle.op = "user"
  BY ContTypes DEF PoolInv, PoolTyped
<1>2. ASSUME NEW n \in Nat, NEW op \in {"mark", "pinit", "other"}
      PROVE  Do(op, 0, <<>>, n) \in Conts /\ Do(op, 0, <<>>, n).op = op
  <2>1. op \in ClientOps /\ <<>> \in Bufs \cup {<<>>} /\ 0 \in Nat
    BY DEF ClientOps
  <2>2. QED  BY ONLY <2>1, <1>2 DEF Do, Conts
<1>3. ASSUME NEW c \in Conts, c.op \in Marking, cont[p].op \in Marking, Then(p, c), UNCHANGED poolVars,
             ptq' \in [Ports -> Seq(Live)]
      PROVE  PoolInv'
  <2>1. Placed(p)'
    BY <1>1, <1>3 DEF Placed, Then, PoolTyped
  <2>2. c.op \notin PoolOps /\ cont[p].op \notin PoolOps
    BY <1>3 DEF PoolOps
  <2>3. UNCHANGED <<nbpools, bpnext, bpsem, lostUnits, held>> /\ UNCHANGED Live
    BY <1>3 DEF poolVars, Live
  <2>4. QED  BY <1>1, <1>3, <2>1, <2>2, <2>3, PoolsQuiet DEF PoolTyped
<1>4. \A n \in Nat, op \in {"mark", "pinit", "other"} :
        UNCHANGED poolVars /\ PortsAlone /\ cont[p].op \in Marking /\ Then(p, Do(op, 0, <<>>, n)) => PoolInv'
  <2>1. TAKE n \in Nat, op \in {"mark", "pinit", "other"}
  <2>2. PortsAlone => ptq' \in [Ports -> Seq(Live)]
    BY <1>1 DEF PortsAlone, PoolTyped
  <2>3. QED  BY <1>2, <1>3, <2>2
<1>5. \A count, state, next :
        UNCHANGED poolVars /\ cont[p].op \in Marking /\ NewPort(p, count, state, next) => PoolInv'
  BY <1>1, <1>3, NewPortQuiet
<1>6. \A count : UNCHANGED poolVars /\ cont[p].op \in Marking /\ PinitAndNewPort(p, count) => PoolInv'
  BY <1>5 DEF PinitAndNewPort
<1>7. cont[p].op \in Marking => cont[p].n \in Nat
  BY <1>1 DEF Conts
<1>8. ASSUME NEW count \in Counts, Pcreate(p, count) PROVE PoolInv'
  <2>1. cont[p].op \in Marking /\ UNCHANGED poolVars /\ count \in Nat
    BY <1>1, <1>8, PortsAssumption DEF Pcreate, Call
  <2>2. QED  BY <1>4, <1>5, <1>6, <1>8, <2>1 DEF Pcreate
<1>9. CASE FinishMark(p)
  <2>1. cont[p].op \in Marking /\ UNCHANGED poolVars /\ cont[p].n \in Nat
    BY <1>7, <1>9 DEF FinishMark, At
  <2>2. \/ Then(p, Do("pinit", 0, <<>>, cont[p].n)) /\ PortsAlone
        \/ PinitAndNewPort(p, cont[p].n)
    BY <1>9 DEF FinishMark
  <2>3. QED  BY <1>4, <1>6, <2>1, <2>2
<1>10. CASE FinishPinit(p)
  BY <1>6, <1>10 DEF FinishPinit, At
<1>11. CASE MarkOther(p)
  <2>1. cont[p].op \in Marking
    BY <1>1, <1>11 DEF MarkOther, Call
  <2>2. QED  BY <1>4, <1>11, <2>1 DEF MarkOther
<1>12. CASE FinishOther(p)
  <2>1. ptq' \in [Ports -> Seq(Live)]
    BY <1>1, <1>12 DEF FinishOther, PortsAlone, PoolTyped
  <2>2. QED  BY <1>1, <1>3, <1>12, <2>1 DEF FinishOther, At
<1>13. QED  BY <1>8, <1>9, <1>10, <1>11, <1>12

LEMMA PutInv ==
  ASSUME PoolInv, NEW p \in Procs, NEW port \in Ports, NEW b \in held[p], Put(p, port, b),
         cont[p].op \notin PoolOps, UNCHANGED <<nbpools, bpnext, bpsem, lostUnits>>
  PROVE  PoolInv'
<1>1. PoolTyped /\ cont[p] \in Conts /\ Idle \in Conts /\ Idle.op = "user" /\ b \in Live /\ UNCHANGED Live
  BY ContTypes DEF PoolInv, PoolTyped, Live
<1>2. CASE ptfree = 0
  <2>1. UNCHANGED <<ptq, held, cont>>
    BY <1>2 DEF Put
  <2>2. Placed(p)' /\ Then(p, cont[p])
    BY <1>1, <2>1 DEF PoolInv, Placed, Then, PoolTyped
  <2>3. QED  BY <1>1, <2>1, <2>2, PoolsQuiet DEF PoolTyped
<1>3. CASE ptfree # 0
  <2>1. /\ Then(p, Idle) /\ ptq' = [ptq EXCEPT ![port] = Append(@, b)]
        /\ held' = [held EXCEPT ![p] = @ \ {b}]
    BY <1>3 DEF Put
  <2>2. ptq' \in [Ports -> Seq(Live)]
    BY <1>1, <2>1 DEF PoolTyped
  <2>3. held' \in [Procs -> SUBSET Live] /\ \A q \in Procs \ {p} : held'[q] = held[q]
    BY <1>1, <2>1 DEF PoolTyped
  <2>4. Placed(p)'
    BY <1>1, <2>1 DEF Placed, Then, PoolTyped
  <2>5. QED  BY <1>1, <2>1, <2>2, <2>3, <2>4, PoolsQuiet DEF PoolOps
<1>4. QED  BY <1>2, <1>3

LEMMA TakeInv ==
  ASSUME PoolInv, NEW p \in Procs, NEW port \in Ports, ptq[port] # <<>>, Take(p, port), Then(p, Idle),
         cont[p].op \notin PoolOps, UNCHANGED <<nbpools, bpnext, bpsem, lostUnits>>
  PROVE  PoolInv'
<1>1. PoolTyped /\ cont[p] \in Conts /\ Idle \in Conts /\ Idle.op = "user" /\ UNCHANGED Live
  BY ContTypes DEF PoolInv, PoolTyped, Live
<1>2. ptq[port] \in Seq(Live) /\ Head(ptq[port]) \in Live /\ Tail(ptq[port]) \in Seq(Live)
  BY <1>1 DEF PoolTyped
<1>3. ptq' \in [Ports -> Seq(Live)]
  BY <1>1, <1>2 DEF PoolTyped, Take
<1>4. held' \in [Procs -> SUBSET Live] /\ \A q \in Procs \ {p} : held'[q] = held[q]
  BY <1>1, <1>2 DEF PoolTyped, Take
<1>5. Placed(p)'
  BY <1>1 DEF Placed, Then, PoolTyped
<1>6. QED  BY <1>1, <1>3, <1>4, <1>5, PoolsQuiet DEF PoolOps

Numbered == ptseq \in [Ports -> Nat]

LEMMA SendStepInv ==
  ASSUME PoolInv, Numbered, NEW p \in Procs, NEW port \in Ports,
         (\E b \in Bufs : Psend(p, port, b)) \/ Preceive(p, port)
  PROVE  PoolInv'
<1>1. /\ PoolTyped /\ cont[p] = Idle /\ Idle \in Conts /\ Idle.op = "user" /\ port \in Nat
      /\ UNCHANGED <<nbpools, bpnext, bpsem, lostUnits>> /\ UNCHANGED Live /\ ptseq[port] \in Nat
  BY ContTypes DEF PoolInv, PoolTyped, Psend, Preceive, Call, SendUnchanged, Ports, Live, Numbered
<1>2. cont[p].op \notin PoolOps
  BY <1>1 DEF PoolOps
<1>3. ASSUME NEW op \in {"psend", "preceive"}, NEW b \in Bufs \cup {<<>>}, op = "psend" => b \in held[p],
             Then(p, Do(op, port, b, ptseq[port])), UNCHANGED <<ptq, held>>
      PROVE  PoolInv'
  <2> DEFINE c == Do(op, port, b, ptseq[port])
  <2>1. c \in Conts /\ c.op = op /\ c.on = port /\ c.buf = b
    <3>1. op \in ClientOps /\ b \in Bufs \cup {<<>>}
      BY DEF ClientOps
    <3>2. QED  BY <1>1, <3>1 DEF Do, Conts
  <2>2. Then(p, c)
    BY <1>3
  <2> HIDE DEF c
  <2>3. Placed(p)'
    BY <1>1, <1>3, <2>1, <2>2 DEF Placed, Then, PoolTyped
  <2>4. c.op \notin PoolOps
    BY <2>1 DEF PoolOps
  <2>5. QED  BY <1>1, <1>2, <1>3, <2>1, <2>2, <2>3, <2>4, PoolsQuiet DEF PoolTyped
<1>4. ASSUME NEW b \in Bufs, Psend(p, port, b) PROVE PoolInv'
  <2>1. b \in held[p]
    BY <1>4 DEF Psend
  <2>2. \/ Put(p, port, b)
        \/ Then(p, Do("psend", port, b, ptseq[port])) /\ UNCHANGED <<ptq, held>>
    BY <1>4 DEF Psend
  <2>3. QED  BY <1>1, <1>2, <1>3, <2>1, <2>2, PutInv
<1>5. CASE Preceive(p, port)
  <2>1. \/ Then(p, Idle) /\ ptq[port] # <<>> /\ Take(p, port)
        \/ Then(p, Do("preceive", port, <<>>, ptseq[port])) /\ UNCHANGED <<ptq, held>>
    BY <1>5 DEF Preceive
  <2>2. <<>> \in Bufs \cup {<<>>}
    OBVIOUS
  <2>3. QED  BY <1>1, <1>2, <1>3, <2>1, <2>2, TakeInv
<1>6. QED  BY <1>4, <1>5

LEMMA FinishSendInv ==
  ASSUME PoolInv, NEW p \in Procs, FinishPsend(p) \/ FinishPreceive(p)
  PROVE  PoolInv'
<1>1. cont[p].op \in {"psend", "preceive"} /\ Placed(p) /\ cont[p] \in Conts
  BY DEF FinishPsend, FinishPreceive, At, PoolInv, PoolTyped
<1>2. PICK port \in Ports : port = cont[p].on
  BY <1>1 DEF Placed
<1>3. /\ PoolTyped /\ Idle \in Conts /\ Idle.op = "user" /\ UNCHANGED Live
      /\ UNCHANGED <<nbpools, bpnext, bpsem, lostUnits>>
  BY ContTypes DEF PoolInv, PoolTyped, FinishPsend, FinishPreceive, SendUnchanged, Live
<1>4. cont[p].op \notin PoolOps
  BY <1>1 DEF PoolOps
<1>5. ASSUME Then(p, Idle), UNCHANGED <<ptq, held>> PROVE PoolInv'
  <2>1. Placed(p)'
    BY <1>3, <1>5 DEF Placed, Then, PoolTyped
  <2>2. QED  BY <1>3, <1>4, <1>5, <2>1, PoolsQuiet DEF PoolOps, PoolTyped
<1>6. CASE FinishPsend(p)
  <2>1. cont[p].buf \in held[p]
    BY <1>1, <1>6 DEF Placed, FinishPsend, At
  <2>2. Put(p, port, cont[p].buf) \/ (Then(p, Idle) /\ UNCHANGED <<ptq, held>>)
    BY <1>2, <1>6 DEF FinishPsend
  <2>3. QED  BY <1>3, <1>4, <1>5, <2>1, <2>2, PutInv
<1>7. CASE FinishPreceive(p)
  <2>1. Then(p, Idle) /\ ((ptq[port] # <<>> /\ Take(p, port)) \/ UNCHANGED <<ptq, held>>)
    BY <1>2, <1>7 DEF FinishPreceive
  <2>2. QED  BY <1>3, <1>4, <1>5, <2>1, TakeInv
<1>8. QED  BY <1>6, <1>7

LEMMA ClearStepInv ==
  ASSUME PoolInv, NEW p \in Procs,
         (\E port \in Ports : Preset(p, port) \/ Pdelete(p, port)) \/ FinishDispose(p)
  PROVE  PoolInv'
<1>1. ASSUME NEW port \in Ports, NEW to \in {"free", "alloc"}, cont[p] = Idle, Ptclear(p, port, to)
      PROVE  PoolInv'
  <2>1. cont[p].op \notin PoolOps
    BY <1>1, ContTypes DEF PoolOps
  <2>2. ClearFrom(p, port, 1, to) /\ UNCHANGED <<nbpools, held, lostUnits>> /\ 1 \in Nat \ {0}
    BY <1>1 DEF Ptclear, ClearUnchanged
  <2>3. QED  BY <2>1, <2>2, ClearFromInv
<1>2. ASSUME NEW port \in Ports, Preset(p, port) \/ Pdelete(p, port) PROVE PoolInv'
  <2>1. cont[p] = Idle /\ \E to \in {"free", "alloc"} : Ptclear(p, port, to)
    BY <1>2 DEF Preset, Pdelete, Call
  <2>2. QED  BY <1>1, <2>1
<1>3. CASE FinishDispose(p)
  <2>1. cont[p].op = "dispose" /\ Placed(p) /\ cont[p] \in Conts
    BY <1>3 DEF FinishDispose, At, PoolInv, PoolTyped
  <2>2. cont[p].on \in Ports /\ cont[p].n \in Nat \ {0} /\ cont[p].to \in {"free", "alloc"}
    BY <2>1 DEF Placed, Conts
  <2>3. ClearFrom(p, cont[p].on, cont[p].n, cont[p].to) /\ UNCHANGED <<nbpools, held, lostUnits>>
    BY <1>3 DEF FinishDispose, ClearUnchanged
  <2>4. cont[p].op \notin PoolOps
    BY <2>1 DEF PoolOps
  <2>5. QED  BY <2>2, <2>3, <2>4, ClearFromInv
<1>4. QED  BY <1>2, <1>3

LEMMA InitPool == Init => PoolInv /\ Numbered
<1>1. SUFFICES ASSUME Init PROVE PoolInv /\ Numbered
  OBVIOUS
<1>2. /\ cont = [p \in Procs |-> Idle] /\ nbpools = 1 /\ held = [p \in Procs |-> {}]
      /\ bpnext = [k \in Pools |-> IF k = 0 THEN BufsOf(0) ELSE <<>>]
      /\ bpsem = [k \in Pools |-> IF k = 0 THEN Sem(NBufs) ELSE NoSem]
      /\ lostUnits = [k \in Pools |-> 0] /\ ptq = [id \in Ports |-> <<>>]
      /\ ptseq = [id \in Ports |-> 0]
  BY <1>1 DEF Init, ClientsInit, PoolInit
<1>3. Idle \in Conts /\ Idle.op = "user" /\ NBufs \in Nat /\ NBPools \in Nat /\ NBPools >= 1
  BY ContTypes, PoolAssumption
<1>4. BufsOf(0) \in Seq(Live) /\ Len(BufsOf(0)) = NBufs
  <2>1. \A i \in 1 .. NBufs : <<0, i>> \in Live
    <3>0. 0 \in Pools
      BY <1>3 DEF Pools
    <3>1. ASSUME NEW i \in 1 .. NBufs PROVE <<0, i>> \in Bufs
      BY <3>0 DEF Bufs
    <3>2. \A i \in 1 .. NBufs : <<0, i>>[1] < nbpools
      BY <1>2
    <3>3. QED  BY <3>1, <3>2 DEF Live
  <2>2. QED  BY <1>3, <2>1 DEF BufsOf
<1>5. Sound(Sem(NBufs)) /\ Sound(NoSem)
  BY <1>3, NewSound
<1>6. PoolTyped
  <2>1. bpnext \in [Pools -> Seq(Live)]
    BY <1>2, <1>4
  <2>2. bpsem \in [Pools -> Sems]
    BY <1>2, <1>5 DEF Sound
  <2>3. QED  BY <1>2, <1>3, <2>1, <2>2 DEF PoolTyped
<1>7. \A p \in Procs : Placed(p)
  BY <1>2, <1>3 DEF Placed
<1>8. ASSUME NEW k \in Pools PROVE PoolRight(k)
  <2>1. Taking(k) = {} /\ Giving(k) = {} /\ Cardinality({}) = 0
    BY <1>2, <1>3, FS_EmptySet DEF Taking, Giving, Having, In
  <2>2. lostUnits[k] = 0 /\ k \in Nat
    BY <1>2 DEF Pools
  <2>3. Units(k) = bpsem[k].n + 0 + 0 + 0
    BY <2>1, <2>2 DEF Units
  <2>4. CASE k = 0
    <3>1. bpsem[k] = Sem(NBufs) /\ bpnext[k] = BufsOf(0) /\ ~(k >= nbpools)
      BY <1>2, <2>4
    <3>2. Sound(bpsem[k]) /\ ToSet(bpsem[k].q) = {} /\ bpsem[k].n = NBufs
      BY <1>3, <3>1, NewSound, EmptyList
    <3>3. Units(k) = Len(bpnext[k])
      BY <1>3, <1>4, <2>3, <3>1, <3>2
    <3>4. QED  BY <2>2, <3>1, <3>2, <3>3 DEF PoolRight
  <2>5. CASE k # 0
    <3>1. bpsem[k] = NoSem /\ bpnext[k] = <<>>
      BY <1>2, <2>5
    <3>2. Sound(bpsem[k]) /\ ToSet(bpsem[k].q) = {} /\ ~bpsem[k].ok
      BY <1>3, <3>1, NewSound, EmptyList
    <3>3. QED  BY <2>2, <3>1, <3>2 DEF PoolRight
  <2>6. QED  BY <2>4, <2>5
<1>9. QED  BY <1>2, <1>6, <1>7, <1>8 DEF PoolInv, Numbered

LEMMA NextNumbered == Numbered /\ [Next]_vars => Numbered'
<1>1. SUFFICES ASSUME Numbered, [Next]_vars PROVE Numbered'
  OBVIOUS
<1>2. ASSUME NEW id, ptseq' = [ptseq EXCEPT ![id] = @ + 1] PROVE Numbered'
  <2>1. ASSUME NEW x \in Ports PROVE ptseq'[x] \in Nat
    BY <1>1, <1>2 DEF Numbered
  <2>2. DOMAIN ptseq' = Ports /\ ptseq' = [x \in DOMAIN ptseq' |-> ptseq'[x]]
    BY <1>1, <1>2 DEF Numbered
  <2>3. QED  BY <2>1, <2>2 DEF Numbered
<1>3. UNCHANGED ptseq => Numbered'
  BY <1>1 DEF Numbered
<1>4. \A p, count, state, next : NewPort(p, count, state, next) => Numbered'
  BY <1>2, <1>3 DEF NewPort
<1>5. \A p, count : PinitAndNewPort(p, count) => Numbered'
  BY <1>4 DEF PinitAndNewPort
<1>6. PortsAlone \/ SendUnchanged => Numbered'
  BY <1>3 DEF PortsAlone, SendUnchanged, tableVars
<1>7. CASE UNCHANGED vars
  BY <1>3, <1>7 DEF vars, tableVars
<1>8. ASSUME NEW p \in Procs, PoolStep(p) /\ PoolAlone PROVE Numbered'
  BY <1>3, <1>8 DEF PoolAlone, tableVars
<1>9. ASSUME NEW p \in Procs, PortStep(p) PROVE Numbered'
  <2>1. ASSUME NEW count \in Counts, Pcreate(p, count) PROVE Numbered'
    BY <1>4, <1>5, <1>6, <2>1 DEF Pcreate
  <2>2. FinishMark(p) \/ FinishPinit(p) \/ MarkOther(p) \/ FinishOther(p) => Numbered'
    BY <1>5, <1>6 DEF FinishMark, FinishPinit, MarkOther, FinishOther
  <2>3. ASSUME NEW port \in Ports, NEW b \in Bufs, Psend(p, port, b) \/ Preceive(p, port) PROVE Numbered'
    BY <1>6, <2>3 DEF Psend, Preceive
  <2>4. ASSUME NEW port \in Ports, Preset(p, port) \/ Pdelete(p, port) PROVE Numbered'
    BY <1>2, <2>4 DEF Preset, Pdelete, Ptclear
  <2>5. FinishPsend(p) \/ FinishPreceive(p) => Numbered'
    BY <1>6 DEF FinishPsend, FinishPreceive
  <2>6. FinishDispose(p) \/ FinishClear(p) \/ Kill(p) => Numbered'
    BY <1>3 DEF FinishDispose, FinishClear, Kill, tableVars
  <2>7. Bufs # {}
    <3>1. <<0, 1>> \in Bufs
      BY PoolAssumption DEF Bufs, Pools
    <3>2. QED  BY <3>1
  <2>8. QED  BY <1>9, <2>1, <2>2, <2>3, <2>4, <2>5, <2>6, <2>7 DEF PortStep
<1>10. QED  BY <1>1, <1>7, <1>8, <1>9 DEF Next

LEMMA NextPoolInv == PoolInv /\ Numbered /\ [Next]_vars => PoolInv'
<1>1. SUFFICES ASSUME PoolInv, Numbered, [Next]_vars PROVE PoolInv'
  OBVIOUS
<1>2. CASE UNCHANGED vars
  <2>1. UNCHANGED <<cont, nbpools, bpnext, bpsem, held, lostUnits, ptq>>
    BY <1>2 DEF vars, clientVars, poolVars, queueVars
  <2>2. UNCHANGED Live /\ \A k \in Pools : UNCHANGED <<Taking(k), Giving(k)>>
    BY <2>1 DEF Live, Taking, Giving
  <2>3. \A k \in Pools : UNCHANGED Units(k)
    BY <2>1, <2>2 DEF Units
  <2>4. PoolTyped'
    BY <1>1, <2>1, <2>2 DEF PoolInv, PoolTyped
  <2>5. \A p \in Procs : Placed(p)'
    BY <1>1, <2>1 DEF PoolInv, Placed
  <2>6. \A k \in Pools : PoolRight(k)'
    BY <1>1, <2>1, <2>2, <2>3 DEF PoolInv, PoolRight
  <2>7. QED  BY <2>4, <2>5, <2>6 DEF PoolInv
<1>3. ASSUME NEW p \in Procs, PoolStep(p), PoolAlone PROVE PoolInv'
  <2>1. UNCHANGED ptq
    BY <1>3 DEF PoolAlone, queueVars
  <2>2. QED  BY <1>1, <1>3, <2>1, PoolStepInv
<1>4. ASSUME NEW p \in Procs, PortStep(p) PROVE PoolInv'
  BY <1>1, <1>4, MarkStepInv, SendStepInv, FinishSendInv, ClearStepInv, FinishClearInv, KillPoolInv
     DEF PortStep
<1>5. QED  BY <1>1, <1>2, <1>3, <1>4 DEF Next

\* A pool's list holds a buffer for every unit of its semaphore and every process on the
\* way from its count to its list or back (getbuf.c, freebuf.c), through kills and
\* through the clearing of ports that gives buffers back.
THEOREM PoolCorrect == Spec => []PoolAccounted
<1>1. PoolInv => PoolAccounted
  BY PoolAccountedInv
<1>2. QED  BY <1>1, InitPool, NextNumbered, NextPoolInv, PTL DEF Spec

------------------------------------------------------------------------------
(* The ports, where one process initializes them and does so before another *)
(* can come in between (the run of MarkedOnce shows what happens otherwise). *)

MarkedAtOnce == pinits <= 1 /\ \A p \in Procs : ~At(p, "pinit")

PortTyped ==
  /\ ptstate \in [Ports -> {"free", "alloc", "limbo"}] /\ ptseq \in [Ports -> Nat]
  /\ ptmaxcnt \in [Ports -> Nat] /\ ptssem \in [Ports -> Sems] /\ ptrsem \in [Ports -> Sems]
  /\ lostS \in [Ports -> Nat] /\ lostR \in [Ports -> Nat] /\ ptnextp \in Int /\ pinits \in Nat
  /\ panicked \in BOOLEAN

\* Until pinit ran no port is in use.
PinitFirst == (marked => pinits >= 1) /\ (pinits = 0 => \A k \in Ports : ptstate[k] = "free")

\* A semaphore that was reset to n, and that nobody took or gave a unit since.
Fresh(s, n) == Sound(s) /\ s.q = <<>> /\ (s.ok => s.n = n)

SendOps == {"psend", "preceive"}
ClearOp == {"dispose", "clearR", "clearEnd"}
Clears(c, k) == c.op \in ClearOp /\ c.on = k

\* What the rest of a call relies on: a sender or receiver on a port that was not used
\* less often since and has the semaphore it waited for, a clearing on a port that is its
\* alone.
RestOk(c, k) ==
  /\ c.op \in SendOps /\ c.on = k => c.n <= ptseq[k] /\ (ptstate[k] = "limbo" => c.n < ptseq[k])
  /\ c.op = "psend" /\ c.on = k /\ c.n = ptseq[k] /\ ptstate[k] = "alloc" => ptssem[k].ok
  /\ Clears(c, k) => /\ ptstate[k] = "limbo"
                     /\ c.op # "dispose" => Fresh(ptssem[k], ptmaxcnt[k]) /\ ptq[k] = <<>>
                     /\ c.op = "clearEnd" => Fresh(ptrsem[k], 0)

\* Who is in a queue of a port is in a call for it, of its generation if it is open.
Waiting(s, op, k) ==
  \A p \in ToSet(s.q) : /\ cont[p].op = op /\ cont[p].on = k
                        /\ ptstate[k] = "alloc" => cont[p].n = ptseq[k]

Sending(k) == Having(cont, InSince("psend", k, ptseq[k]))
Receiving(k) == Having(cont, InSince("preceive", k, ptseq[k]))
Room(k) ==
  /\ ptssem[k].ok =>
       ptssem[k].n + Cardinality(Sending(k)) + Len(ptq[k]) + lostS[k] = ptmaxcnt[k]
  /\ ptrsem[k].ok => ptrsem[k].n + Cardinality(Receiving(k)) + lostR[k] = Len(ptq[k])

OneClears(k) == \A p, q \in Procs : Clears(cont[p], k) /\ Clears(cont[q], k) => p = q

PortRight(k) ==
  /\ Sound(ptssem[k]) /\ Waiting(ptssem[k], "psend", k)
  /\ Sound(ptrsem[k]) /\ Waiting(ptrsem[k], "preceive", k)
  /\ \A p \in Procs : RestOk(cont[p], k)
  /\ OneClears(k)
  /\ ptstate[k] = "free" => ptssem[k].q = <<>> /\ ptrsem[k].q = <<>>
  /\ ptstate[k] = "limbo" => lostS[k] = 0 /\ lostR[k] = 0
  /\ ~panicked /\ ptstate[k] = "alloc" => Room(k)

PortInv == PoolInv /\ PortTyped /\ PinitFirst /\ (\A k \in Ports : PortRight(k))

LEMMA NobodyForgottenInv == PortInv => NobodyForgotten
<1>1. SUFFICES ASSUME PortInv, NEW port \in Ports, NEW p \in Procs
               PROVE  /\ Contains(ptssem[port].q, p) =>
                           At(p, "psend") /\ cont[p].on = port /\ (Still(p) \/ ptstate[port] = "limbo")
                      /\ Contains(ptrsem[port].q, p) =>
                           At(p, "preceive") /\ cont[p].on = port /\ (Still(p) \/ ptstate[port] = "limbo")
  BY DEF NobodyForgotten
<1>2. PortRight(port) /\ ptstate[port] \in {"free", "alloc", "limbo"}
  BY <1>1 DEF PortInv, PortTyped
<1>3. ptssem[port].q \in Seq(Procs) /\ ptrsem[port].q \in Seq(Procs)
  BY <1>2, SoundFacts DEF PortRight
<1>4. \A q \in Seq(Procs) : Contains(q, p) => p \in ToSet(q) /\ q # <<>>
  BY ContainsSet, EmptyList
<1>5. QED  BY <1>2, <1>3, <1>4 DEF PortRight, Waiting, At, Still

LEMMA RoomAccountedInv == PortInv => RoomAccounted
<1>1. SUFFICES ASSUME PortInv, ~panicked, NEW k \in Ports, ptstate[k] = "alloc"
               PROVE  LET s == ptssem[k] r == ptrsem[k] IN
                      /\ s.ok => s.n + Len(s.q) + Cardinality(Senders(k)) + Len(ptq[k]) + lostS[k]
                                 = ptmaxcnt[k]
                      /\ r.ok => r.n + Len(r.q) + Cardinality(Receivers(k)) + lostR[k] = Len(ptq[k])
  BY DEF RoomAccounted
<1>2. PortRight(k) /\ Room(k) /\ cont \in [Procs -> Conts]
  BY <1>1 DEF PortInv, PortRight, PoolInv, PoolTyped
<1>3. Len(ptq[k]) \in Nat /\ lostS[k] \in Nat /\ lostR[k] \in Nat
  BY <1>1 DEF PortInv, PortTyped, PoolInv, PoolTyped
<1>4. ASSUME NEW s, NEW op \in {"psend", "preceive"}, Sound(s), Waiting(s, op, k)
      PROVE  LET W == Having(cont, InSince(op, k, ptseq[k])) IN
             /\ s.n \in Int /\ Len(s.q) \in Nat /\ Cardinality({p \in W : ~Contains(s.q, p)}) \in Nat
             /\ Cardinality(W) = Len(s.q) + Cardinality({p \in W : ~Contains(s.q, p)})
  <2> DEFINE W == Having(cont, InSince(op, k, ptseq[k]))
  <2>1. s.n \in Int /\ s.q \in Seq(Procs) /\ IsInjective(s.q) /\ ToSet(s.q) \subseteq Procs
    BY <1>4, SoundFacts
  <2>2. ToSet(s.q) \subseteq W
    BY <1>1, <1>2, <1>4, <2>1 DEF Waiting, Having, In, InSince
  <2>3. IsFiniteSet(W)
    BY HavingCounted
  <2> HIDE DEF W
  <2>4. Cardinality(W) = Len(s.q) + Cardinality({p \in W : ~Contains(s.q, p)})
    BY <2>1, <2>2, <2>3, WaitingCounted
  <2>5. IsFiniteSet({p \in W : ~Contains(s.q, p)})
    BY <2>3, FS_Subset
  <2>6. Cardinality({p \in W : ~Contains(s.q, p)}) \in Nat
    BY <2>5, FS_CardinalityType
  <2>7. QED  BY <2>1, <2>4, <2>6 DEF W
<1>5. /\ Senders(k) = {p \in Sending(k) : ~Contains(ptssem[k].q, p)}
      /\ Receivers(k) = {p \in Receiving(k) : ~Contains(ptrsem[k].q, p)}
  BY <1>1, <1>2 DEF Senders, Receivers, Released, Still, At, Sending, Receiving, Having, In, InSince
<1>6. /\ ptssem[k].n \in Int /\ Len(ptssem[k].q) \in Nat /\ Cardinality(Senders(k)) \in Nat
      /\ Cardinality(Sending(k)) = Len(ptssem[k].q) + Cardinality(Senders(k))
  BY <1>2, <1>4, <1>5 DEF PortRight, Sending
<1>7. /\ ptrsem[k].n \in Int /\ Len(ptrsem[k].q) \in Nat /\ Cardinality(Receivers(k)) \in Nat
      /\ Cardinality(Receiving(k)) = Len(ptrsem[k].q) + Cardinality(Receivers(k))
  BY <1>2, <1>4, <1>5 DEF PortRight, Receiving
<1>8. ptssem[k].ok => ptssem[k].n + Len(ptssem[k].q) + Cardinality(Senders(k)) + Len(ptq[k]) + lostS[k]
                      = ptmaxcnt[k]
  <2>1. SUFFICES ASSUME ptssem[k].ok
                 PROVE  ptssem[k].n + Len(ptssem[k].q) + Cardinality(Senders(k)) + Len(ptq[k]) + lostS[k]
                        = ptmaxcnt[k]
    OBVIOUS
  <2>2. ptssem[k].n + Cardinality(Sending(k)) + Len(ptq[k]) + lostS[k] = ptmaxcnt[k]
    BY <1>2, <2>1 DEF Room
  <2>3. QED  BY ONLY <1>3, <1>6, <2>2
<1>9. ptrsem[k].ok => ptrsem[k].n + Len(ptrsem[k].q) + Cardinality(Receivers(k)) + lostR[k] = Len(ptq[k])
  <2>1. SUFFICES ASSUME ptrsem[k].ok
                 PROVE  ptrsem[k].n + Len(ptrsem[k].q) + Cardinality(Receivers(k)) + lostR[k] = Len(ptq[k])
    OBVIOUS
  <2>2. ptrsem[k].n + Cardinality(Receiving(k)) + lostR[k] = Len(ptq[k])
    BY <1>2, <2>1 DEF Room
  <2>3. QED  BY ONLY <1>3, <1>7, <2>2
<1>10. QED  BY <1>8, <1>9

LEMMA PortMoves ==
  ASSUME PortInv, NEW p \in Procs, NEW c \in Conts, Then(p, c), NEW k \in Ports, ptseq'[k] = ptseq[k]
  PROVE  /\ Cardinality(Sending(k)') = Cardinality(Sending(k))
              - (IF At(p, "psend") /\ cont[p].on = k /\ cont[p].n = ptseq[k] THEN 1 ELSE 0)
              + (IF c.op = "psend" /\ c.on = k /\ c.n = ptseq[k] THEN 1 ELSE 0)
         /\ Cardinality(Receiving(k)') = Cardinality(Receiving(k))
              - (IF At(p, "preceive") /\ cont[p].on = k /\ cont[p].n = ptseq[k] THEN 1 ELSE 0)
              + (IF c.op = "preceive" /\ c.on = k /\ c.n = ptseq[k] THEN 1 ELSE 0)
         /\ Cardinality(Sending(k)) \in Nat /\ Cardinality(Receiving(k)) \in Nat
<1>1. cont \in [Procs -> Conts] /\ cont' = [cont EXCEPT ![p] = c] /\ cont[p] \in Conts
  BY DEF PortInv, PoolInv, PoolTyped, Then
<1>2. OnlyMoves(cont, cont', p) /\ cont'[p] = c
  BY <1>1 DEF OnlyMoves
<1>3. /\ c \in InSince("psend", k, ptseq[k]) <=> c.op = "psend" /\ c.on = k /\ c.n = ptseq[k]
      /\ c \in InSince("preceive", k, ptseq[k]) <=> c.op = "preceive" /\ c.on = k /\ c.n = ptseq[k]
      /\ cont[p] \in InSince("psend", k, ptseq[k])
           <=> At(p, "psend") /\ cont[p].on = k /\ cont[p].n = ptseq[k]
      /\ cont[p] \in InSince("preceive", k, ptseq[k])
           <=> At(p, "preceive") /\ cont[p].on = k /\ cont[p].n = ptseq[k]
  BY <1>1 DEF In, InSince, At
<1>4. /\ Sending(k)' = Having(cont', InSince("psend", k, ptseq[k]))
      /\ Receiving(k)' = Having(cont', InSince("preceive", k, ptseq[k]))
  BY DEF Sending, Receiving
<1>5. /\ Sending(k) = Having(cont, InSince("psend", k, ptseq[k]))
      /\ Receiving(k) = Having(cont, InSince("preceive", k, ptseq[k]))
  BY DEF Sending, Receiving
<1>6. Cardinality(Sending(k)) \in Nat /\ Cardinality(Receiving(k)) \in Nat
  BY <1>5, HavingCounted
<1>7. QED  BY <1>2, <1>3, <1>4, <1>5, <1>6, HavingMoves

\* The processes whose rest of a call is about the port.
About(c, k) == c.op \in SendOps \cup ClearOp /\ c.on = k
PortSame(k) ==
  /\ ptstate'[k] = ptstate[k] /\ ptseq'[k] = ptseq[k] /\ ptmaxcnt'[k] = ptmaxcnt[k] /\ ptq'[k] = ptq[k]
  /\ ptssem'[k] = ptssem[k] /\ ptrsem'[k] = ptrsem[k] /\ lostS'[k] = lostS[k] /\ lostR'[k] = lostR[k]

LEMMA PortUntouched ==
  ASSUME PortInv, NEW p \in Procs, NEW c \in Conts, Then(p, c), NEW k \in Ports, PortSame(k),
         ~About(cont[p], k), ~About(c, k), ~panicked' => ~panicked
  PROVE  PortRight(k)'
<1>1. cont \in [Procs -> Conts] /\ cont' = [cont EXCEPT ![p] = c] /\ cont[p] \in Conts /\ PortRight(k)
  BY DEF PortInv, PoolInv, PoolTyped, Then
<1>2. cont'[p] = c /\ \A q \in Procs \ {p} : cont'[q] = cont[q]
  BY <1>1
<1>3. ~Clears(cont[p], k) /\ ~Clears(c, k) /\ ~(cont[p].op \in SendOps /\ cont[p].on = k) /\ ~(c.op \in SendOps /\ c.on = k)
  BY DEF About, Clears
<1>4. Fresh(ptssem[k], ptmaxcnt[k])' = Fresh(ptssem[k], ptmaxcnt[k]) /\ Fresh(ptrsem[k], 0)' = Fresh(ptrsem[k], 0)
  BY DEF PortSame, Fresh
<1>5. \A q \in Procs : RestOk(cont[q], k)'
  <2>1. ASSUME NEW q \in Procs \ {p} PROVE RestOk(cont[q], k)'
    <3>1. RestOk(cont[q], k) /\ cont'[q] = cont[q]
      BY <1>1, <1>2 DEF PortRight
    <3>2. QED  BY <1>4, <3>1 DEF RestOk, PortSame, Clears
  <2>2. RestOk(cont[p], k)'
    BY <1>2, <1>3 DEF RestOk, Clears, SendOps
  <2>3. QED  BY <2>1, <2>2
<1>6. OneClears(k)'
  <2>1. OneClears(k)
    BY <1>1 DEF PortRight
  <2>2. QED  BY <1>2, <1>3, <2>1 DEF OneClears, Clears
<1>7. Waiting(ptssem[k], "psend", k)' /\ Waiting(ptrsem[k], "preceive", k)'
  <2>1. /\ \A q \in ToSet(ptssem[k].q) : q \in Procs \ {p}
        /\ \A q \in ToSet(ptrsem[k].q) : q \in Procs \ {p}
    <3>1. ToSet(ptssem[k].q) \subseteq Procs /\ ToSet(ptrsem[k].q) \subseteq Procs
      BY <1>1, SoundFacts DEF PortRight
    <3>2. QED  BY <1>1, <1>3, <3>1 DEF PortRight, Waiting, SendOps
  <2>2. QED  BY <1>1, <1>2, <2>1 DEF PortRight, Waiting, PortSame
<1>8. ptstate[k] = "alloc" /\ Room(k) => Room(k)'
  <2>1. /\ ~(At(p, "psend") /\ cont[p].on = k /\ cont[p].n = ptseq[k])
        /\ ~(c.op = "psend" /\ c.on = k /\ c.n = ptseq[k])
        /\ ~(At(p, "preceive") /\ cont[p].on = k /\ cont[p].n = ptseq[k])
        /\ ~(c.op = "preceive" /\ c.on = k /\ c.n = ptseq[k])
    BY <1>3 DEF SendOps, At
  <2>2. ptseq'[k] = ptseq[k]
    BY DEF PortSame
  <2>3. /\ Cardinality(Sending(k)') = Cardinality(Sending(k))
        /\ Cardinality(Receiving(k)') = Cardinality(Receiving(k))
    BY <2>1, <2>2, PortMoves
  <2>4. QED  BY <2>3 DEF Room, PortSame
<1>9. Sound(ptssem[k])' /\ Sound(ptrsem[k])'
  BY <1>1 DEF PortRight, PortSame, Sound
<1>10. QED  BY <1>1, <1>5, <1>6, <1>7, <1>8, <1>9 DEF PortRight, PortSame

\* A step that changes no port, by a process whose call is not about one.
LEMMA PortsQuiet ==
  ASSUME PortInv, PoolInv', NEW p \in Procs, NEW c \in Conts, Then(p, c),
         cont[p].op \notin SendOps \cup ClearOp, c.op \notin SendOps \cup ClearOp,
         UNCHANGED <<ptstate, ptseq, ptmaxcnt, ptq, ptssem, ptrsem, lostVars, panicked>>,
         ptnextp' \in Int, pinits' \in Nat, PinitFirst'
  PROVE  PortInv'
<1>1. UNCHANGED <<ptstate, ptseq, ptmaxcnt, lostS, lostR, ptq, ptssem, ptrsem, panicked>>
  BY DEF lostVars
<1>2. PortTyped'
  BY <1>1 DEF PortInv, PortTyped
<1>3. ASSUME NEW k \in Ports PROVE PortRight(k)'
  <2>1. PortSame(k) /\ ~About(cont[p], k) /\ ~About(c, k)
    BY <1>1 DEF PortSame, About
  <2>2. QED  BY <1>1, <2>1, PortUntouched
<1>4. QED  BY <1>2, <1>3 DEF PortInv

\* Everybody's call is from before the generation gen of the port.
Older(f, k, gen) == \A q \in Procs : f[q].op \in SendOps /\ f[q].on = k => f[q].n < gen

LEMMA NoneSince ==
  ASSUME NEW f, NEW k, NEW gen \in Nat, Older(f, k, gen), NEW op \in SendOps
  PROVE  Cardinality(Having(f, InSince(op, k, gen))) = 0
<1>1. \A x \in Nat : ~(x < x)
  OBVIOUS
<1>2. Having(f, InSince(op, k, gen)) = {}
  BY <1>1 DEF Older, Having, In, InSince
<1>3. QED  BY <1>2, FS_EmptySet

LEMMA SearchPorts ==
  ASSUME NEW next \in Int, NEW i \in 1 .. NPorts
  PROVE  PortSearch(next)[i] \in Ports
<1>1. \A x \in Int, n \in Nat \ {0} : x % n \in 0 .. n - 1
  OBVIOUS
<1>2. next - (i - 1) \in Int /\ NPorts \in Nat \ {0}
  BY PortsAssumption
<1>3. PortSearch(next)[i] = (next - (i - 1)) % NPorts
  BY DEF PortSearch
<1>4. QED  BY <1>1, <1>2, <1>3 DEF Ports

LEMMA NewPortInv ==
  ASSUME PortInv, PoolInv', NEW p \in Procs, cont[p].op \notin SendOps \cup ClearOp, NEW count \in Nat,
         NEW next \in Int, NewPort(p, count, ptstate, next), UNCHANGED panicked, pinits' \in Nat, pinits' >= 1
  PROVE  PortInv'
<1> DEFINE search == PortSearch(next)
           free == {i \in 1 .. NPorts : ptstate[search[i]] = "free"}
<1>1. Then(p, Idle) /\ Idle \in Conts /\ Idle.op = "user" /\ PinitFirst'
  BY ContTypes DEF NewPort, PinitFirst
<1>2. CASE free = {}
  <2>1. /\ UNCHANGED <<ptstate, ptseq, ptmaxcnt, ptq, ptssem, ptrsem, lostVars, panicked>>
        /\ ptnextp' \in Int
    BY <1>2 DEF NewPort
  <2>2. QED  BY <1>1, <2>1, PortsQuiet DEF SendOps, ClearOp
<1>3. CASE free # {}
  <2>1. Min(free) \in free
    <3>1. free \subseteq Nat
      OBVIOUS
    <3>2. QED  BY <1>3, <3>1, MinNat
  <2>2. PICK id \in Ports : id = search[Min(free)] /\ ptstate[id] = "free"
    BY <2>1, SearchPorts
  <2>3. /\ ptstate' = [ptstate EXCEPT ![id] = "alloc"] /\ ptnextp' = (id - 1) % NPorts
        /\ ptssem' = [ptssem EXCEPT ![id] = IF semsLeft >= 1 THEN Sem(count) ELSE NoSem]
        /\ ptrsem' = [ptrsem EXCEPT ![id] = IF semsLeft >= 2 THEN Sem(0) ELSE NoSem]
        /\ ptq' = [ptq EXCEPT ![id] = <<>>]
        /\ ptseq' = [ptseq EXCEPT ![id] = @ + 1]
        /\ ptmaxcnt' = [ptmaxcnt EXCEPT ![id] = count]
        /\ lostS' = [lostS EXCEPT ![id] = 0] /\ lostR' = [lostR EXCEPT ![id] = 0]
    BY <1>3, <2>2 DEF NewPort
  <2> HIDE DEF free, search
  <2>4. PortTyped /\ ptq \in [Ports -> Seq(Live)] /\ cont \in [Procs -> Conts] /\ PortRight(id)
    BY DEF PortInv, PoolInv, PoolTyped
  <2>5. /\ ptstate'[id] = "alloc" /\ ptq'[id] = <<>> /\ ptseq'[id] = ptseq[id] + 1
        /\ ptmaxcnt'[id] = count /\ lostS'[id] = 0 /\ lostR'[id] = 0
    BY <2>3, <2>4 DEF PortTyped
  <2>6. /\ ptssem'[id] \in {Sem(count), NoSem} /\ ptrsem'[id] \in {Sem(0), NoSem}
    BY <2>3, <2>4 DEF PortTyped
  <2>7. /\ Sound(ptssem'[id]) /\ ptssem'[id].q = <<>> /\ (ptssem'[id].ok => ptssem'[id].n = count)
        /\ Sound(ptrsem'[id]) /\ ptrsem'[id].q = <<>> /\ (ptrsem'[id].ok => ptrsem'[id].n = 0)
    <3>1. /\ Sound(Sem(count)) /\ Sem(count).q = <<>> /\ Sem(count).n = count
          /\ Sound(Sem(0)) /\ Sem(0).q = <<>> /\ Sem(0).n = 0
          /\ Sound(NoSem) /\ NoSem.q = <<>> /\ ~NoSem.ok
      BY NewSound
    <3>2. QED  BY <2>6, <3>1
  <2>8. PortTyped'
    <3>1. ptssem' \in [Ports -> Sems] /\ ptrsem' \in [Ports -> Sems]
      <4>1. Sem(count) \in Sems /\ Sem(0) \in Sems /\ NoSem \in Sems
        BY NewSound DEF Sound
      <4>2. QED  BY <2>3, <2>4, <4>1 DEF PortTyped
    <3>2. ptnextp' \in Int
      <4>1. \A x \in Int, n \in Nat \ {0} : x % n \in Int
        OBVIOUS
      <4>2. id - 1 \in Int
        BY PortsAssumption DEF Ports
      <4>3. QED  BY <2>3, <4>1, <4>2, PortsAssumption
    <3>3. ptstate' \in [Ports -> {"free", "alloc", "limbo"}]
      BY <2>3, <2>4 DEF PortTyped
    <3>4. ptseq' \in [Ports -> Nat] /\ ptmaxcnt' \in [Ports -> Nat] /\ lostS' \in [Ports -> Nat] /\ lostR' \in [Ports -> Nat]
      BY <2>3, <2>4 DEF PortTyped
    <3>5. QED  BY <2>4, <3>1, <3>2, <3>3, <3>4 DEF PortTyped
  <2>9. ASSUME NEW k \in Ports, k # id PROVE PortRight(k)'
    <3>1. PortSame(k)
      BY <2>3, <2>4, <2>9 DEF PortSame, PortTyped
    <3>2. ~About(cont[p], k) /\ ~About(Idle, k)
      BY <1>1 DEF About, SendOps, ClearOp
    <3>3. QED  BY <1>1, <3>1, <3>2, PortUntouched
  <2>10. PortRight(id)'
    <3>1. \A q \in Procs : RestOk(cont[q], id) /\ ~Clears(cont[q], id)
      BY <2>2, <2>4 DEF PortRight, RestOk
    <3>2. \A q \in Procs : cont'[q] = cont[q] \/ cont'[q] = Idle
      BY <1>1, <2>4 DEF Then
    <3>3. \A q \in Procs : ~Clears(cont'[q], id)
      BY <1>1, <3>1, <3>2 DEF Clears, ClearOp
    <3>4. Older(cont', id, ptseq'[id])
      <4>1. ASSUME NEW q \in Procs, cont'[q].op \in SendOps, cont'[q].on = id PROVE cont'[q].n < ptseq'[id]
        <5>1. cont'[q] = cont[q]
          BY <1>1, <3>2, <4>1 DEF SendOps
        <5>2. cont[q].n <= ptseq[id] /\ cont[q] \in Conts
          BY <2>4, <3>1, <4>1, <5>1 DEF RestOk
        <5>3. cont[q].n \in Nat /\ ptseq[id] \in Nat
          BY <2>4, <5>2 DEF Conts, PortTyped
        <5>4. QED  BY <2>5, <5>1, <5>2, <5>3
      <4>2. QED  BY <4>1 DEF Older
    <3>5. ptseq'[id] \in Nat
      BY <2>8 DEF PortTyped
    <3>6. Cardinality(Sending(id)') = 0 /\ Cardinality(Receiving(id)') = 0
      BY <3>4, <3>5, NoneSince DEF Sending, Receiving, SendOps
    <3>7. \A q \in Procs : RestOk(cont[q], id)'
      <4>1. TAKE q \in Procs
      <4>2. cont'[q].op \in SendOps /\ cont'[q].on = id => cont'[q].n < ptseq'[id]
        BY <3>4 DEF Older
      <4>3. cont'[q] \in Conts
        BY DEF PoolInv, PoolTyped
      <4>4. cont'[q].n \in Nat
        BY <4>3 DEF Conts
      <4>5. cont'[q].op \in SendOps /\ cont'[q].on = id => cont'[q].n <= ptseq'[id] /\ cont'[q].n # ptseq'[id]
        BY <3>5, <4>2, <4>4
      <4>6. "psend" \in SendOps
        BY DEF SendOps
      <4>7. QED  BY <2>5, <3>3, <4>5, <4>6 DEF RestOk, Clears
    <3>8. Room(id)'
      <4>1. Len(ptq'[id]) = 0
        BY <2>5
      <4>2. ptssem'[id].ok => ptssem'[id].n + 0 + 0 + 0 = ptmaxcnt'[id]
        BY <2>5, <2>7
      <4>3. ptrsem'[id].ok => ptrsem'[id].n + 0 + 0 = 0
        BY <2>7
      <4>4. QED  BY <2>5, <3>6, <4>1, <4>2, <4>3 DEF Room
    <3>9. Waiting(ptssem[id], "psend", id)' /\ Waiting(ptrsem[id], "preceive", id)'
      <4>1. ToSet(ptssem'[id].q) = {} /\ ToSet(ptrsem'[id].q) = {}
        BY <2>7, EmptyList
      <4>2. QED  BY <4>1 DEF Waiting
    <3>10. OneClears(id)'
      BY <3>3 DEF OneClears
    <3>11. QED  BY <2>5, <2>7, <3>7, <3>8, <3>9, <3>10 DEF PortRight
  <2>11. QED  BY <1>1, <2>8, <2>9, <2>10 DEF PortInv
<1>4. QED  BY <1>2, <1>3

LEMMA MarkStepPorts ==
  ASSUME PortInv, PoolInv', MarkedAtOnce, MarkedAtOnce', NEW p \in Procs,
         \/ \E count \in Counts : Pcreate(p, count)
         \/ FinishMark(p) \/ FinishPinit(p) \/ MarkOther(p) \/ FinishOther(p)
  PROVE  PortInv'
<1>1. /\ PortTyped /\ PinitFirst /\ cont \in [Procs -> Conts] /\ cont' \in [Procs -> Conts]
      /\ pinits \in Nat /\ ptnextp \in Int
  BY DEF PortInv, PortTyped, PoolInv, PoolTyped
<1> DEFINE Elsewhere == SendOps \cup ClearOp
<1>2. ASSUME PortsAlone, UNCHANGED <<marked, panicked>>, NEW c \in Conts, Then(p, c),
             cont[p].op \notin Elsewhere, c.op \notin Elsewhere
      PROVE  PortInv'
  <2>1. UNCHANGED <<ptstate, ptseq, ptmaxcnt, ptnextp, ptq, ptssem, ptrsem, lostVars, pinits>>
    BY <1>2 DEF PortsAlone, tableVars
  <2>2. PinitFirst'
    BY <1>1, <1>2, <2>1 DEF PinitFirst
  <2>3. QED  BY <1>1, <1>2, <2>1, <2>2, PortsQuiet
<1>3. ASSUME NEW count \in Nat, PinitAndNewPort(p, count), UNCHANGED panicked, cont[p].op \notin Elsewhere
      PROVE  PortInv'
  <2>1. pinits = 0 /\ pinits' = 1
    BY <1>1, <1>3 DEF PinitAndNewPort, MarkedAtOnce
  <2>2. ptstate = [id \in Ports |-> "free"]
    BY <1>1, <2>1 DEF PinitFirst, PortTyped
  <2>3. NewPort(p, count, ptstate, NPorts - 1) /\ NPorts - 1 \in Int
    BY <1>3, <2>2, PortsAssumption DEF PinitAndNewPort
  <2>4. QED  BY <1>3, <2>1, <2>3, NewPortInv
<1>4. \A op \in {"user", "mark", "pinit", "other"} : op \notin Elsewhere
  BY DEF SendOps, ClearOp
<1>5. cont[p].n \in Nat /\ cont'[p] \in Conts
  BY <1>1 DEF Conts
<1>6. ASSUME NEW count \in Counts, Pcreate(p, count) PROVE PortInv'
  <2>1. cont[p].op \notin Elsewhere /\ count \in Nat /\ UNCHANGED panicked
    BY <1>4, <1>6, ContTypes, PortsAssumption DEF Pcreate, Call
  <2>2. CASE marked
    <3>1. NewPort(p, count, ptstate, ptnextp) /\ UNCHANGED pinits /\ pinits >= 1
      BY <1>1, <1>6, <2>2 DEF Pcreate, markVars, PinitFirst
    <3>2. QED  BY <1>1, <2>1, <3>1, NewPortInv
  <2>3. CASE ~marked /\ ~Blocks(mkmutex)
    BY <1>3, <1>6, <2>1, <2>3 DEF Pcreate
  <2>4. CASE ~marked /\ Blocks(mkmutex)
    <3> DEFINE c == Do("mark", 0, <<>>, count)
    <3>1. Then(p, c) /\ PortsAlone /\ UNCHANGED marked
      BY <1>6, <2>4 DEF Pcreate
    <3>2. c \in Conts /\ c.op = "mark"
      BY <2>1 DEF Do, Conts, ClientOps
    <3> HIDE DEF c
    <3>3. QED  BY <1>2, <1>4, <2>1, <3>1, <3>2
  <2>5. QED  BY <2>2, <2>3, <2>4
<1>7. CASE FinishMark(p)
  <2>1. cont[p].op \notin Elsewhere /\ UNCHANGED panicked
    BY <1>4, <1>7 DEF FinishMark, At
  <2>2. CASE Frees(mkmutex)
    <3>1. Then(p, Do("pinit", 0, <<>>, cont[p].n))
      BY <1>7, <2>2 DEF FinishMark
    <3>2. cont'[p].op = "pinit"
      BY <1>1, <3>1 DEF Then, Do
    <3>3. QED  BY <3>2 DEF MarkedAtOnce, At
  <2>3. CASE ~Frees(mkmutex)
    BY <1>3, <1>5, <1>7, <2>1, <2>3 DEF FinishMark
  <2>4. QED  BY <2>2, <2>3
<1>8. CASE FinishPinit(p)
  BY <1>8 DEF FinishPinit, MarkedAtOnce
<1>9. CASE MarkOther(p)
  <2> DEFINE c == Do("other", 0, <<>>, 0)
  <2>1. Then(p, c) /\ PortsAlone /\ UNCHANGED <<marked, panicked>> /\ cont[p].op \notin Elsewhere
    BY <1>4, <1>9, ContTypes DEF MarkOther, Call
  <2>2. c \in Conts /\ c.op = "other"
    BY DEF Do, Conts, ClientOps
  <2> HIDE DEF c
  <2>3. QED  BY <1>2, <1>4, <2>1, <2>2
<1>10. CASE FinishOther(p)
  <2>1. /\ Then(p, Idle) /\ PortsAlone /\ UNCHANGED <<marked, panicked>> /\ cont[p].op \notin Elsewhere
        /\ Idle \in Conts /\ Idle.op \notin Elsewhere
    BY <1>4, <1>10, ContTypes DEF FinishOther, At
  <2>2. QED  BY <1>2, <2>1
<1>11. QED  BY <1>6, <1>7, <1>8, <1>9, <1>10

LEMMA PoolStepPorts ==
  ASSUME PortInv, PoolInv', NEW p \in Procs, PoolStep(p), PoolAlone
  PROVE  PortInv'
<1>1. cont \in [Procs -> Conts] /\ cont' \in [Procs -> Conts] /\ PortTyped /\ PinitFirst
  BY DEF PortInv, PoolInv, PoolTyped
<1>2. \E c \in {Idle, cont[p]} \cup {Do("getbuf", k, <<>>, 0) : k \in Pools} \cup {Do("freebuf", b[1], <<>>, 0) : b \in Bufs} :
        Then(p, c)
  <2>1. Mkpool(p) => Then(p, cont[p])
    BY <1>1 DEF Mkpool, Then
  <2>2. QED  BY <2>1 DEF PoolStep, Getbuf, FinishGetbuf, Freebuf, FinishFreebuf
<1>3. cont[p].op \in {"user", "getbuf", "freebuf"}
  BY ContTypes DEF PoolStep, Mkpool, Getbuf, FinishGetbuf, Freebuf, FinishFreebuf, Call, At
<1>4. PICK c : Then(p, c) /\ c.op \in {"user", "getbuf", "freebuf"}
  BY <1>2, <1>3, ContTypes DEF Do
<1>5. c \in Conts
  BY <1>1, <1>4 DEF Then
<1>6. cont[p].op \notin SendOps \cup ClearOp /\ c.op \notin SendOps \cup ClearOp
  BY <1>3, <1>4 DEF SendOps, ClearOp
<1>7. /\ UNCHANGED <<ptstate, ptseq, ptmaxcnt, ptnextp, ptq, ptssem, ptrsem, lostVars, panicked>>
      /\ UNCHANGED <<marked, pinits>>
  BY DEF PoolAlone, tableVars, queueVars, markVars
<1>8. PinitFirst' /\ pinits' \in Nat /\ ptnextp' \in Int
  BY <1>1, <1>7 DEF PinitFirst, PortTyped
<1>9. QED  BY <1>4, <1>5, <1>6, <1>7, <1>8, PortsQuiet

\* Units that go from one account of a port's semaphores to another: the senders' count,
\* the senders let go, the messages, the receivers' count, the receivers let go.
Balanced(s, a, l, r, b) ==
  /\ s \in Int /\ a \in Int /\ l \in Int /\ r \in Int /\ b \in Int
  /\ s + a + l = 0 /\ r + b = l

LEMMA RoomMoves ==
  ASSUME PortInv, NEW k \in Ports, Room(k), ptmaxcnt'[k] = ptmaxcnt[k], lostS'[k] = lostS[k], lostR'[k] = lostR[k],
         Cardinality(Sending(k)) \in Nat, Cardinality(Receiving(k)) \in Nat,
         NEW s, NEW a, NEW l, NEW r, NEW b, Balanced(s, a, l, r, b),
         ptssem'[k].ok = ptssem[k].ok, ptssem[k].ok => ptssem'[k].n = ptssem[k].n + s,
         ptrsem'[k].ok = ptrsem[k].ok, ptrsem[k].ok => ptrsem'[k].n = ptrsem[k].n + r,
         Cardinality(Sending(k)') = Cardinality(Sending(k)) + a,
         Cardinality(Receiving(k)') = Cardinality(Receiving(k)) + b,
         Len(ptq'[k]) = Len(ptq[k]) + l
  PROVE  Room(k)'
<1>1. PortTyped /\ PortRight(k) /\ ptq[k] \in Seq(Live)
  BY DEF PortInv, PoolInv, PoolTyped
<1>2. /\ ptssem[k].n \in Int /\ ptrsem[k].n \in Int
      /\ ptssem[k].ok \in BOOLEAN /\ ptrsem[k].ok \in BOOLEAN
  BY <1>1, SoundFacts DEF PortRight
<1>3. ptmaxcnt[k] \in Int /\ lostS[k] \in Int /\ lostR[k] \in Int /\ Len(ptq[k]) \in Int
  BY <1>1 DEF PortTyped
<1>a. /\ s \in Int /\ a \in Int /\ l \in Int /\ r \in Int /\ b \in Int
      /\ s + a + l = 0 /\ r + b = l
  BY DEF Balanced
<1>4. ptssem[k].ok => ptssem'[k].n + Cardinality(Sending(k)') + Len(ptq'[k]) + lostS'[k] = ptmaxcnt'[k]
  <2>1. SUFFICES ASSUME ptssem[k].ok
                 PROVE  ptssem'[k].n + Cardinality(Sending(k)') + Len(ptq'[k]) + lostS'[k] = ptmaxcnt'[k]
    OBVIOUS
  <2> DEFINE n == ptssem[k].n
             c == Cardinality(Sending(k))
             q == Len(ptq[k])
             lost == lostS[k]
             m == ptmaxcnt[k]
  <2>2. n + c + q + lost = m
    BY <2>1 DEF Room
  <2>3. n \in Int /\ c \in Int /\ q \in Int /\ lost \in Int /\ m \in Int
    BY <1>2, <1>3
  <2>4. /\ ptssem'[k].n = n + s /\ Cardinality(Sending(k)') = c + a /\ Len(ptq'[k]) = q + l
        /\ lostS'[k] = lost /\ ptmaxcnt'[k] = m
    BY <2>1
  <2> HIDE DEF n, c, q, lost, m
  <2>5. (n + s) + (c + a) + (q + l) + lost = m
    BY <1>a, <2>2, <2>3
  <2>6. QED  BY ONLY <2>4, <2>5
<1>5. ptrsem[k].ok => ptrsem'[k].n + Cardinality(Receiving(k)') + lostR'[k] = Len(ptq'[k])
  <2>1. SUFFICES ASSUME ptrsem[k].ok
                 PROVE  ptrsem'[k].n + Cardinality(Receiving(k)') + lostR'[k] = Len(ptq'[k])
    OBVIOUS
  <2> DEFINE n == ptrsem[k].n
             c == Cardinality(Receiving(k))
             q == Len(ptq[k])
             lost == lostR[k]
  <2>2. n + c + lost = q
    BY <2>1 DEF Room
  <2>3. n \in Int /\ c \in Int /\ q \in Int /\ lost \in Int
    BY <1>2, <1>3
  <2>4. /\ ptrsem'[k].n = n + r /\ Cardinality(Receiving(k)') = c + b /\ Len(ptq'[k]) = q + l
        /\ lostR'[k] = lost
    BY <2>1
  <2> HIDE DEF n, c, q, lost
  <2>5. (n + r) + (c + b) + lost = q + l
    BY <1>a, <2>2, <2>3
  <2>6. QED  BY ONLY <2>4, <2>5
<1>6. QED  BY <1>4, <1>5 DEF Room

\* What psend and preceive leave of a port, on one port or none.
SendFrame ==
  UNCHANGED <<ptstate, ptseq, ptmaxcnt, ptnextp, lostS, lostR, marked, pinits>>

\* The part of the invariant that is not about the count: the sender or receiver enters a
\* queue of an open port, or leaves its call.
LEMMA SendKeeps ==
  ASSUME PortInv, PoolInv', SendFrame, NEW p \in Procs, NEW c \in Conts, Then(p, c), NEW k \in Ports,
         cont[p].op \in {"user"} \cup SendOps,
         c = Idle \/ (c.op \in SendOps /\ c.on = k /\ c.n = ptseq[k]),
         ptstate[k] = "alloc" \/ (c = Idle /\ ptssem'[k] = ptssem[k] /\ ptrsem'[k] = ptrsem[k] /\ ptq'[k] = ptq[k]),
         p \notin ToSet(ptssem[k].q), p \notin ToSet(ptrsem[k].q),
         ptssem'[k].ok = ptssem[k].ok, c.op = "psend" => ptssem[k].ok,
         Sound(ptssem'[k]), ToSet(ptssem'[k].q) \subseteq ToSet(ptssem[k].q) \cup (IF c.op = "psend" THEN {p} ELSE {}),
         Sound(ptrsem'[k]), ToSet(ptrsem'[k].q) \subseteq ToSet(ptrsem[k].q) \cup (IF c.op = "preceive" THEN {p} ELSE {}),
         ~panicked' /\ ptstate[k] = "alloc" => Room(k)'
  PROVE  PortRight(k)'
<1>1. /\ PortTyped /\ PortRight(k) /\ cont \in [Procs -> Conts] /\ cont' = [cont EXCEPT ![p] = c]
      /\ ptseq[k] \in Nat /\ Idle.op = "user"
  BY ContTypes DEF PortInv, PortTyped, PoolInv, PoolTyped, Then
<1>2. cont'[p] = c /\ \A q \in Procs \ {p} : cont'[q] = cont[q]
  BY <1>1
<1>3. /\ ptstate'[k] = ptstate[k] /\ ptseq'[k] = ptseq[k] /\ ptmaxcnt'[k] = ptmaxcnt[k]
      /\ lostS'[k] = lostS[k] /\ lostR'[k] = lostR[k]
  BY DEF SendFrame
<1>4. ~Clears(c, k) /\ ~Clears(cont[p], k)
  BY <1>1 DEF Clears, ClearOp, SendOps
<1>5. \A q \in Procs : RestOk(cont[q], k)'
  <2>1. ASSUME NEW q \in Procs \ {p} PROVE RestOk(cont[q], k)'
    <3>1. RestOk(cont[q], k) /\ cont'[q] = cont[q]
      BY <1>1, <1>2 DEF PortRight
    <3>2. CASE ptstate[k] = "alloc"
      BY <1>3, <3>1, <3>2 DEF RestOk
    <3>3. CASE ptssem'[k] = ptssem[k] /\ ptrsem'[k] = ptrsem[k] /\ ptq'[k] = ptq[k]
      <4>1. Fresh(ptssem'[k], ptmaxcnt'[k]) = Fresh(ptssem[k], ptmaxcnt[k]) /\ Fresh(ptrsem'[k], 0) = Fresh(ptrsem[k], 0)
        BY <1>3, <3>3
      <4>2. QED  BY <1>3, <3>1, <3>3, <4>1 DEF RestOk, Clears
    <3>4. QED  BY <3>2, <3>3
  <2>2. RestOk(cont[p], k)'
    <3>1. c.op \in SendOps => c.n <= ptseq'[k] /\ ptstate'[k] = "alloc"
      BY <1>1, <1>3 DEF SendOps
    <3>2. QED  BY <1>2, <1>4, <3>1 DEF RestOk, Clears
  <2>3. QED  BY <2>1, <2>2
<1>6. OneClears(k)'
  <2>1. OneClears(k)
    BY <1>1 DEF PortRight
  <2>2. QED  BY <1>2, <1>4, <2>1 DEF OneClears, Clears
<1>7. Waiting(ptssem[k], "psend", k)'
  <2>1. Waiting(ptssem[k], "psend", k) /\ ToSet(ptssem[k].q) \subseteq Procs
    BY <1>1, SoundFacts DEF PortRight
  <2>2. ASSUME NEW q \in ToSet(ptssem'[k].q)
        PROVE  /\ cont'[q].op = "psend" /\ cont'[q].on = k
               /\ ptstate'[k] = "alloc" => cont'[q].n = ptseq'[k]
    <3>1. CASE q = p
      <4>1. c.op = "psend" /\ c # Idle
        BY <1>1, <2>2, <3>1
      <4>2. QED  BY <1>2, <1>3, <3>1, <4>1
    <3>2. CASE q # p
      <4>1. q \in ToSet(ptssem[k].q) /\ cont'[q] = cont[q]
        BY <1>2, <2>1, <2>2, <3>2
      <4>2. QED  BY <1>3, <2>1, <4>1 DEF Waiting
    <3>3. QED  BY <3>1, <3>2
  <2>3. QED  BY <2>2 DEF Waiting
<1>8. Waiting(ptrsem[k], "preceive", k)'
  <2>1. Waiting(ptrsem[k], "preceive", k) /\ ToSet(ptrsem[k].q) \subseteq Procs
    BY <1>1, SoundFacts DEF PortRight
  <2>2. ASSUME NEW q \in ToSet(ptrsem'[k].q)
        PROVE  /\ cont'[q].op = "preceive" /\ cont'[q].on = k
               /\ ptstate'[k] = "alloc" => cont'[q].n = ptseq'[k]
    <3>1. CASE q = p
      <4>1. c.op = "preceive" /\ c # Idle
        BY <1>1, <2>2, <3>1
      <4>2. QED  BY <1>2, <1>3, <3>1, <4>1
    <3>2. CASE q # p
      <4>1. q \in ToSet(ptrsem[k].q) /\ cont'[q] = cont[q]
        BY <1>2, <2>1, <2>2, <3>2
      <4>2. QED  BY <1>3, <2>1, <4>1 DEF Waiting
    <3>3. QED  BY <3>1, <3>2
  <2>3. QED  BY <2>2 DEF Waiting
<1>9. ptstate'[k] = "free" => ptssem'[k].q = <<>> /\ ptrsem'[k].q = <<>>
  BY <1>1, <1>3 DEF PortRight
<1>10. QED  BY <1>1, <1>3, <1>5, <1>6, <1>7, <1>8, <1>9 DEF PortRight

MayPanic == panicked' = panicked \/ panicked' = TRUE

LEMMA OnePort ==
  ASSUME PortInv, PoolInv', SendFrame, NEW p \in Procs, NEW c \in Conts, Then(p, c), NEW k \in Ports,
         ~About(cont[p], k) => cont[p].op \notin SendOps \cup ClearOp,
         ~About(c, k) => c.op \notin SendOps \cup ClearOp,
         ptssem' = [ptssem EXCEPT ![k] = ptssem'[k]], ptrsem' = [ptrsem EXCEPT ![k] = ptrsem'[k]],
         ptq' = [ptq EXCEPT ![k] = ptq'[k]], Sound(ptssem'[k]), Sound(ptrsem'[k]),
         MayPanic, PortRight(k)'
  PROVE  PortInv'
<1>1. PortTyped /\ ptq \in [Ports -> Seq(Live)] /\ PinitFirst
  BY DEF PortInv, PoolInv, PoolTyped
<1>2. PinitFirst' /\ panicked' \in BOOLEAN /\ (~panicked' => ~panicked)
  BY <1>1 DEF PinitFirst, SendFrame, PortTyped, MayPanic
<1>3. PortTyped'
  <2>1. ptssem' \in [Ports -> Sems] /\ ptrsem' \in [Ports -> Sems]
    BY <1>1 DEF PortTyped, Sound
  <2>2. QED  BY <1>1, <1>2, <2>1 DEF PortTyped, SendFrame
<1>4. ASSUME NEW j \in Ports, j # k PROVE PortRight(j)'
  <2>1. ptssem'[j] = ptssem[j] /\ ptrsem'[j] = ptrsem[j] /\ ptq'[j] = ptq[j]
    BY <1>1, <1>4 DEF PortTyped
  <2>2. PortSame(j)
    BY <2>1 DEF PortSame, SendFrame
  <2>3. ~About(cont[p], j) /\ ~About(c, j)
    BY <1>4 DEF About
  <2>4. QED  BY <1>2, <2>2, <2>3, PortUntouched
<1>5. QED  BY <1>2, <1>3, <1>4 DEF PortInv

\* The process that puts or takes a message comes from its call, or was let go for it.
Comes(p, op, k) == cont[p].op = op /\ cont[p].on = k /\ cont[p].n = ptseq[k]
HasRoom(p, k, s) ==
  /\ s \in Int /\ (ptssem[k].ok => ptssem'[k].n = ptssem[k].n + s)
  /\ \/ cont[p] = Idle /\ s = -1
     \/ Comes(p, "psend", k) /\ s = 0 /\ p \notin ToSet(ptssem[k].q)
HasMessage(p, k, r) ==
  /\ r \in Int /\ (ptrsem[k].ok => ptrsem'[k].n = ptrsem[k].n + r)
  /\ \/ cont[p] = Idle /\ r = -1
     \/ Comes(p, "preceive", k) /\ r = 0 /\ p \notin ToSet(ptrsem[k].q)

LEMMA PutPort ==
  ASSUME PortInv, PoolInv', SendFrame, ~panicked, NEW p \in Procs, NEW k \in Ports, ptstate[k] = "alloc",
         NEW b \in Live, Put(p, k, b), NEW s, HasRoom(p, k, s),
         ptssem' = [ptssem EXCEPT ![k] = ptssem'[k]], Sound(ptssem'[k]), ptssem'[k].ok = ptssem[k].ok,
         ToSet(ptssem'[k].q) \subseteq ToSet(ptssem[k].q)
  PROVE  PortInv'
<1>0. /\ s \in Int
      /\ \/ cont[p] = Idle /\ s = -1
         \/ Comes(p, "psend", k) /\ s = 0 /\ p \notin ToSet(ptssem[k].q)
      /\ ptssem[k].ok => ptssem'[k].n = ptssem[k].n + s
  BY DEF HasRoom
<1> USE <1>0
<1>1. /\ PortTyped /\ PortRight(k) /\ Room(k) /\ cont \in [Procs -> Conts] /\ ptq \in [Ports -> Seq(Live)]
      /\ cont[p] \in Conts /\ Idle \in Conts /\ Idle.op = "user" /\ ptseq[k] \in Nat
  BY ContTypes DEF PortInv, PortTyped, PortRight, PoolInv, PoolTyped
<1>2. /\ cont[p].op \in {"user"} \cup SendOps /\ (~About(cont[p], k) => cont[p].op \notin SendOps \cup ClearOp)
      /\ cont[p] = Idle \/ (cont[p].op \in SendOps /\ cont[p].on = k /\ cont[p].n = ptseq[k])
      /\ cont[p].op \in {"user", "psend"}
  BY <1>1 DEF Comes, SendOps, ClearOp, About
<1>3. p \notin ToSet(ptssem[k].q) /\ p \notin ToSet(ptrsem[k].q) /\ Sound(ptrsem[k])
  BY <1>1, <1>2 DEF PortRight, Waiting
<1>4. /\ ptmaxcnt'[k] = ptmaxcnt[k] /\ lostS'[k] = lostS[k] /\ lostR'[k] = lostR[k] /\ ptseq'[k] = ptseq[k]
  BY DEF SendFrame
<1>5. CASE ptfree = 0
  <2>1. panicked' /\ UNCHANGED <<ptq, ptrsem, cont>>
    BY <1>5 DEF Put
  <2>2. Then(p, cont[p])
    BY <1>1, <2>1 DEF Then
  <2>3. PortRight(k)'
    <3>1. cont[p].op = "psend" => ptssem[k].ok
      BY <1>1, <1>2 DEF PortRight, RestOk, SendOps, ClearOp
    <3>2. QED  BY <1>1, <1>2, <1>3, <2>1, <2>2, <3>1, SendKeeps
  <2>4. ptrsem' = [ptrsem EXCEPT ![k] = ptrsem'[k]] /\ ptq' = [ptq EXCEPT ![k] = ptq'[k]]
    BY <1>1, <2>1 DEF PortTyped
  <2>5. Sound(ptrsem'[k]) /\ panicked' = TRUE
    <3>1. panicked' = TRUE
      BY <1>5 DEF Put
    <3>2. QED  BY <1>3, <2>1, <3>1
  <2>6. /\ ~About(cont[p], k) => cont[p].op \notin SendOps \cup ClearOp
        /\ cont[p] \in Conts /\ MayPanic
    BY <1>1, <1>2, <2>5 DEF MayPanic
  <2>7. QED  BY <2>2, <2>3, <2>4, <2>5, <2>6, OnePort
<1>6. CASE ptfree # 0
  <2>1. /\ Then(p, Idle) /\ ptq' = [ptq EXCEPT ![k] = Append(@, b)] /\ UNCHANGED panicked
        /\ ptrsem' = [ptrsem EXCEPT ![k] = Signaled(@)]
    BY <1>6 DEF Put
  <2>2. ptq'[k] = Append(ptq[k], b) /\ ptrsem'[k] = Signaled(ptrsem[k])
    BY <1>1, <2>1 DEF PortTyped
  <2>3. /\ Sound(ptrsem'[k]) /\ ptrsem'[k].ok = ptrsem[k].ok
        /\ ptrsem[k].ok => ptrsem'[k].n = ptrsem[k].n + 1
        /\ ToSet(ptrsem'[k].q) \subseteq ToSet(ptrsem[k].q)
    <3> DEFINE old == ptrsem[k]
               new == ptrsem'[k]
    <3>1. Sound(old) /\ new = Signaled(old)
      BY <1>3, <2>2
    <3> HIDE DEF old, new
    <3>2. /\ Sound(new) /\ new.ok = old.ok /\ new.n = (IF old.ok THEN old.n + 1 ELSE old.n)
          /\ ToSet(new.q) \subseteq ToSet(old.q)
      BY <3>1, SignaledSound
    <3>3. old.ok => new.n = old.n + 1
      BY <3>2
    <3>4. QED  BY <3>2, <3>3 DEF old, new
  <2>4. Len(ptq'[k]) = Len(ptq[k]) + 1
    <3>1. ptq[k] \in Seq(Live)
      BY <1>1
    <3>2. QED  BY <2>2, <3>1
  <2>5. Idle.op \notin SendOps /\ Cardinality(Sending(k)) \in Nat /\ Cardinality(Receiving(k)) \in Nat
    BY <1>1, HavingCounted DEF SendOps, Sending, Receiving
  <2>6. /\ Cardinality(Sending(k)') = Cardinality(Sending(k)) + (-1 - s)
        /\ Cardinality(Receiving(k)') = Cardinality(Receiving(k))
    <3>1. ~At(p, "preceive") /\ Idle.op # "preceive" /\ Idle.op # "psend"
      BY <1>1, <1>2 DEF At
    <3>2. /\ Cardinality(Sending(k)') = Cardinality(Sending(k))
               - (IF At(p, "psend") /\ cont[p].on = k /\ cont[p].n = ptseq[k] THEN 1 ELSE 0)
          /\ Cardinality(Receiving(k)') = Cardinality(Receiving(k))
      <4>1. /\ Cardinality(Sending(k)') = Cardinality(Sending(k))
                 - (IF At(p, "psend") /\ cont[p].on = k /\ cont[p].n = ptseq[k] THEN 1 ELSE 0)
                 + (IF Idle.op = "psend" /\ Idle.on = k /\ Idle.n = ptseq[k] THEN 1 ELSE 0)
            /\ Cardinality(Receiving(k)') = Cardinality(Receiving(k))
                 - (IF At(p, "preceive") /\ cont[p].on = k /\ cont[p].n = ptseq[k] THEN 1 ELSE 0)
                 + (IF Idle.op = "preceive" /\ Idle.on = k /\ Idle.n = ptseq[k] THEN 1 ELSE 0)
        BY <1>1, <1>4, <2>1, PortMoves
      <4>2. QED  BY <2>5, <3>1, <4>1    <3>3. CASE cont[p] = Idle /\ s = -1
      BY <1>1, <2>5, <3>2, <3>3 DEF At
    <3>4. CASE Comes(p, "psend", k) /\ s = 0
      BY <2>5, <3>2, <3>4 DEF At, Comes
    <3>5. QED  BY <3>2, <3>3, <3>4
  <2>7. Room(k)'
    <3>1. Balanced(s, -1 - s, 1, 1, 0)
      BY DEF Balanced
    <3>2. Cardinality(Receiving(k)') = Cardinality(Receiving(k)) + 0
      BY <2>5, <2>6
    <3>3. QED  BY <1>1, <1>4, <2>3, <2>4, <2>5, <2>6, <3>1, <3>2, RoomMoves
  <2>8. PortRight(k)'
    BY <1>1, <1>2, <1>3, <2>1, <2>3, <2>7, SendKeeps
  <2>9. ptrsem' = [ptrsem EXCEPT ![k] = ptrsem'[k]] /\ ptq' = [ptq EXCEPT ![k] = ptq'[k]]
    BY <2>1, <2>2
  <2>10. MayPanic /\ Idle.op \notin SendOps \cup ClearOp
    BY <1>1, <2>1 DEF MayPanic, PortTyped, SendOps, ClearOp
  <2>11. QED  BY <1>1, <1>2, <2>1, <2>3, <2>8, <2>9, <2>10, OnePort
<1>7. QED  BY <1>5, <1>6

LEMMA TakePort ==
  ASSUME PortInv, PoolInv', SendFrame, ~panicked, UNCHANGED panicked, NEW p \in Procs, NEW k \in Ports,
         ptstate[k] = "alloc", ptq[k] # <<>>, Take(p, k), Then(p, Idle), NEW r, HasMessage(p, k, r),
         ptrsem' = [ptrsem EXCEPT ![k] = ptrsem'[k]], Sound(ptrsem'[k]), ptrsem'[k].ok = ptrsem[k].ok,
         ToSet(ptrsem'[k].q) \subseteq ToSet(ptrsem[k].q)
  PROVE  PortInv'
<1>0. /\ r \in Int
      /\ \/ cont[p] = Idle /\ r = -1
         \/ Comes(p, "preceive", k) /\ r = 0 /\ p \notin ToSet(ptrsem[k].q)
      /\ ptrsem[k].ok => ptrsem'[k].n = ptrsem[k].n + r
  BY DEF HasMessage
<1> USE <1>0
<1>1. /\ PortTyped /\ PortRight(k) /\ Room(k) /\ cont \in [Procs -> Conts] /\ ptq \in [Ports -> Seq(Live)]
      /\ cont[p] \in Conts /\ Idle \in Conts /\ Idle.op = "user" /\ ptseq[k] \in Nat
  BY ContTypes DEF PortInv, PortTyped, PortRight, PoolInv, PoolTyped
<1>2. /\ cont[p].op \in {"user"} \cup SendOps /\ (~About(cont[p], k) => cont[p].op \notin SendOps \cup ClearOp)
      /\ cont[p].op \in {"user", "preceive"}
  BY <1>1 DEF Comes, SendOps, ClearOp, About
<1>3. p \notin ToSet(ptssem[k].q) /\ p \notin ToSet(ptrsem[k].q) /\ Sound(ptssem[k])
  BY <1>1, <1>2 DEF PortRight, Waiting
<1>4. /\ ptmaxcnt'[k] = ptmaxcnt[k] /\ lostS'[k] = lostS[k] /\ lostR'[k] = lostR[k] /\ ptseq'[k] = ptseq[k]
  BY DEF SendFrame
<1>5. /\ ptq' = [ptq EXCEPT ![k] = Tail(@)] /\ ptssem' = [ptssem EXCEPT ![k] = Signaled(@)]
      /\ ptq'[k] = Tail(ptq[k]) /\ ptssem'[k] = Signaled(ptssem[k])
  BY <1>1 DEF Take, PortTyped
<1>6. /\ Sound(ptssem'[k]) /\ ptssem'[k].ok = ptssem[k].ok
      /\ ptssem[k].ok => ptssem'[k].n = ptssem[k].n + 1
      /\ ToSet(ptssem'[k].q) \subseteq ToSet(ptssem[k].q)
  BY <1>3, <1>5, SignaledSound
<1>7. Len(ptq'[k]) = Len(ptq[k]) + (-1)
  <2>1. ptq[k] \in Seq(Live) /\ Len(ptq[k]) \in Nat
    BY <1>1
  <2>2. Len(Tail(ptq[k])) = Len(ptq[k]) - 1
    BY <2>1
  <2>3. QED  BY <1>5, <2>1, <2>2
<1>8. Idle.op \notin SendOps /\ Cardinality(Sending(k)) \in Nat /\ Cardinality(Receiving(k)) \in Nat
  BY <1>1, HavingCounted DEF SendOps, Sending, Receiving
<1>9. /\ Cardinality(Receiving(k)') = Cardinality(Receiving(k)) + (-1 - r)
      /\ Cardinality(Sending(k)') = Cardinality(Sending(k))
  <2>1. ~At(p, "psend") /\ Idle.op # "preceive" /\ Idle.op # "psend"
    BY <1>1, <1>2 DEF At
  <2>2. /\ Cardinality(Receiving(k)') = Cardinality(Receiving(k))
             - (IF At(p, "preceive") /\ cont[p].on = k /\ cont[p].n = ptseq[k] THEN 1 ELSE 0)
        /\ Cardinality(Sending(k)') = Cardinality(Sending(k))
    BY <1>1, <1>4, <1>8, <2>1, PortMoves
  <2>3. CASE cont[p] = Idle /\ r = -1
    BY <1>1, <1>8, <2>2, <2>3 DEF At
  <2>4. CASE Comes(p, "preceive", k) /\ r = 0
    BY <1>8, <2>2, <2>4 DEF At, Comes
  <2>5. QED  BY <2>2, <2>3, <2>4
<1>10. Room(k)'
  <2>1. Balanced(1, 0, -1, r, -1 - r)
    BY DEF Balanced
  <2>2. Cardinality(Sending(k)') = Cardinality(Sending(k)) + 0
    BY <1>8, <1>9
  <2>3. QED  BY <1>1, <1>4, <1>6, <1>7, <1>8, <1>9, <2>1, <2>2, RoomMoves
<1>11. PortRight(k)'
  BY <1>1, <1>2, <1>3, <1>6, <1>10, SendKeeps
<1>12. ptssem' = [ptssem EXCEPT ![k] = ptssem'[k]] /\ ptq' = [ptq EXCEPT ![k] = ptq'[k]]
  BY <1>5
<1>13. MayPanic /\ Idle.op \notin SendOps \cup ClearOp
  BY <1>1 DEF MayPanic, PortTyped, SendOps, ClearOp
<1>14. QED  BY <1>1, <1>2, <1>6, <1>11, <1>12, <1>13, OnePort

LEMMA BlockedSender ==
  ASSUME PortInv, PoolInv', SendFrame, NEW p \in Procs, cont[p] = Idle, NEW k \in Ports, ptstate[k] = "alloc",
         ~panicked, NEW c \in Conts, c.op = "psend", c.on = k, c.n = ptseq[k], Then(p, c),
         ptssem[k].ok, Blocks(ptssem[k]), ptssem' = [ptssem EXCEPT ![k] = Waited(@, p)],
         UNCHANGED <<ptq, ptrsem, panicked>>
  PROVE  PortInv'
<1>1. /\ PortTyped /\ PortRight(k) /\ Room(k) /\ ptq \in [Ports -> Seq(Live)] /\ Idle.op = "user"
  BY ContTypes DEF PortInv, PortTyped, PortRight, PoolInv, PoolTyped
<1>2. p \notin ToSet(ptssem[k].q) /\ p \notin ToSet(ptrsem[k].q) /\ Sound(ptssem[k]) /\ Sound(ptrsem[k])
  BY <1>1 DEF PortRight, Waiting
<1>3. /\ ptssem'[k] = Waited(ptssem[k], p) /\ ptssem' = [ptssem EXCEPT ![k] = ptssem'[k]]
      /\ ptrsem' = [ptrsem EXCEPT ![k] = ptrsem'[k]] /\ ptq' = [ptq EXCEPT ![k] = ptq'[k]]
  BY <1>1 DEF PortTyped
<1>4. /\ Sound(ptssem'[k]) /\ ptssem'[k].ok = ptssem[k].ok
      /\ ptssem[k].ok => ptssem'[k].n = ptssem[k].n + (-1)
      /\ ToSet(ptssem'[k].q) \subseteq ToSet(ptssem[k].q) \cup {p}
  <2> DEFINE old == ptssem[k]
             new == ptssem'[k]
  <2>1. Sound(old) /\ new = Waited(old, p) /\ p \notin ToSet(old.q)
    BY <1>2, <1>3
  <2> HIDE DEF old, new
  <2>2. /\ Sound(new) /\ new.ok = old.ok /\ new.n = (IF old.ok THEN old.n - 1 ELSE old.n)
        /\ ToSet(new.q) = IF Blocks(old) THEN ToSet(old.q) \cup {p} ELSE ToSet(old.q)
    BY <2>1, WaitedSound
  <2>3. old.n \in Int
    BY <2>1, SoundFacts
  <2>4. (old.ok => new.n = old.n + (-1)) /\ ToSet(new.q) \subseteq ToSet(old.q) \cup {p}
    BY <2>2, <2>3
  <2>5. QED  BY <2>2, <2>4 DEF old, new
<1>5. /\ ptmaxcnt'[k] = ptmaxcnt[k] /\ lostS'[k] = lostS[k] /\ lostR'[k] = lostR[k] /\ ptseq'[k] = ptseq[k]
      /\ ptrsem'[k] = ptrsem[k] /\ ptq'[k] = ptq[k]
  BY DEF SendFrame
<1>6. Cardinality(Sending(k)) \in Nat /\ Cardinality(Receiving(k)) \in Nat
  BY HavingCounted DEF Sending, Receiving
<1>7. /\ Cardinality(Sending(k)') = Cardinality(Sending(k)) + 1
      /\ Cardinality(Receiving(k)') = Cardinality(Receiving(k)) + 0
  <2>1. ~At(p, "psend") /\ ~At(p, "preceive") /\ c.op # "preceive"
    BY <1>1 DEF At
  <2>2. /\ Cardinality(Sending(k)') = Cardinality(Sending(k)) - 0 + 1
        /\ Cardinality(Receiving(k)') = Cardinality(Receiving(k)) - 0 + 0
    BY <1>5, <2>1, PortMoves
  <2>3. QED  BY <1>6, <2>2
<1>8. Room(k)'
  <2>1. Balanced(-1, 1, 0, 0, 0)
    BY DEF Balanced
  <2>2. Len(ptq[k]) \in Nat /\ ptrsem[k].n \in Int
    BY <1>1, <1>2, SoundFacts
  <2>3. Len(ptq'[k]) = Len(ptq[k]) + 0 /\ ptrsem'[k].n = ptrsem[k].n + 0 /\ ptrsem'[k].ok = ptrsem[k].ok
    BY <1>5, <2>2
  <2>4. QED  BY <1>1, <1>4, <1>5, <1>6, <1>7, <2>1, <2>3, RoomMoves
<1>9. PortRight(k)'
  <2>1. cont[p].op \in {"user"} \cup SendOps /\ c.op \in SendOps /\ Sound(ptrsem'[k])
        /\ ToSet(ptrsem'[k].q) \subseteq ToSet(ptrsem[k].q) \cup {}
    BY <1>1, <1>2, <1>5 DEF SendOps
  <2>2. QED  BY <1>2, <1>4, <1>8, <2>1, SendKeeps
<1>10. MayPanic /\ cont[p].op \notin SendOps \cup ClearOp /\ About(c, k)
  BY <1>1 DEF MayPanic, SendOps, ClearOp, About
<1>11. Sound(ptrsem'[k])
  BY <1>2, <1>5
<1>12. QED  BY <1>3, <1>4, <1>9, <1>10, <1>11, OnePort

LEMMA BlockedReceiver ==
  ASSUME PortInv, PoolInv', SendFrame, NEW p \in Procs, cont[p] = Idle, NEW k \in Ports, ptstate[k] = "alloc",
         ~panicked, NEW c \in Conts, c.op = "preceive", c.on = k, c.n = ptseq[k], Then(p, c),
         ptrsem[k].ok, Blocks(ptrsem[k]), ptrsem' = [ptrsem EXCEPT ![k] = Waited(@, p)],
         UNCHANGED <<ptq, ptssem, panicked>>
  PROVE  PortInv'
<1>1. /\ PortTyped /\ PortRight(k) /\ Room(k) /\ ptq \in [Ports -> Seq(Live)] /\ Idle.op = "user"
  BY ContTypes DEF PortInv, PortTyped, PortRight, PoolInv, PoolTyped
<1>2. p \notin ToSet(ptssem[k].q) /\ p \notin ToSet(ptrsem[k].q) /\ Sound(ptssem[k]) /\ Sound(ptrsem[k])
  BY <1>1 DEF PortRight, Waiting
<1>3. /\ ptrsem'[k] = Waited(ptrsem[k], p) /\ ptrsem' = [ptrsem EXCEPT ![k] = ptrsem'[k]]
      /\ ptssem' = [ptssem EXCEPT ![k] = ptssem'[k]] /\ ptq' = [ptq EXCEPT ![k] = ptq'[k]]
  BY <1>1 DEF PortTyped
<1>4. /\ Sound(ptrsem'[k]) /\ ptrsem'[k].ok = ptrsem[k].ok
      /\ ptrsem[k].ok => ptrsem'[k].n = ptrsem[k].n + (-1)
      /\ ToSet(ptrsem'[k].q) \subseteq ToSet(ptrsem[k].q) \cup {p}
  <2> DEFINE old == ptrsem[k]
             new == ptrsem'[k]
  <2>1. Sound(old) /\ new = Waited(old, p) /\ p \notin ToSet(old.q)
    BY <1>2, <1>3
  <2> HIDE DEF old, new
  <2>2. /\ Sound(new) /\ new.ok = old.ok /\ new.n = (IF old.ok THEN old.n - 1 ELSE old.n)
        /\ ToSet(new.q) = IF Blocks(old) THEN ToSet(old.q) \cup {p} ELSE ToSet(old.q)
    BY <2>1, WaitedSound
  <2>3. old.n \in Int
    BY <2>1, SoundFacts
  <2>4. (old.ok => new.n = old.n + (-1)) /\ ToSet(new.q) \subseteq ToSet(old.q) \cup {p}
    BY <2>2, <2>3
  <2>5. QED  BY <2>2, <2>4 DEF old, new
<1>5. /\ ptmaxcnt'[k] = ptmaxcnt[k] /\ lostS'[k] = lostS[k] /\ lostR'[k] = lostR[k] /\ ptseq'[k] = ptseq[k]
      /\ ptssem'[k] = ptssem[k] /\ ptq'[k] = ptq[k]
  BY DEF SendFrame
<1>6. Cardinality(Sending(k)) \in Nat /\ Cardinality(Receiving(k)) \in Nat
  BY HavingCounted DEF Sending, Receiving
<1>7. /\ Cardinality(Sending(k)') = Cardinality(Sending(k)) + 0
      /\ Cardinality(Receiving(k)') = Cardinality(Receiving(k)) + 1
  <2>1. ~At(p, "psend") /\ ~At(p, "preceive") /\ c.op # "psend"
    BY <1>1 DEF At
  <2>2. /\ Cardinality(Sending(k)') = Cardinality(Sending(k)) - 0 + 0
        /\ Cardinality(Receiving(k)') = Cardinality(Receiving(k)) - 0 + 1
    BY <1>5, <2>1, PortMoves
  <2>3. QED  BY <1>6, <2>2
<1>8. Room(k)'
  <2>1. Balanced(0, 0, 0, -1, 1)
    BY DEF Balanced
  <2>2. Len(ptq[k]) \in Nat /\ ptssem[k].n \in Int
    BY <1>1, <1>2, SoundFacts
  <2>3. Len(ptq'[k]) = Len(ptq[k]) + 0 /\ ptssem'[k].n = ptssem[k].n + 0 /\ ptssem'[k].ok = ptssem[k].ok
    BY <1>5, <2>2
  <2>4. QED  BY <1>1, <1>4, <1>5, <1>6, <1>7, <2>1, <2>3, RoomMoves
<1>9. PortRight(k)'
  <2>1. cont[p].op \in {"user"} \cup SendOps /\ c.op \in SendOps /\ Sound(ptssem'[k])
        /\ ToSet(ptssem'[k].q) \subseteq ToSet(ptssem[k].q) \cup {}
    BY <1>1, <1>2, <1>5 DEF SendOps
  <2>2. QED  BY <1>2, <1>4, <1>8, <2>1, SendKeeps
<1>10. MayPanic /\ cont[p].op \notin SendOps \cup ClearOp /\ About(c, k)
  BY <1>1 DEF MayPanic, SendOps, ClearOp, About
<1>11. Sound(ptssem'[k])
  BY <1>2, <1>5
<1>12. QED  BY <1>3, <1>4, <1>9, <1>10, <1>11, OnePort

LEMMA PsendPorts ==
  ASSUME PortInv, PoolInv', ~panicked, NEW p \in Procs, NEW k \in Ports, NEW b \in Bufs, Psend(p, k, b)
  PROVE  PortInv'
<1>1. /\ PortTyped /\ PortRight(k) /\ PoolTyped /\ cont[p] = Idle /\ Idle.op = "user" /\ ptstate[k] = "alloc"
      /\ ptssem[k].ok /\ b \in held[p]
  BY ContTypes DEF PortInv, PortTyped, PortRight, PoolInv, Psend, Call
<1>2. SendFrame
  BY DEF Psend, SendUnchanged, tableVars, markVars, lostVars, SendFrame
<1>3. p \notin ToSet(ptssem[k].q) /\ Sound(ptssem[k])
  BY <1>1 DEF PortRight, Waiting
<1>4. ptssem' = [ptssem EXCEPT ![k] = Waited(@, p)] /\ ptssem'[k] = Waited(ptssem[k], p)
  BY <1>1 DEF Psend, PortTyped
<1>5. CASE Blocks(ptssem[k])
  <2> DEFINE c == Do("psend", k, b, ptseq[k])
  <2>1. c \in Conts /\ c.op = "psend" /\ c.on = k /\ c.n = ptseq[k]
    BY <1>1 DEF Do, Conts, ClientOps, Ports, PortTyped
  <2>2. Then(p, c) /\ UNCHANGED <<ptq, ptrsem, panicked>>
    BY <1>5 DEF Psend
  <2> HIDE DEF c
  <2>3. QED  BY <1>1, <1>2, <1>4, <1>5, <2>1, <2>2, BlockedSender
<1>6. CASE ~Blocks(ptssem[k])
  <2>1. Put(p, k, b) /\ b \in Live
    BY <1>1, <1>6 DEF Psend, PoolTyped
  <2>2. /\ Sound(ptssem'[k]) /\ ptssem'[k].ok = ptssem[k].ok
        /\ ToSet(ptssem'[k].q) \subseteq ToSet(ptssem[k].q)
        /\ ptssem[k].ok => ptssem'[k].n = ptssem[k].n + (-1)
    <3> DEFINE old == ptssem[k]
               new == ptssem'[k]
    <3>1. Sound(old) /\ new = Waited(old, p) /\ p \notin ToSet(old.q) /\ ~Blocks(old)
      BY <1>3, <1>4, <1>6
    <3> HIDE DEF old, new
    <3>2. /\ Sound(new) /\ new.ok = old.ok /\ new.n = (IF old.ok THEN old.n - 1 ELSE old.n)
          /\ ToSet(new.q) = IF Blocks(old) THEN ToSet(old.q) \cup {p} ELSE ToSet(old.q)
      BY <3>1, WaitedSound
    <3>3. old.n \in Int
      BY <3>1, SoundFacts
    <3>4. (old.ok => new.n = old.n + (-1)) /\ ToSet(new.q) \subseteq ToSet(old.q)
      BY <3>1, <3>2, <3>3
    <3>5. QED  BY <3>2, <3>4 DEF old, new
  <2>3. ptssem' = [ptssem EXCEPT ![k] = ptssem'[k]] /\ HasRoom(p, k, -1)
    <3>1. ptssem' = [ptssem EXCEPT ![k] = ptssem'[k]]
      BY <1>4
    <3>2. -1 \in Int
      OBVIOUS
    <3>3. HasRoom(p, k, -1)
      BY ONLY <1>1, <2>2, <3>2 DEF HasRoom
    <3>4. QED  BY <3>1, <3>3
  <2>4. QED  BY <1>1, <1>2, <2>1, <2>2, <2>3, PutPort
<1>7. QED  BY <1>5, <1>6

LEMMA PreceivePorts ==
  ASSUME PortInv, PoolInv', ~panicked, NEW p \in Procs, NEW k \in Ports, Preceive(p, k)
  PROVE  PortInv'
<1>1. /\ PortTyped /\ PortRight(k) /\ PoolTyped /\ cont[p] = Idle /\ Idle.op = "user" /\ ptstate[k] = "alloc"
      /\ ptrsem[k].ok /\ UNCHANGED panicked
  BY ContTypes DEF PortInv, PortTyped, PortRight, PoolInv, Preceive, Call
<1>2. SendFrame
  BY DEF Preceive, SendUnchanged, tableVars, markVars, lostVars, SendFrame
<1>3. p \notin ToSet(ptrsem[k].q) /\ Sound(ptrsem[k])
  BY <1>1 DEF PortRight, Waiting
<1>4. ptrsem' = [ptrsem EXCEPT ![k] = Waited(@, p)] /\ ptrsem'[k] = Waited(ptrsem[k], p)
  BY <1>1 DEF Preceive, PortTyped
<1>5. CASE Blocks(ptrsem[k])
  <2> DEFINE c == Do("preceive", k, <<>>, ptseq[k])
  <2>1. c \in Conts /\ c.op = "preceive" /\ c.on = k /\ c.n = ptseq[k]
    BY <1>1 DEF Do, Conts, ClientOps, Ports, PortTyped
  <2>2. Then(p, c) /\ UNCHANGED <<ptq, ptssem, panicked>>
    BY <1>1, <1>5 DEF Preceive
  <2> HIDE DEF c
  <2>3. QED  BY <1>1, <1>2, <1>4, <1>5, <2>1, <2>2, BlockedReceiver
<1>6. CASE ~Blocks(ptrsem[k])
  <2>1. Then(p, Idle) /\ ptq[k] # <<>> /\ Take(p, k)
    BY <1>1, <1>6 DEF Preceive
  <2>2. /\ Sound(ptrsem'[k]) /\ ptrsem'[k].ok = ptrsem[k].ok
        /\ ToSet(ptrsem'[k].q) \subseteq ToSet(ptrsem[k].q)
        /\ ptrsem[k].ok => ptrsem'[k].n = ptrsem[k].n + (-1)
    <3> DEFINE old == ptrsem[k]
               new == ptrsem'[k]
    <3>1. Sound(old) /\ new = Waited(old, p) /\ p \notin ToSet(old.q) /\ ~Blocks(old)
      BY <1>3, <1>4, <1>6
    <3> HIDE DEF old, new
    <3>2. /\ Sound(new) /\ new.ok = old.ok /\ new.n = (IF old.ok THEN old.n - 1 ELSE old.n)
          /\ ToSet(new.q) = IF Blocks(old) THEN ToSet(old.q) \cup {p} ELSE ToSet(old.q)
      BY <3>1, WaitedSound
    <3>3. old.n \in Int
      BY <3>1, SoundFacts
    <3>4. (old.ok => new.n = old.n + (-1)) /\ ToSet(new.q) \subseteq ToSet(old.q)
      BY <3>1, <3>2, <3>3
    <3>5. QED  BY <3>2, <3>4 DEF old, new
  <2>3. ptrsem' = [ptrsem EXCEPT ![k] = ptrsem'[k]] /\ HasMessage(p, k, -1)
    <3>1. ptrsem' = [ptrsem EXCEPT ![k] = ptrsem'[k]]
      BY <1>4
    <3>2. -1 \in Int
      OBVIOUS
    <3>3. HasMessage(p, k, -1)
      BY ONLY <1>1, <2>2, <3>2 DEF HasMessage
    <3>4. QED  BY <3>1, <3>3
  <2>4. QED  BY <1>1, <1>2, <2>1, <2>2, <2>3, TakePort
<1>7. QED  BY <1>5, <1>6

\* A sender or receiver that finds its port cleared or created anew only leaves.
LEMMA LeavePort ==
  ASSUME PortInv, PoolInv', SendFrame, NEW p \in Procs, Then(p, Idle), NEW k \in Ports,
         cont[p].op \in SendOps, cont[p].on = k, cont[p].n # ptseq[k] \/ ptstate[k] # "alloc",
         p \notin ToSet(ptssem[k].q), p \notin ToSet(ptrsem[k].q),
         UNCHANGED <<ptq, ptssem, ptrsem, panicked>>
  PROVE  PortInv'
<1>1. /\ PortTyped /\ PortRight(k) /\ ptq \in [Ports -> Seq(Live)] /\ Idle \in Conts /\ Idle.op = "user"
      /\ Idle.op \notin SendOps \cup ClearOp
  BY ContTypes DEF PortInv, PoolInv, PoolTyped, SendOps, ClearOp
<1>2. /\ ptssem'[k] = ptssem[k] /\ ptrsem'[k] = ptrsem[k] /\ ptq'[k] = ptq[k] /\ ptseq'[k] = ptseq[k]
      /\ ptmaxcnt'[k] = ptmaxcnt[k] /\ lostS'[k] = lostS[k] /\ lostR'[k] = lostR[k]
      /\ Sound(ptssem'[k]) /\ Sound(ptrsem'[k])
  BY <1>1 DEF SendFrame, PortRight
<1>3. ASSUME ptstate[k] = "alloc", Room(k) PROVE Room(k)'
  <2>1. cont[p].n # ptseq[k] /\ Idle.op # "psend" /\ Idle.op # "preceive"
    BY <1>1, <1>3
  <2>2. /\ Cardinality(Sending(k)') = Cardinality(Sending(k))
        /\ Cardinality(Receiving(k)') = Cardinality(Receiving(k))
    BY <1>1, <1>2, <2>1, PortMoves
  <2>3. QED  BY <1>2, <1>3, <2>2 DEF Room
<1>4. PortRight(k)'
  <2>1. ~panicked' /\ ptstate[k] = "alloc" => Room(k)'
    BY <1>1, <1>3 DEF PortRight
  <2>2. /\ ToSet(ptssem'[k].q) \subseteq ToSet(ptssem[k].q) \cup (IF Idle.op = "psend" THEN {p} ELSE {})
        /\ ToSet(ptrsem'[k].q) \subseteq ToSet(ptrsem[k].q) \cup (IF Idle.op = "preceive" THEN {p} ELSE {})
    BY <1>2
  <2>3. cont[p].op \in {"user"} \cup SendOps
    OBVIOUS
  <2>4. QED  BY <1>1, <1>2, <2>1, <2>2, <2>3, SendKeeps
<1>5. /\ ptssem' = [ptssem EXCEPT ![k] = ptssem'[k]] /\ ptrsem' = [ptrsem EXCEPT ![k] = ptrsem'[k]]
      /\ ptq' = [ptq EXCEPT ![k] = ptq'[k]] /\ MayPanic
  BY <1>1 DEF PortTyped, MayPanic
<1>6. About(cont[p], k)
  BY DEF About
<1>7. QED  BY <1>1, <1>2, <1>4, <1>5, <1>6, OnePort

LEMMA FinishPsendPorts ==
  ASSUME PortInv, PoolInv', ~panicked, NEW p \in Procs, FinishPsend(p)
  PROVE  PortInv'
<1>1. /\ PortTyped /\ PoolTyped /\ Placed(p) /\ cont[p] \in Conts /\ cont[p].op = "psend"
      /\ UNCHANGED ptssem
  BY DEF PortInv, PoolInv, PoolTyped, FinishPsend, At
<1>2. PICK k \in Ports : k = cont[p].on
  BY <1>1 DEF Placed
<1>3. SendFrame /\ PortRight(k)
  BY DEF FinishPsend, SendUnchanged, tableVars, markVars, lostVars, SendFrame, PortInv
<1>4. Sound(ptssem[k]) /\ ptssem[k].q \in Seq(Procs) /\ ptssem[k].n \in Int
  BY <1>3, SoundFacts DEF PortRight
<1>5. p \notin ToSet(ptssem[k].q) /\ p \notin ToSet(ptrsem[k].q)
  <2>1. ~Contains(ptssem[k].q, p)
    BY <1>2 DEF FinishPsend
  <2>2. p \notin ToSet(ptssem[k].q)
    BY <1>4, <2>1, ContainsSet
  <2>3. p \notin ToSet(ptrsem[k].q)
    BY <1>1, <1>3 DEF PortRight, Waiting
  <2>4. QED  BY <2>2, <2>3
<1>6. CASE Still(p)
  <2>1. Put(p, k, cont[p].buf) /\ ptstate[k] = "alloc" /\ Comes(p, "psend", k)
    BY <1>1, <1>2, <1>6 DEF FinishPsend, Still, Comes
  <2>2. cont[p].buf \in Live
    BY <1>1 DEF Placed, PoolTyped
  <2>3. /\ ptssem' = [ptssem EXCEPT ![k] = ptssem'[k]] /\ Sound(ptssem'[k]) /\ ptssem'[k].ok = ptssem[k].ok
        /\ ToSet(ptssem'[k].q) \subseteq ToSet(ptssem[k].q) /\ HasRoom(p, k, 0)
    BY <1>1, <1>4, <1>5, <2>1 DEF PortTyped, HasRoom
  <2>4. QED  BY <1>3, <1>5, <2>1, <2>2, <2>3, PutPort
<1>7. CASE ~Still(p)
  <2>1. Then(p, Idle) /\ UNCHANGED <<ptq, ptssem, ptrsem, panicked>>
    BY <1>1, <1>7 DEF FinishPsend
  <2>2. (cont[p].n # ptseq[k] \/ ptstate[k] # "alloc") /\ cont[p].op \in SendOps
    BY <1>1, <1>2, <1>7 DEF Still, SendOps
  <2>3. QED  BY <1>2, <1>3, <1>5, <2>1, <2>2, LeavePort
<1>8. QED  BY <1>6, <1>7

LEMMA FinishPreceivePorts ==
  ASSUME PortInv, PoolInv', ~panicked, NEW p \in Procs, FinishPreceive(p)
  PROVE  PortInv'
<1>1. /\ PortTyped /\ PoolTyped /\ Placed(p) /\ cont[p] \in Conts /\ cont[p].op = "preceive"
      /\ UNCHANGED <<ptrsem, panicked>> /\ Then(p, Idle)
  BY DEF PortInv, PoolInv, PoolTyped, FinishPreceive, At
<1>2. PICK k \in Ports : k = cont[p].on
  BY <1>1 DEF Placed
<1>3. SendFrame /\ PortRight(k)
  BY DEF FinishPreceive, SendUnchanged, tableVars, markVars, lostVars, SendFrame, PortInv
<1>4. Sound(ptrsem[k]) /\ ptrsem[k].q \in Seq(Procs) /\ ptrsem[k].n \in Int
  BY <1>3, SoundFacts DEF PortRight
<1>5. p \notin ToSet(ptssem[k].q) /\ p \notin ToSet(ptrsem[k].q)
  <2>1. ~Contains(ptrsem[k].q, p)
    BY <1>2 DEF FinishPreceive
  <2>2. p \notin ToSet(ptrsem[k].q)
    BY <1>4, <2>1, ContainsSet
  <2>3. p \notin ToSet(ptssem[k].q)
    BY <1>1, <1>3 DEF PortRight, Waiting
  <2>4. QED  BY <2>2, <2>3
<1>6. CASE Still(p)
  <2>1. ptq[k] # <<>> /\ Take(p, k) /\ ptstate[k] = "alloc" /\ Comes(p, "preceive", k)
    BY <1>1, <1>2, <1>6 DEF FinishPreceive, Still, Comes
  <2>2. /\ ptrsem' = [ptrsem EXCEPT ![k] = ptrsem'[k]] /\ Sound(ptrsem'[k]) /\ ptrsem'[k].ok = ptrsem[k].ok
        /\ ToSet(ptrsem'[k].q) \subseteq ToSet(ptrsem[k].q) /\ HasMessage(p, k, 0)
    BY <1>1, <1>4, <1>5, <2>1 DEF PortTyped, HasMessage
  <2>3. QED  BY <1>1, <1>3, <1>5, <2>1, <2>2, TakePort
<1>7. CASE ~Still(p)
  <2>1. UNCHANGED <<ptq, ptssem, ptrsem, panicked>>
    BY <1>1, <1>7 DEF FinishPreceive
  <2>2. (cont[p].n # ptseq[k] \/ ptstate[k] # "alloc") /\ cont[p].op \in SendOps
    BY <1>1, <1>2, <1>7 DEF Still, SendOps
  <2>3. QED  BY <1>1, <1>2, <1>3, <1>5, <2>1, <2>2, LeavePort
<1>8. QED  BY <1>6, <1>7

LEMMA DoingIs ==
  ASSUME NEW state, NEW s, NEW r, NEW left, NEW op
  PROVE  LET d == Doing(state, s, r, left, op) IN
         d.state = state /\ d.s = s /\ d.r = r /\ d.left = left /\ d.op = op
BY DEF Doing

LEMMA ClearedFresh ==
  ASSUME NEW s, Sound(s), NEW n \in Nat, NEW to \in {"free", "alloc"}
  PROVE  Fresh(Cleared(s, to, n), n)
<1>1. s.q \in Seq(Procs) /\ Len(s.q) = (IF s.ok /\ s.n < 0 THEN -s.n ELSE 0)
  BY SoundFacts
<1>2. ~s.ok => s.q = <<>>
  BY <1>1
<1>3. Cleared(s, to, n) = Sem(n) \/ Cleared(s, to, n) = NoSem \/ (~s.ok /\ Cleared(s, to, n) = s)
  BY DEF Cleared, WasReset
<1>4. /\ Sound(Sem(n)) /\ Sem(n).n = n /\ Sem(n).q = <<>> /\ Sound(NoSem) /\ ~NoSem.ok /\ NoSem.q = <<>>
  BY NewSound
<1>5. QED  BY <1>2, <1>3, <1>4 DEF Fresh

\* Where the steps of a clearing stop: in limbo behind the senders or the receivers that
\* were let go, or with the port free or open, as new.
ClearedOk(d, to, n, r) ==
  /\ d.op \in {"user", "clearR", "clearEnd"} /\ d.state = (IF d.op = "user" THEN to ELSE "limbo")
  /\ Fresh(d.s, n) /\ Sound(d.r) /\ ToSet(d.r.q) \subseteq ToSet(r.q)
  /\ d.op \in {"user", "clearEnd"} => Fresh(d.r, 0)

LEMMA RClearOk ==
  ASSUME NEW s, NEW n, Fresh(s, n), NEW r, Sound(r), NEW to \in {"free", "alloc"}, NEW left, NEW op
  PROVE  ClearedOk(RClear(Doing("limbo", s, r, left, op), to), to, n, r)
<1> DEFINE x == Cleared(r, to, 0)
           y == left + GivenBack(r, to)
           d == RClear(Doing("limbo", s, r, left, op), to)
<1>1. Fresh(x, 0)
  BY ClearedFresh
<1>2. Sound(x) /\ ToSet(x.q) \subseteq ToSet(r.q)
  BY <1>1, EmptyList DEF Fresh
<1>3. d = Doing("limbo", s, x, y, "clearEnd") \/ d = Doing(to, s, x, y, "user")
  BY RClearIs
<1> HIDE DEF x, y, d
<1>4. /\ d.s = s /\ d.r = x
      /\ (d.op = "clearEnd" /\ d.state = "limbo") \/ (d.op = "user" /\ d.state = to)
  BY <1>3, DoingIs
<1>5. ClearedOk(d, to, n, r)
  BY <1>1, <1>2, <1>4 DEF ClearedOk
<1>6. QED  BY <1>5 DEF d

LEMMA SClearOk ==
  ASSUME NEW s, NEW n \in Nat, Sound(s), NEW r, Sound(r), NEW to \in {"free", "alloc"}, NEW left, NEW op
  PROVE  ClearedOk(SClear(Doing("limbo", s, r, left, op), to, n), to, n, r)
<1> DEFINE x == Cleared(s, to, n)
           y == left + GivenBack(s, to)
           d == SClear(Doing("limbo", s, r, left, op), to, n)
           e == Doing("limbo", x, r, y, "clearR")
<1>1. Fresh(x, n)
  BY ClearedFresh
<1>2. d = e \/ d = RClear(e, to)
  BY SClearIs
<1> HIDE DEF x, y, d
<1>3. ClearedOk(RClear(e, to), to, n, r)
  BY <1>1, RClearOk
<1>4. ClearedOk(e, to, n, r)
  <2>1. e.s = x /\ e.r = r /\ e.op = "clearR" /\ e.state = "limbo"
    BY DoingIs
  <2> HIDE DEF e
  <2>2. QED  BY <1>1, <2>1 DEF ClearedOk
<1>5. ClearedOk(d, to, n, r)
  BY <1>2, <1>3, <1>4
<1>6. QED  BY <1>5 DEF d

LEMMA ReopenedOk ==
  ASSUME NEW s, NEW n, Fresh(s, n), NEW r, Fresh(r, 0), NEW to \in {"free", "alloc"}, NEW left, NEW op
  PROVE  ClearedOk(Reopened(Doing("limbo", s, r, left, op), to), to, n, r)
<1> DEFINE d == Reopened(Doing("limbo", s, r, left, op), to)
<1>1. d = Doing(to, s, r, left, "user")
  BY ReopenedIs
<1>2. d.s = s /\ d.r = r /\ d.op = "user" /\ d.state = to
  BY <1>1, DoingIs
<1> HIDE DEF d
<1>3. ClearedOk(d, to, n, r)
  BY <1>2 DEF ClearedOk, Fresh
<1>4. QED  BY <1>3 DEF d

\* A step of a clearing changes one port and lets the processes go that wait there.
Lets(s, t) == Sound(t) /\ ToSet(t.q) \subseteq ToSet(s.q)
OnlyPort(k) == \A j \in Ports \ {k} : PortSame(j)
ClearStep(c, k) ==
  /\ Lets(ptssem[k], ptssem'[k]) /\ Lets(ptrsem[k], ptrsem'[k]) /\ RestOk(c, k)'
  /\ ptstate'[k] \in {"free", "alloc"} =>
       Fresh(ptssem'[k], ptmaxcnt'[k]) /\ Fresh(ptrsem'[k], 0) /\ ptq'[k] = <<>>
  /\ lostS'[k] = 0 /\ lostR'[k] = 0

LEMMA ClearPort ==
  ASSUME PortInv, PoolInv', PortTyped', PinitFirst', UNCHANGED panicked, NEW p \in Procs, NEW c \in Conts, Then(p, c),
         NEW k \in Ports, cont[p].op = "user" \/ Clears(cont[p], k), c.op = "user" \/ Clears(c, k),
         \A q \in Procs \ {p} : ~Clears(cont[q], k), Older(cont, k, ptseq'[k]),
         OnlyPort(k), ClearStep(c, k)
  PROVE  PortInv'
<1>1. /\ PortTyped /\ PortRight(k) /\ cont \in [Procs -> Conts] /\ cont' = [cont EXCEPT ![p] = c]
      /\ ptseq'[k] \in Nat /\ ptstate'[k] \in {"free", "alloc", "limbo"}
  BY DEF PortInv, PortTyped, PoolInv, PoolTyped, Then
<1>2. cont'[p] = c /\ \A q \in Procs \ {p} : cont'[q] = cont[q]
  BY <1>1
<1>3. /\ cont[p].op \notin SendOps /\ c.op \notin SendOps
      /\ cont[p].op \notin {"psend", "preceive"} /\ c.op \notin {"psend", "preceive"}
  BY DEF Clears, SendOps, ClearOp
<1>4. Older(cont', k, ptseq'[k])
  <2>1. Older(cont, k, ptseq'[k])
    OBVIOUS
  <2>2. ASSUME NEW q \in Procs, cont'[q].op \in SendOps, cont'[q].on = k PROVE cont'[q].n < ptseq'[k]
    <3>1. q # p /\ cont'[q] = cont[q]
      BY <1>2, <1>3, <2>2
    <3>2. QED  BY <2>1, <2>2, <3>1 DEF Older
  <2>3. QED  BY <2>2 DEF Older
<1>5. Cardinality(Sending(k)') = 0 /\ Cardinality(Receiving(k)') = 0
  <2>1. /\ Sending(k)' = Having(cont', InSince("psend", k, ptseq'[k]))
        /\ Receiving(k)' = Having(cont', InSince("preceive", k, ptseq'[k]))
        /\ "psend" \in SendOps /\ "preceive" \in SendOps
    BY DEF Sending, Receiving, SendOps
  <2>2. QED  BY <1>1, <1>4, <2>1, NoneSince
<1>6. \A q \in Procs : RestOk(cont[q], k)'
  <2>1. ASSUME NEW q \in Procs \ {p} PROVE RestOk(cont[q], k)'
    <3>1. cont'[q] = cont[q] /\ ~Clears(cont'[q], k) /\ cont'[q] \in Conts
      BY <1>1, <1>2
    <3>2. ASSUME cont'[q].op \in SendOps, cont'[q].on = k
          PROVE  cont'[q].n <= ptseq'[k] /\ cont'[q].n < ptseq'[k] /\ cont'[q].n # ptseq'[k]
      <4>1. cont'[q].n < ptseq'[k] /\ cont'[q].n \in Nat
        BY <1>4, <3>1, <3>2 DEF Older, Conts
      <4>2. QED  BY <1>1, <4>1
    <3>3. QED  BY <3>1, <3>2 DEF RestOk, SendOps
  <2>2. RestOk(cont[p], k)'
    <3>1. RestOk(c, k)'
      BY DEF ClearStep
    <3>2. QED  BY <1>2, <3>1 DEF RestOk
  <2>3. QED  BY <2>1, <2>2
<1>7. OneClears(k)'
  BY <1>2 DEF OneClears, Clears
<1>8. Sound(ptssem'[k]) /\ Sound(ptrsem'[k])
  BY DEF ClearStep, Lets
<1>9. ptstate'[k] = "alloc" => Room(k)'
  <2>1. SUFFICES ASSUME ptstate'[k] = "alloc" PROVE Room(k)'
    OBVIOUS
  <2>2. /\ ptssem'[k].ok => ptssem'[k].n = ptmaxcnt'[k]
        /\ ptrsem'[k].ok => ptrsem'[k].n = 0
        /\ lostS'[k] = 0 /\ lostR'[k] = 0 /\ Len(ptq'[k]) = 0 /\ ptmaxcnt'[k] \in Nat
    BY <2>1, EmptyList DEF ClearStep, Fresh, PortTyped
  <2>3. QED  BY <1>5, <2>2 DEF Room
<1>10. Waiting(ptssem[k], "psend", k)' /\ Waiting(ptrsem[k], "preceive", k)'
  <2>1. /\ ToSet(ptssem[k].q) \subseteq Procs /\ ToSet(ptrsem[k].q) \subseteq Procs
        /\ Waiting(ptssem[k], "psend", k) /\ Waiting(ptrsem[k], "preceive", k)
    BY <1>1, SoundFacts DEF PortRight
  <2>2. ptstate'[k] = "alloc" => ToSet(ptssem'[k].q) = {} /\ ToSet(ptrsem'[k].q) = {}
    BY EmptyList DEF ClearStep, Fresh
  <2>3. ASSUME NEW q \in ToSet(ptssem[k].q) PROVE cont'[q].op = "psend" /\ cont'[q].on = k
    BY <1>2, <1>3, <2>1 DEF Waiting
  <2>4. ASSUME NEW q \in ToSet(ptrsem[k].q) PROVE cont'[q].op = "preceive" /\ cont'[q].on = k
    BY <1>2, <1>3, <2>1 DEF Waiting
  <2>5. QED  BY <2>2, <2>3, <2>4 DEF ClearStep, Lets, Waiting
<1>11. PortRight(k)'
  <2>1. ptstate'[k] = "free" => ptssem'[k].q = <<>> /\ ptrsem'[k].q = <<>>
    BY DEF ClearStep, Fresh
  <2>2. lostS'[k] = 0 /\ lostR'[k] = 0
    BY DEF ClearStep
  <2>3. QED  BY <1>6, <1>7, <1>8, <1>9, <1>10, <2>1, <2>2 DEF PortRight
<1>12. ASSUME NEW j \in Ports \ {k} PROVE PortRight(j)'
  <2>1. PortSame(j) /\ ~About(cont[p], j) /\ ~About(c, j)
    BY DEF OnlyPort, About, Clears, SendOps, ClearOp
  <2>2. QED  BY <2>1, PortUntouched
<1>13. QED  BY <1>11, <1>12 DEF PortInv

\* What a step of a clearing leaves, and what it found: the port was in use.
ClearFrame(k) ==
  /\ UNCHANGED <<ptmaxcnt, ptnextp, panicked, marked, pinits>> /\ ptstate[k] # "free"
  /\ ptseq' \in [Ports -> Nat] /\ lostS' \in [Ports -> Nat] /\ lostR' \in [Ports -> Nat]
  /\ lostS'[k] = 0 /\ lostR'[k] = 0
  /\ \A j \in Ports \ {k} : ptseq'[j] = ptseq[j] /\ lostS'[j] = lostS[j] /\ lostR'[j] = lostR[j]
AloneClears(p, k) ==
  /\ cont[p].op = "user" \/ Clears(cont[p], k)
  /\ \A q \in Procs \ {p} : ~Clears(cont[q], k)

ClearSets(k, state, s, r, q) ==
  /\ state \in {"free", "alloc", "limbo"} /\ Sound(s) /\ Sound(r)
  /\ ptstate' = [ptstate EXCEPT ![k] = state] /\ ptq' = [ptq EXCEPT ![k] = q]
  /\ ptssem' = [ptssem EXCEPT ![k] = s] /\ ptrsem' = [ptrsem EXCEPT ![k] = r]

LEMMA ClearTyped ==
  ASSUME PortInv, NEW k \in Ports, ClearFrame(k),
         NEW state, NEW s, NEW r, NEW q, ClearSets(k, state, s, r, q)
  PROVE  /\ PortTyped' /\ PinitFirst' /\ OnlyPort(k) /\ ptmaxcnt'[k] = ptmaxcnt[k]
         /\ ptstate'[k] = state /\ ptssem'[k] = s /\ ptrsem'[k] = r /\ ptq'[k] = q
<1>0. /\ state \in {"free", "alloc", "limbo"} /\ Sound(s) /\ Sound(r)
      /\ ptstate' = [ptstate EXCEPT ![k] = state] /\ ptq' = [ptq EXCEPT ![k] = q]
      /\ ptssem' = [ptssem EXCEPT ![k] = s] /\ ptrsem' = [ptrsem EXCEPT ![k] = r]
  BY DEF ClearSets
<1> USE <1>0
<1>1. PortTyped /\ PinitFirst /\ ptq \in [Ports -> Seq(Live)] /\ s \in Sems /\ r \in Sems
  BY DEF PortInv, PoolInv, PoolTyped, Sound
<1>2. ptssem' \in [Ports -> Sems] /\ ptrsem' \in [Ports -> Sems] /\ ptstate' \in [Ports -> {"free", "alloc", "limbo"}]
  BY <1>1 DEF PortTyped
<1>3. PortTyped'
  BY <1>1, <1>2 DEF PortTyped, ClearFrame
<1>4. PinitFirst'
  BY <1>1 DEF PinitFirst, ClearFrame
<1>5. ptstate'[k] = state /\ ptssem'[k] = s /\ ptrsem'[k] = r /\ ptq'[k] = q /\ ptmaxcnt'[k] = ptmaxcnt[k]
  BY <1>1 DEF PortTyped, ClearFrame
<1>6. ASSUME NEW j \in Ports \ {k} PROVE PortSame(j)
  BY <1>1 DEF PortSame, PortTyped, ClearFrame
<1>7. QED  BY <1>3, <1>4, <1>5, <1>6 DEF OnlyPort

LEMMA SetPortPorts ==
  ASSUME PortInv, PoolInv', NEW p \in Procs, NEW k \in Ports, NEW to \in {"free", "alloc"}, NEW d,
         SetPort(p, k, to, d), ClearedOk(d, to, ptmaxcnt[k], ptrsem[k]), ptq' = [ptq EXCEPT ![k] = <<>>],
         ClearFrame(k), AloneClears(p, k), Older(cont, k, ptseq'[k])
  PROVE  PortInv'
<1>1. /\ ptstate' = [ptstate EXCEPT ![k] = d.state] /\ ptssem' = [ptssem EXCEPT ![k] = d.s]
      /\ ptrsem' = [ptrsem EXCEPT ![k] = d.r] /\ StopAt(p, d.op, k, 0, to)
  BY DEF SetPort
<1>2. /\ d.op \in {"user", "clearR", "clearEnd"} /\ d.state = (IF d.op = "user" THEN to ELSE "limbo")
      /\ Fresh(d.s, ptmaxcnt[k]) /\ Sound(d.s) /\ Sound(d.r) /\ ToSet(d.r.q) \subseteq ToSet(ptrsem[k].q)
      /\ d.op \in {"user", "clearEnd"} => Fresh(d.r, 0)
  BY DEF ClearedOk, Fresh
<1>3. PICK c \in Conts : Then(p, c) /\ c.op = d.op /\ (d.op # "user" => c.on = k)
  BY <1>1, <1>2, StopAtCont
<1>4. d.state \in {"free", "alloc", "limbo"} /\ (d.state \in {"free", "alloc"} => d.op = "user")
  BY <1>2
<1>5. /\ PortTyped' /\ PinitFirst' /\ OnlyPort(k) /\ ptmaxcnt'[k] = ptmaxcnt[k]
      /\ ptstate'[k] = d.state /\ ptssem'[k] = d.s /\ ptrsem'[k] = d.r /\ ptq'[k] = <<>>
  <2>1. ClearSets(k, d.state, d.s, d.r, <<>>)
    BY <1>1, <1>2, <1>4 DEF ClearSets
  <2>2. QED  BY <2>1, ClearTyped
<1>6. Lets(ptssem[k], ptssem'[k]) /\ Lets(ptrsem[k], ptrsem'[k])
  <2>1. ToSet(d.s.q) = {}
    BY <1>2, EmptyList DEF Fresh
  <2>2. QED  BY <1>2, <1>5, <2>1 DEF Lets
<1>7. c.op = "user" \/ Clears(c, k)
  BY <1>2, <1>3 DEF Clears, ClearOp
<1>8. RestOk(c, k)'
  <2>1. c.op \notin SendOps /\ c.op # "dispose" /\ c.op # "psend"
    BY <1>2, <1>3 DEF SendOps
  <2>2. Clears(c, k) => ptstate'[k] = "limbo"
    BY <1>2, <1>3, <1>5 DEF Clears, ClearOp
  <2>3. Fresh(ptssem'[k], ptmaxcnt'[k]) /\ (c.op = "clearEnd" => Fresh(ptrsem'[k], 0))
    BY <1>2, <1>3, <1>5
  <2>4. QED  BY <1>5, <2>1, <2>2, <2>3 DEF RestOk, Clears
<1>9. ClearStep(c, k)
  BY <1>2, <1>4, <1>5, <1>6, <1>8 DEF ClearStep, ClearFrame
<1>10. QED  BY <1>3, <1>5, <1>7, <1>9, ClearPort DEF AloneClears, ClearFrame

LEMMA ClearFromPorts ==
  ASSUME PortInv, PoolInv', NEW p \in Procs, NEW k \in Ports, NEW i \in Nat \ {0}, NEW to \in {"free", "alloc"},
         ClearFrom(p, k, i, to), ClearFrame(k), AloneClears(p, k), Older(cont, k, ptseq'[k])
  PROVE  PortInv'
<1> DEFINE q == ptq[k]
           frees == {j \in i .. Len(q) : Frees(bpsem[q[j][1]])}
<1>1. PortTyped /\ PortRight(k) /\ Sound(ptssem[k]) /\ Sound(ptrsem[k]) /\ q \in Seq(Live) /\ ptq \in [Ports -> Seq(Live)]
  BY DEF PortInv, PortRight, PoolInv, PoolTyped
<1>2. CASE frees # {}
  <2> DEFINE n == Min(frees) + 1
  <2>1. Min(frees) \in frees
    <3>1. frees \subseteq Nat
      BY <1>1
    <3>2. QED  BY <1>2, <3>1, MinNat
  <2>2. n \in Nat
    <3>1. Len(q) \in Nat /\ i \in Nat
      BY <1>1
    <3>2. Min(frees) \in i .. Len(q)
      BY <2>1
    <3>3. QED  BY ONLY <3>1, <3>2
  <2>3. /\ ptstate' = [ptstate EXCEPT ![k] = "limbo"] /\ StopAt(p, "dispose", k, n, to)
        /\ UNCHANGED <<ptssem, ptrsem, ptq>>
    BY <1>2 DEF ClearFrom
  <2> HIDE DEF n
  <2>4. PICK c \in Conts : Then(p, c) /\ c.op = "dispose" /\ c.on = k
    BY <2>2, <2>3, StopAtCont
  <2>5. ClearSets(k, "limbo", ptssem[k], ptrsem[k], ptq[k])
    BY <1>1, <2>3 DEF PortTyped, ClearSets
  <2>6. /\ PortTyped' /\ PinitFirst' /\ OnlyPort(k)
        /\ ptstate'[k] = "limbo" /\ ptssem'[k] = ptssem[k] /\ ptrsem'[k] = ptrsem[k]
    BY <2>5, ClearTyped
  <2>7. c.op \notin SendOps /\ Clears(c, k)
    BY <2>4 DEF SendOps, Clears, ClearOp
  <2>8. ClearStep(c, k)
    BY <1>1, <2>4, <2>6, <2>7 DEF ClearStep, ClearFrame, Lets, RestOk
  <2>9. QED  BY <2>4, <2>6, <2>7, <2>8, ClearPort DEF AloneClears, ClearFrame
<1>3. CASE frees = {}
  <2> DEFINE d == SClear(Clearing(k), to, ptmaxcnt[k])
  <2>1. SetPort(p, k, to, d) /\ ptq' = [ptq EXCEPT ![k] = <<>>]
    BY <1>3 DEF ClearFrom
  <2>2. ptmaxcnt[k] \in Nat
    BY <1>1 DEF PortTyped
  <2>3. ClearedOk(d, to, ptmaxcnt[k], ptrsem[k])
    BY <1>1, <2>2, SClearOk, ClearingIs
  <2> HIDE DEF d
  <2>4. QED  BY <2>1, <2>3, SetPortPorts
<1>4. QED  BY <1>2, <1>3

LEMMA PtclearPorts ==
  ASSUME PortInv, PoolInv', NEW p \in Procs, cont[p] = Idle, NEW k \in Ports, NEW to \in {"free", "alloc"},
         Ptclear(p, k, to)
  PROVE  PortInv'
<1>1. PortTyped /\ PortRight(k) /\ ptstate[k] = "alloc" /\ Idle.op = "user" /\ cont \in [Procs -> Conts]
  BY ContTypes DEF PortInv, Ptclear, PoolInv, PoolTyped
<1>2. ClearFrom(p, k, 1, to) /\ 1 \in Nat \ {0}
  BY DEF Ptclear
<1>3. /\ lostS' = [lostS EXCEPT ![k] = 0] /\ lostR' = [lostR EXCEPT ![k] = 0]
      /\ ptseq' = [ptseq EXCEPT ![k] = @ + 1] /\ UNCHANGED <<ptmaxcnt, ptnextp, panicked, marked, pinits>>
  BY DEF Ptclear, ClearUnchanged, markVars
<1>4. ptseq[k] \in Nat /\ ptseq'[k] = ptseq[k] + 1
  BY <1>1, <1>3 DEF PortTyped
<1>5. ClearFrame(k)
  <2>1. ptseq[k] + 1 \in Nat
    BY <1>4
  <2>2. ptseq' \in [Ports -> Nat] /\ lostS' \in [Ports -> Nat] /\ lostR' \in [Ports -> Nat]
    BY <1>1, <1>3, <2>1 DEF PortTyped
  <2>3. \A j \in Ports \ {k} : ptseq'[j] = ptseq[j] /\ lostS'[j] = lostS[j] /\ lostR'[j] = lostR[j]
    BY <1>1, <1>3 DEF PortTyped
  <2>4. lostS'[k] = 0 /\ lostR'[k] = 0
    BY <1>1, <1>3 DEF PortTyped
  <2>5. QED  BY <1>1, <1>3, <2>2, <2>3, <2>4 DEF ClearFrame
<1>6. AloneClears(p, k)
  <2>1. \A q \in Procs : RestOk(cont[q], k)
    BY <1>1 DEF PortRight
  <2>2. QED  BY <1>1, <2>1 DEF AloneClears, RestOk
<1>7. Older(cont, k, ptseq'[k])
  <2>1. ASSUME NEW q \in Procs, cont[q].op \in SendOps, cont[q].on = k PROVE cont[q].n < ptseq'[k]
    <3>1. cont[q].n <= ptseq[k] /\ cont[q].n \in Nat
      BY <1>1, <2>1 DEF PortRight, RestOk, Conts
    <3>2. QED  BY <1>4, <3>1
  <2>2. QED  BY <2>1 DEF Older
<1>8. QED  BY <1>2, <1>5, <1>6, <1>7, ClearFromPorts

\* What the rest of a clearing finds.
LEMMA ClearFound ==
  ASSUME PortInv, NEW p \in Procs, NEW k \in Ports, Clears(cont[p], k), ClearUnchanged, UNCHANGED <<ptseq, lostVars>>
  PROVE  ptstate[k] = "limbo" /\ ClearFrame(k) /\ AloneClears(p, k) /\ Older(cont, k, ptseq'[k])
<1>1. /\ PortTyped /\ RestOk(cont[p], k) /\ OneClears(k) /\ \A q \in Procs : RestOk(cont[q], k)
  BY DEF PortInv, PortRight
<1>2. ptstate[k] = "limbo"
  BY <1>1 DEF RestOk
<1>3. lostS[k] = 0 /\ lostR[k] = 0
  BY <1>2 DEF PortInv, PortRight
<1>4. ClearFrame(k)
  BY <1>1, <1>2, <1>3 DEF ClearFrame, ClearUnchanged, markVars, lostVars, PortTyped
<1>5. AloneClears(p, k)
  BY <1>1 DEF AloneClears, OneClears
<1>6. Older(cont, k, ptseq'[k])
  BY <1>1, <1>2 DEF Older, RestOk
<1>7. QED  BY <1>2, <1>4, <1>5, <1>6

LEMMA FinishDisposePorts ==
  ASSUME PortInv, PoolInv', NEW p \in Procs, FinishDispose(p)
  PROVE  PortInv'
<1>1. cont[p].op = "dispose" /\ Placed(p) /\ cont[p] \in Conts
  BY DEF FinishDispose, At, PortInv, PoolInv, PoolTyped
<1>2. PICK k \in Ports : k = cont[p].on
  BY <1>1 DEF Placed
<1>3. cont[p].n \in Nat \ {0} /\ cont[p].to \in {"free", "alloc"} /\ Clears(cont[p], k)
  BY <1>1, <1>2 DEF Placed, Conts, Clears, ClearOp
<1>4. ClearFrom(p, k, cont[p].n, cont[p].to) /\ ClearUnchanged /\ UNCHANGED <<ptseq, lostVars>>
  BY <1>2 DEF FinishDispose
<1>5. ClearFrame(k) /\ AloneClears(p, k) /\ Older(cont, k, ptseq'[k])
  BY <1>3, <1>4, ClearFound
<1>6. QED  BY <1>3, <1>4, <1>5, ClearFromPorts

LEMMA FinishClearPorts ==
  ASSUME PortInv, PoolInv', NEW p \in Procs, FinishClear(p)
  PROVE  PortInv'
<1>1. cont[p].op \in {"clearR", "clearEnd"} /\ Placed(p) /\ cont[p] \in Conts /\ PortTyped /\ ptq \in [Ports -> Seq(Live)]
  BY DEF FinishClear, At, PortInv, PoolInv, PoolTyped
<1>2. PICK k \in Ports : k = cont[p].on
  BY <1>1 DEF Placed
<1>3. PICK to \in {"free", "alloc"} : to = cont[p].to
  BY <1>1 DEF Conts
<1>4. Clears(cont[p], k) /\ RestOk(cont[p], k) /\ PortRight(k)
  BY <1>1, <1>2 DEF Clears, ClearOp, PortInv, PortRight
<1>5. ClearUnchanged /\ UNCHANGED <<ptseq, ptq, lostVars>>
  BY DEF FinishClear
<1>6. ClearFrame(k) /\ AloneClears(p, k) /\ Older(cont, k, ptseq'[k])
  BY <1>4, <1>5, ClearFound
<1>7. ptq[k] = <<>> /\ Fresh(ptssem[k], ptmaxcnt[k]) /\ (cont[p].op = "clearEnd" => Fresh(ptrsem[k], 0)) /\ Sound(ptrsem[k])
  BY <1>1, <1>4 DEF RestOk, PortRight
<1>8. ptq' = [ptq EXCEPT ![k] = <<>>]
  BY <1>1, <1>5, <1>7
<1> DEFINE d == IF cont[p].op = "clearR" THEN RClear(Clearing(k), to) ELSE Reopened(Clearing(k), to)
<1>9. SetPort(p, k, to, d)
  BY <1>2, <1>3 DEF FinishClear, At
<1>10. ClearedOk(d, to, ptmaxcnt[k], ptrsem[k])
  <2>1. CASE cont[p].op = "clearR"
    <3>1. d = RClear(Clearing(k), to)
      BY <2>1
    <3>2. QED  BY <1>7, <3>1, RClearOk, ClearingIs
  <2>2. CASE cont[p].op = "clearEnd"
    <3>1. d = Reopened(Clearing(k), to) /\ Fresh(ptrsem[k], 0)
      BY <1>7, <2>2
    <3>2. QED  BY <1>7, <3>1, ReopenedOk, ClearingIs
  <2>3. QED  BY <1>1, <2>1, <2>2
<1> HIDE DEF d
<1>11. QED  BY <1>6, <1>8, <1>9, <1>10, SetPortPorts

\* kill of a process in a call on an open port, waiting or let go: its unit is accounted for.
LEMMA KillUnits ==
  ASSUME PortInv, NEW p \in Procs, NEW c \in Conts, Then(p, c), c.op = "dead", NEW k \in Ports, ptstate[k] = "alloc",
         NEW op \in {"psend", "preceive"}, NEW s, Sound(s), Waiting(s, op, k), NEW t, t = Left(s, p),
         NEW lost \in Nat, NEW lost2,
         lost2 = lost + (IF p \in {x \in Released(op, s) : cont[x].on = k /\ Still(x)} THEN 1 ELSE 0)
  PROVE  LET W(f) == Cardinality(Having(f, InSince(op, k, ptseq[k]))) IN
         /\ t.n + W(cont') + lost2 = s.n + W(cont) + lost
         /\ s.n \in Int /\ W(cont) \in Nat /\ t.n \in Int /\ W(cont') \in Nat /\ lost2 \in Nat
<1> DEFINE C == InSince(op, k, ptseq[k])
           w == Cardinality(Having(cont, C))
           w2 == Cardinality(Having(cont', C))
           inQ == p \in ToSet(s.q)
           inW == cont[p] \in C
<1>1. /\ cont \in [Procs -> Conts] /\ cont' = [cont EXCEPT ![p] = c] /\ cont[p] \in Conts
  BY DEF PortInv, PoolInv, PoolTyped, Then
<1>2. OnlyMoves(cont, cont', p) /\ cont'[p] = c
  BY <1>1 DEF OnlyMoves
<1>3. s.n \in Int /\ s.q \in Seq(Procs)
  BY SoundFacts
<1>4. c \notin C
  BY DEF InSince, In
<1>5. inW <=> At(p, op) /\ cont[p].on = k /\ cont[p].n = ptseq[k]
  BY <1>1 DEF InSince, In, At
<1>6. inQ => inW
  BY <1>5 DEF Waiting, At
<1>7. p \in {x \in Released(op, s) : cont[x].on = k /\ Still(x)} <=> inW /\ ~inQ
  BY <1>3, <1>5, ContainsSet DEF Released, Still
<1>8. t.n = (IF inQ THEN s.n + 1 ELSE s.n)
  BY LeftSound
<1>9. w \in Nat /\ w2 \in Nat
  BY HavingCounted
<1> HIDE DEF C
<1>10. w2 = w - (IF inW THEN 1 ELSE 0) + (IF c \in C THEN 1 ELSE 0)
  BY <1>2, HavingMoves
<1> HIDE DEF w, w2, inQ, inW
<1>11. w2 = w - (IF inW THEN 1 ELSE 0)
  BY <1>4, <1>9, <1>10
<1>12. lost2 = lost + (IF inW /\ ~inQ THEN 1 ELSE 0)
  BY <1>7
<1>13. t.n + w2 + lost2 = s.n + w + lost
  <2>1. CASE inQ
    <3>1. t.n = s.n + 1 /\ w2 = w - 1 /\ lost2 = lost
      BY <1>6, <1>8, <1>11, <1>12, <2>1
    <3>2. QED  BY <1>3, <1>9, <3>1
  <2>2. CASE inW /\ ~inQ
    <3>1. t.n = s.n /\ w2 = w - 1 /\ lost2 = lost + 1
      BY <1>8, <1>11, <1>12, <2>2
    <3>2. QED  BY <1>3, <1>9, <3>1
  <2>3. CASE ~inW
    <3>1. t.n = s.n /\ w2 = w /\ lost2 = lost
      BY <1>6, <1>8, <1>9, <1>11, <1>12, <2>3
    <3>2. QED  BY <3>1
  <2>4. QED  BY <2>1, <2>2, <2>3
<1>14. t.n \in Int /\ lost2 \in Nat
  BY <1>3, <1>8, <1>12
<1>15. QED  BY <1>3, <1>9, <1>13, <1>14 DEF w, w2, C

LEMMA KillPorts ==
  ASSUME PortInv, PoolInv', NEW p \in Procs, Kill(p)
  PROVE  PortInv'
<1> DEFINE c == Do("dead", 0, <<>>, 0)
<1>1. /\ Then(p, c) /\ UNCHANGED <<ptq, ptstate, ptseq, ptmaxcnt, ptnextp, panicked, marked, pinits>>
      /\ ptssem' = [k \in Ports |-> Left(ptssem[k], p)] /\ ptrsem' = [k \in Ports |-> Left(ptrsem[k], p)]
      /\ lostS' = [k \in Ports |-> lostS[k] + (IF p \in Senders(k) THEN 1 ELSE 0)]
      /\ lostR' = [k \in Ports |-> lostR[k] + (IF p \in Receivers(k) THEN 1 ELSE 0)]
  BY DEF Kill, tableVars
<1>2. c \in Conts /\ c.op = "dead"
  BY DEF Do, Conts, ClientOps
<1> HIDE DEF c
<1>3. /\ PortTyped /\ PinitFirst /\ cont \in [Procs -> Conts] /\ cont' = [cont EXCEPT ![p] = c]
      /\ ptq \in [Ports -> Seq(Live)]
  BY <1>1 DEF PortInv, PoolInv, PoolTyped, Then
<1>4. cont'[p] = c /\ \A q \in Procs \ {p} : cont'[q] = cont[q]
  BY <1>3
<1>5. ASSUME NEW k \in Ports
      PROVE  /\ PortRight(k) /\ Sound(ptssem[k]) /\ Sound(ptrsem[k])
             /\ ptssem'[k] = Left(ptssem[k], p) /\ ptrsem'[k] = Left(ptrsem[k], p)
             /\ lostS'[k] = lostS[k] + (IF p \in Senders(k) THEN 1 ELSE 0)
             /\ lostR'[k] = lostR[k] + (IF p \in Receivers(k) THEN 1 ELSE 0)
             /\ lostS[k] \in Nat /\ lostR[k] \in Nat
  BY <1>1, <1>3 DEF PortInv, PortRight, PortTyped
<1>6. ASSUME NEW k \in Ports PROVE Sound(ptssem'[k]) /\ Sound(ptrsem'[k])
  BY <1>5, LeftSound
<1>7. PortTyped'
  <2>1. ptssem' \in [Ports -> Sems] /\ ptrsem' \in [Ports -> Sems]
    BY <1>1, <1>6 DEF Sound
  <2>2. lostS' \in [Ports -> Nat] /\ lostR' \in [Ports -> Nat]
    BY <1>1, <1>3 DEF PortTyped
  <2>3. QED  BY <1>1, <1>3, <2>1, <2>2 DEF PortTyped
<1>8. PinitFirst'
  BY <1>1, <1>3 DEF PinitFirst
<1>9. ASSUME NEW k \in Ports PROVE PortRight(k)'
  <2>1. /\ ptstate'[k] = ptstate[k] /\ ptseq'[k] = ptseq[k] /\ ptmaxcnt'[k] = ptmaxcnt[k] /\ ptq'[k] = ptq[k]
    BY <1>1
  <2>2. /\ PortRight(k) /\ Sound(ptssem[k]) /\ Sound(ptrsem[k])
        /\ ptssem'[k] = Left(ptssem[k], p) /\ ptrsem'[k] = Left(ptrsem[k], p)
    BY <1>5
  <2>3. /\ ToSet(ptssem'[k].q) = ToSet(ptssem[k].q) \ {p} /\ ToSet(ptrsem'[k].q) = ToSet(ptrsem[k].q) \ {p}
        /\ ptssem'[k].ok = ptssem[k].ok /\ ptrsem'[k].ok = ptrsem[k].ok
        /\ ptssem[k].q = <<>> => ptssem'[k] = ptssem[k]
        /\ ptrsem[k].q = <<>> => ptrsem'[k] = ptrsem[k]
    BY <2>2, LeftSound, EmptyList
  <2>4. Waiting(ptssem[k], "psend", k)' /\ Waiting(ptrsem[k], "preceive", k)'
    <3>1. /\ Waiting(ptssem[k], "psend", k) /\ Waiting(ptrsem[k], "preceive", k)
          /\ ToSet(ptssem[k].q) \subseteq Procs /\ ToSet(ptrsem[k].q) \subseteq Procs
      BY <2>2, SoundFacts DEF PortRight
    <3>2. QED  BY <1>4, <2>1, <2>3, <3>1 DEF Waiting
  <2>5. \A q \in Procs : RestOk(cont[q], k)'
    <3>1. ASSUME NEW q \in Procs \ {p} PROVE RestOk(cont[q], k)'
      <4>1. RestOk(cont[q], k) /\ cont'[q] = cont[q]
        BY <1>4, <2>2 DEF PortRight
      <4>2. /\ Fresh(ptssem[k], ptmaxcnt[k]) => Fresh(ptssem'[k], ptmaxcnt'[k])
            /\ Fresh(ptrsem[k], 0) => Fresh(ptrsem'[k], 0)
        BY <2>1, <2>3 DEF Fresh
      <4>3. QED  BY <2>1, <2>3, <4>1, <4>2 DEF RestOk, Clears
    <3>2. RestOk(cont[p], k)'
      BY <1>2, <1>4 DEF RestOk, Clears, SendOps, ClearOp
    <3>3. QED  BY <3>1, <3>2
  <2>6. OneClears(k)'
    <3>1. OneClears(k)
      BY <2>2 DEF PortRight
    <3>2. ~Clears(c, k)
      BY <1>2 DEF Clears, ClearOp
    <3>3. QED  BY <1>4, <3>1, <3>2 DEF OneClears, Clears
  <2>7. ptstate[k] = "limbo" => lostS'[k] = 0 /\ lostR'[k] = 0
    <3>1. SUFFICES ASSUME ptstate[k] = "limbo" PROVE lostS'[k] = 0 /\ lostR'[k] = 0
      OBVIOUS
    <3>2. lostS[k] = 0 /\ lostR[k] = 0
      BY <2>2, <3>1 DEF PortRight
    <3>3. p \notin Senders(k) /\ p \notin Receivers(k)
      BY <3>1 DEF Senders, Receivers, Still
    <3>4. QED  BY <1>5, <3>2, <3>3
  <2>8. ptstate[k] = "alloc" /\ Room(k) => Room(k)'
    <3>1. SUFFICES ASSUME ptstate[k] = "alloc", Room(k) PROVE Room(k)'
      OBVIOUS
    <3>2. /\ ptssem'[k].n + Cardinality(Sending(k)') + lostS'[k] = ptssem[k].n + Cardinality(Sending(k)) + lostS[k]
          /\ ptssem[k].n \in Int /\ Cardinality(Sending(k)) \in Nat
          /\ ptssem'[k].n \in Int /\ Cardinality(Sending(k)') \in Nat /\ lostS'[k] \in Nat
      <4>1. Sending(k)' = Having(cont', InSince("psend", k, ptseq[k])) /\ Waiting(ptssem[k], "psend", k)
        BY <2>1, <2>2 DEF Sending, PortRight
      <4>2. Senders(k) = {x \in Released("psend", ptssem[k]) : cont[x].on = k /\ Still(x)}
        BY DEF Senders
      <4>3. lostS'[k] = lostS[k]
              + (IF p \in {x \in Released("psend", ptssem[k]) : cont[x].on = k /\ Still(x)} THEN 1 ELSE 0)
        BY <1>5, <4>2
      <4>4. QED  BY <1>1, <1>2, <1>5, <2>2, <3>1, <4>1, <4>3, KillUnits DEF Sending
    <3>3. /\ ptrsem'[k].n + Cardinality(Receiving(k)') + lostR'[k] = ptrsem[k].n + Cardinality(Receiving(k)) + lostR[k]
          /\ ptrsem[k].n \in Int /\ Cardinality(Receiving(k)) \in Nat
          /\ ptrsem'[k].n \in Int /\ Cardinality(Receiving(k)') \in Nat /\ lostR'[k] \in Nat
      <4>1. Receiving(k)' = Having(cont', InSince("preceive", k, ptseq[k])) /\ Waiting(ptrsem[k], "preceive", k)
        BY <2>1, <2>2 DEF Receiving, PortRight
      <4>2. Receivers(k) = {x \in Released("preceive", ptrsem[k]) : cont[x].on = k /\ Still(x)}
        BY DEF Receivers
      <4>3. lostR'[k] = lostR[k]
              + (IF p \in {x \in Released("preceive", ptrsem[k]) : cont[x].on = k /\ Still(x)} THEN 1 ELSE 0)
        BY <1>5, <4>2
      <4>4. QED  BY <1>1, <1>2, <1>5, <2>2, <3>1, <4>1, <4>3, KillUnits DEF Receiving
    <3>4. Len(ptq[k]) \in Nat /\ ptmaxcnt[k] \in Nat /\ lostS[k] \in Nat /\ lostR[k] \in Nat
      BY <1>3 DEF PortTyped
    <3>5. ptssem[k].ok => ptssem'[k].n + Cardinality(Sending(k)') + Len(ptq[k]) + lostS'[k] = ptmaxcnt[k]
      <4>1. SUFFICES ASSUME ptssem[k].ok
                     PROVE  ptssem'[k].n + Cardinality(Sending(k)') + Len(ptq[k]) + lostS'[k] = ptmaxcnt[k]
        OBVIOUS
      <4>2. ptssem[k].n + Cardinality(Sending(k)) + Len(ptq[k]) + lostS[k] = ptmaxcnt[k]
        BY <3>1, <4>1 DEF Room
      <4> DEFINE n == ptssem[k].n
                 n2 == ptssem'[k].n
                 w == Cardinality(Sending(k))
                 w2 == Cardinality(Sending(k)')
                 x == lostS[k]
                 x2 == lostS'[k]
                 y == Len(ptq[k])
                 m == ptmaxcnt[k]
      <4>3. /\ n \in Int /\ n2 \in Int /\ w \in Int /\ w2 \in Int /\ x \in Int /\ x2 \in Int /\ y \in Int /\ m \in Int
            /\ n2 + w2 + x2 = n + w + x /\ n + w + y + x = m
        BY <3>2, <3>4, <4>2
      <4> HIDE DEF n, n2, w, w2, x, x2, y, m
      <4>4. n2 + w2 + y + x2 = m
        BY ONLY <4>3
      <4>5. QED  BY <4>4 DEF n2, w2, y, x2, m
    <3>6. ptrsem[k].ok => ptrsem'[k].n + Cardinality(Receiving(k)') + lostR'[k] = Len(ptq[k])
      <4>1. SUFFICES ASSUME ptrsem[k].ok
                     PROVE  ptrsem'[k].n + Cardinality(Receiving(k)') + lostR'[k] = Len(ptq[k])
        OBVIOUS
      <4>2. ptrsem[k].n + Cardinality(Receiving(k)) + lostR[k] = Len(ptq[k])
        BY <3>1, <4>1 DEF Room
      <4>3. QED  BY ONLY <3>3, <3>4, <4>2
    <3>7. QED  BY <2>1, <2>3, <3>5, <3>6 DEF Room
  <2>9. ptstate'[k] = "free" => ptssem'[k].q = <<>> /\ ptrsem'[k].q = <<>>
    BY <2>1, <2>2, <2>3 DEF PortRight
  <2>10. panicked' = panicked
    BY <1>1
  <2>11. QED  BY <1>6, <2>1, <2>2, <2>4, <2>5, <2>6, <2>7, <2>8, <2>9, <2>10 DEF PortRight
<1>10. QED  BY <1>7, <1>8, <1>9 DEF PortInv

LEMMA InitPort == Init => PortInv
<1>1. SUFFICES ASSUME Init PROVE PortInv
  OBVIOUS
<1>2. PoolInv
  BY <1>1, InitPool
<1>3. /\ cont = [p \in Procs |-> Idle] /\ Idle.op = "user"
      /\ ptstate = [id \in Ports |-> "free"] /\ ptseq = [id \in Ports |-> 0]
      /\ ptmaxcnt = [id \in Ports |-> 0] /\ ptq = [id \in Ports |-> <<>>]
      /\ ptssem = [id \in Ports |-> NoSem] /\ ptrsem = [id \in Ports |-> NoSem]
      /\ ptnextp = 0 /\ panicked = FALSE /\ marked = FALSE /\ pinits = 0
      /\ lostS = [id \in Ports |-> 0] /\ lostR = [id \in Ports |-> 0]
  BY <1>1, ContTypes DEF Init, ClientsInit
<1>4. Sound(NoSem) /\ NoSem \in Sems /\ NoSem.q = <<>> /\ ToSet(<<>>) = {}
  BY NewSound, EmptyList DEF Sound
<1>5. PortTyped /\ PinitFirst
  <2>1. ptssem \in [Ports -> Sems] /\ ptrsem \in [Ports -> Sems]
    BY <1>3, <1>4
  <2>2. ptstate \in [Ports -> {"free", "alloc", "limbo"}] /\ ptseq \in [Ports -> Nat] /\ ptmaxcnt \in [Ports -> Nat]
    BY <1>3
  <2>3. lostS \in [Ports -> Nat] /\ lostR \in [Ports -> Nat]
    BY <1>3
  <2>4. ptnextp \in Int /\ pinits \in Nat
    BY <1>3
  <2>a. panicked \in BOOLEAN
    BY <1>3, Zenon
  <2>5. PinitFirst
    BY <1>3 DEF PinitFirst
  <2>6. QED  BY <2>1, <2>2, <2>3, <2>4, <2>5, <2>a DEF PortTyped
<1>6. ASSUME NEW k \in Ports PROVE PortRight(k)
  <2>1. \A p \in Procs : cont[p].op = "user"
    BY <1>3
  <2>2. /\ ptssem[k] = NoSem /\ ptrsem[k] = NoSem /\ ptstate[k] = "free"
    BY <1>3
  <2>3. \A p \in Procs : RestOk(cont[p], k)
    BY <2>1 DEF RestOk, Clears, SendOps, ClearOp
  <2>4. OneClears(k)
    BY <2>1 DEF OneClears, Clears, ClearOp
  <2>5. Waiting(ptssem[k], "psend", k) /\ Waiting(ptrsem[k], "preceive", k)
    BY <1>4, <2>2 DEF Waiting
  <2>6. QED  BY <1>4, <2>2, <2>3, <2>4, <2>5 DEF PortRight
<1>7. QED  BY <1>2, <1>5, <1>6 DEF PortInv

LEMMA NextPortInv ==
  PortInv /\ Numbered /\ MarkedAtOnce /\ MarkedAtOnce' /\ [Next]_vars => PortInv'
<1>1. SUFFICES ASSUME PortInv, Numbered, MarkedAtOnce, MarkedAtOnce', [Next]_vars PROVE PortInv'
  OBVIOUS
<1>2. PoolInv'
  BY <1>1, NextPoolInv DEF PortInv
<1>3. CASE UNCHANGED vars
  <2>1. UNCHANGED <<cont, ptstate, ptseq, ptmaxcnt, ptnextp, ptq, ptssem, ptrsem, panicked, marked, pinits,
                    lostS, lostR>>
    BY <1>3 DEF vars, clientVars, tableVars, queueVars, markVars, lostVars
  <2>2. PortTyped' /\ PinitFirst'
    BY <1>1, <2>1 DEF PortInv, PortTyped, PinitFirst
  <2>3. ASSUME NEW k \in Ports PROVE PortRight(k)'
    <3>1. PortRight(k)
      BY <1>1 DEF PortInv
    <3>2. Sending(k)' = Sending(k) /\ Receiving(k)' = Receiving(k)
      BY <2>1 DEF Sending, Receiving
    <3>3. (Room(k) => Room(k)') /\ (OneClears(k) => OneClears(k)')
      BY <2>1, <3>2 DEF Room, OneClears
    <3>4. \A p \in Procs : RestOk(cont[p], k)'
      BY <2>1, <3>1 DEF PortRight, RestOk
    <3>5. Waiting(ptssem[k], "psend", k)' /\ Waiting(ptrsem[k], "preceive", k)'
      BY <2>1, <3>1 DEF PortRight, Waiting
    <3>6. QED  BY <2>1, <3>1, <3>3, <3>4, <3>5 DEF PortRight
  <2>4. QED  BY <1>2, <2>2, <2>3 DEF PortInv
<1>4. ASSUME NEW p \in Procs, PoolStep(p), PoolAlone PROVE PortInv'
  BY <1>1, <1>2, <1>4, PoolStepPorts
<1>5. ASSUME NEW p \in Procs, PortStep(p), ~panicked PROVE PortInv'
  <2>1. (\E count \in Counts : Pcreate(p, count)) \/ FinishMark(p) \/ FinishPinit(p) \/ MarkOther(p) \/ FinishOther(p)
        => PortInv'
    BY <1>1, <1>2, MarkStepPorts
  <2>2. ASSUME NEW k \in Ports PROVE ((\E b \in Bufs : Psend(p, k, b)) \/ Preceive(p, k)) => PortInv'
    BY <1>1, <1>2, <1>5, PsendPorts, PreceivePorts
  <2>3. ASSUME NEW k \in Ports PROVE Preset(p, k) \/ Pdelete(p, k) => PortInv'
    <3>1. Preset(p, k) => cont[p] = Idle /\ Ptclear(p, k, "alloc")
      BY DEF Preset, Call
    <3>2. Pdelete(p, k) => cont[p] = Idle /\ Ptclear(p, k, "free")
      BY DEF Pdelete, Call
    <3>3. QED  BY <1>1, <1>2, <3>1, <3>2, PtclearPorts
  <2>4. FinishPsend(p) \/ FinishPreceive(p) => PortInv'
    BY <1>1, <1>2, <1>5, FinishPsendPorts, FinishPreceivePorts
  <2>5. FinishDispose(p) \/ FinishClear(p) => PortInv'
    BY <1>1, <1>2, FinishDisposePorts, FinishClearPorts
  <2>6. Kill(p) => PortInv'
    BY <1>1, <1>2, KillPorts
  <2>7. QED  BY <1>5, <2>1, <2>2, <2>3, <2>4, <2>5, <2>6 DEF PortStep
<1>6. QED  BY <1>1, <1>3, <1>4, <1>5 DEF Next

LEMMA PortInvKept == Spec /\ []MarkedAtOnce => []PortInv
<1>1. Init => PortInv /\ Numbered
  BY InitPort, InitPool
<1>2. QED  BY <1>1, NextPortInv, NextNumbered, PTL DEF Spec

\* Room is what is free, what was promised to senders that were let go and what the
\* messages take, and a message is there for every unit of the receivers' semaphore and
\* every receiver that was let go (psend.c, preceive.c, ptclear.c): preceive never finds
\* an empty list, whatever is reset, deleted, created again or killed meanwhile.
THEOREM RoomCorrect == Spec /\ []MarkedAtOnce => []RoomAccounted
BY PortInvKept, RoomAccountedInv, PTL

\* Who waits at a port's semaphore waits there for the call it is in, and on the port's
\* present generation: a clearing leaves nobody behind (ptclear.c).
THEOREM NobodyForgottenCorrect == Spec /\ []MarkedAtOnce => []NobodyForgotten
BY PortInvKept, NobodyForgottenInv, PTL

------------------------------------------------------------------------------
(* Where nobody marks another location, pinit runs once, and at once. *)

NoOtherMarks == \A w \in Workloads : "mark" \notin w

Unmarked ==
  /\ calls \in Workloads /\ mkmutex = Sem(1) /\ pinits = (IF marked THEN 1 ELSE 0)
  /\ marked \in BOOLEAN /\ cont \in [Procs -> Conts]
  /\ \A p \in Procs : cont[p].op \notin {"mark", "pinit", "other"}

Goes(p) == \E c : Then(p, c) /\ c.op \notin {"mark", "pinit", "other"}

\* The steps that have nothing to do with marking.
OtherStep(p) ==
  \/ PoolStep(p)
  \/ \E port \in Ports : \/ \E b \in Bufs : Psend(p, port, b)
                         \/ Preceive(p, port) \/ Preset(p, port) \/ Pdelete(p, port)
  \/ FinishPsend(p) \/ FinishPreceive(p) \/ FinishDispose(p) \/ FinishClear(p) \/ Kill(p)

LEMMA IdleGoes ==
  ASSUME NEW p, Then(p, Idle)
  PROVE  Goes(p)
BY DEF Goes, Idle

LEMMA StopGoes ==
  ASSUME NEW p, NEW op \in {"user", "dispose", "clearR", "clearEnd"}, NEW port, NEW n, NEW to,
         StopAt(p, op, port, n, to)
  PROVE  Goes(p)
<1> DEFINE c == [Do(op, port, <<>>, n) EXCEPT !.to = to]
<1>1. c.op = op
  BY DEF Do
<1> HIDE DEF c
<1>2. Then(p, Idle) \/ Then(p, c)
  BY DEF StopAt, c
<1>3. QED  BY <1>1, <1>2, IdleGoes DEF Goes

LEMMA ClearGoes ==
  ASSUME NEW p, NEW port, NEW i, NEW to, ClearFrom(p, port, i, to)
  PROVE  Goes(p)
<1> DEFINE op == SClear(Clearing(port), to, ptmaxcnt[port]).op
<1>1. op \in {"user", "dispose", "clearR", "clearEnd"}
  BY ClearOps
<1> HIDE DEF op
<1>2. (\E n : StopAt(p, "dispose", port, n, to)) \/ StopAt(p, op, port, 0, to)
  BY DEF ClearFrom, SetPort, op
<1>3. QED  BY <1>1, <1>2, StopGoes

LEMMA OthersGo ==
  ASSUME NEW p \in Procs, OtherStep(p)
  PROVE  Goes(p) \/ UNCHANGED cont
<1>1. \A op, on, buf, n : Do(op, on, buf, n).op = op
  BY DEF Do
<1>2. PoolStep(p) => Goes(p) \/ UNCHANGED cont
  BY <1>1, IdleGoes DEF PoolStep, Mkpool, Getbuf, FinishGetbuf, Freebuf, FinishFreebuf, Goes
<1>3. ASSUME \/ \E port \in Ports : (\E b \in Bufs : Psend(p, port, b)) \/ Preceive(p, port)
             \/ FinishPsend(p) \/ FinishPreceive(p)
      PROVE  Goes(p) \/ UNCHANGED cont
  BY <1>1, <1>3, IdleGoes DEF Psend, Preceive, FinishPsend, FinishPreceive, Put, Goes
<1>4. ASSUME (\E port \in Ports : Preset(p, port) \/ Pdelete(p, port)) \/ FinishDispose(p) PROVE Goes(p)
  BY <1>4, ClearGoes DEF Preset, Pdelete, Ptclear, FinishDispose
<1>5. ASSUME FinishClear(p) PROVE Goes(p)
  <2> DEFINE port == cont[p].on
             to == cont[p].to
             op == (IF At(p, "clearR") THEN RClear(Clearing(port), to) ELSE Reopened(Clearing(port), to)).op
  <2>1. op \in {"user", "dispose", "clearR", "clearEnd"}
    BY ClearOps
  <2>2. StopAt(p, op, port, 0, to)
    BY <1>5 DEF FinishClear, SetPort
  <2> HIDE DEF op
  <2>3. QED  BY <2>1, <2>2, StopGoes
<1>6. Kill(p) => Goes(p)
  BY <1>1 DEF Kill, Goes
<1>7. QED  BY <1>2, <1>3, <1>4, <1>5, <1>6 DEF OtherStep

\* mark's test and its setting are one step of a process that does not wait between them
\* (mark.c): only a process preempted in a mark of another location can come between.
THEOREM MarkedAtOnceCorrect ==
  ASSUME NoOtherMarks
  PROVE  Spec => []MarkedAtOnce
<1>1. ASSUME Init PROVE Unmarked
  <2>1. /\ calls \in Workloads /\ mkmutex = Sem(1) /\ marked = FALSE /\ pinits = 0 /\ cont = [p \in Procs |-> Idle]
    BY <1>1 DEF Init, ClientsInit
  <2>2. pinits = (IF marked THEN 1 ELSE 0) /\ marked \in BOOLEAN
    BY <2>1
  <2>3. cont \in [Procs -> Conts] /\ \A p \in Procs : cont[p].op \notin {"mark", "pinit", "other"}
    BY <2>1, ContTypes
  <2>4. QED  BY <2>1, <2>2, <2>3 DEF Unmarked
<1>2. ASSUME Unmarked, PoolInv', [Next]_vars PROVE Unmarked'
  <2>1. ~Blocks(mkmutex) /\ mkmutex.q = <<>> /\ "mark" \notin calls
    BY <1>2 DEF Unmarked, Sem, Blocks, NoOtherMarks
  <2>2. cont' \in [Procs -> Conts]
    BY <1>2 DEF PoolInv, PoolTyped
  <2>3. ASSUME NEW p \in Procs, Goes(p) PROVE \A q \in Procs : cont'[q].op \notin {"mark", "pinit", "other"}
    BY <1>2, <2>3 DEF Unmarked, Goes, Then
  <2>4. ASSUME NEW p \in Procs, Goes(p) \/ UNCHANGED cont, calls' = calls, mkmutex' = mkmutex,
               \/ UNCHANGED <<marked, pinits>>
               \/ ~marked /\ marked' = TRUE /\ pinits' = pinits + 1
        PROVE  Unmarked'
    <3>1. \A q \in Procs : cont'[q].op \notin {"mark", "pinit", "other"}
      BY <1>2, <2>3, <2>4 DEF Unmarked
    <3>2. pinits' = (IF marked' THEN 1 ELSE 0) /\ marked' \in BOOLEAN
      <4>1. pinits = (IF marked THEN 1 ELSE 0) /\ marked \in BOOLEAN
        BY <1>2 DEF Unmarked
      <4>2. CASE UNCHANGED <<marked, pinits>>
        BY <4>1, <4>2
      <4>3. CASE ~marked /\ marked' = TRUE /\ pinits' = pinits + 1
        <5>1. pinits' = 1
          BY <4>1, <4>3
        <5>2. marked' /\ marked' \in BOOLEAN
          BY <4>3, Zenon
        <5>3. QED  BY <5>1, <5>2
      <4>4. QED  BY <2>4, <4>2, <4>3
    <3>3. QED  BY <1>2, <2>2, <2>4, <3>1, <3>2 DEF Unmarked
  <2>5. ASSUME NEW p \in Procs, PoolStep(p), PoolAlone PROVE Unmarked'
    <3>1. calls' = calls
      BY <2>5 DEF PoolStep, Mkpool, Getbuf, FinishGetbuf, Freebuf, FinishFreebuf
    <3>2. QED  BY <2>4, <2>5, <3>1, OthersGo DEF PoolAlone, markVars, OtherStep
  <2>6. ASSUME NEW p \in Procs, NEW count \in Counts, Pcreate(p, count) PROVE Unmarked'
    BY <2>1, <2>4, <2>6, IdleGoes DEF Pcreate, PinitAndNewPort, NewPort, markVars
  <2>7. ASSUME NEW p \in Procs PROVE ~FinishMark(p) /\ ~FinishPinit(p) /\ ~MarkOther(p) /\ ~FinishOther(p)
    BY <1>2, <2>1 DEF Unmarked, FinishMark, FinishPinit, MarkOther, FinishOther, At, Call
  <2>8. ASSUME NEW p \in Procs,
               \/ \E port \in Ports : \/ \E b \in Bufs : Psend(p, port, b)
                                      \/ Preceive(p, port) \/ Preset(p, port) \/ Pdelete(p, port)
               \/ FinishPsend(p) \/ FinishPreceive(p) \/ FinishDispose(p) \/ FinishClear(p)
        PROVE  Unmarked'
    <3>1. Goes(p) \/ UNCHANGED cont
      BY <2>8, OthersGo DEF OtherStep
    <3>2. UNCHANGED <<mkmutex, marked, pinits>> /\ calls' = calls
      BY <2>8 DEF Psend, Preceive, FinishPsend, FinishPreceive, SendUnchanged, markVars,
                  Preset, Pdelete, Ptclear, FinishDispose, FinishClear, ClearUnchanged
    <3>3. QED  BY <2>4, <3>1, <3>2
  <2>9. ASSUME NEW p \in Procs, Kill(p) PROVE Unmarked'
    <3>1. Goes(p) \/ UNCHANGED cont
      BY <2>9, OthersGo DEF OtherStep
    <3>2. ~Contains(mkmutex.q, p)
      BY <2>1 DEF Contains
    <3>3. mkmutex' = mkmutex /\ UNCHANGED <<marked, pinits>> /\ calls' = calls
      BY <2>9, <3>2 DEF Kill, Left
    <3>4. QED  BY <2>4, <3>1, <3>3
  <2>10. CASE UNCHANGED vars
    BY <1>2, <2>10 DEF Unmarked, vars, clientVars, markVars
  <2>11. QED  BY <1>2, <2>5, <2>6, <2>7, <2>8, <2>9, <2>10 DEF Next, PortStep
<1>3. Unmarked => MarkedAtOnce
  BY DEF Unmarked, MarkedAtOnce, At
<1>4. QED  BY <1>1, <1>2, <1>3, InitPool, NextNumbered, NextPoolInv, PTL DEF Spec

------------------------------------------------------------------------------
(* The ports as bounded queues with generations.                            *)

\* pcreate was called with the bound that it goes on with after its mark.
Counted == \A p \in Procs : At(p, "mark") => cont[p].n \in Counts

LEMMA NextCounted == PoolInv /\ Counted /\ [Next]_vars => Counted'
<1>1. SUFFICES ASSUME PoolInv, Counted, [Next]_vars PROVE Counted'
  OBVIOUS
<1>2. cont \in [Procs -> Conts]
  BY <1>1 DEF PoolInv, PoolTyped
<1>3. ASSUME NEW p \in Procs, Goes(p) \/ UNCHANGED cont PROVE Counted'
  BY <1>1, <1>2, <1>3 DEF Counted, Goes, Then, At
<1>4. ASSUME NEW p \in Procs, NEW c, Then(p, c), c.op = "mark" => c.n \in Counts PROVE Counted'
  BY <1>1, <1>2, <1>4 DEF Counted, Then, At
<1>5. ASSUME NEW p \in Procs, NEW count \in Counts, Pcreate(p, count) PROVE Counted'
  <2>1. Then(p, Idle) \/ Then(p, Do("mark", 0, <<>>, count))
    BY <1>5 DEF Pcreate, NewPort, PinitAndNewPort
  <2>2. Do("mark", 0, <<>>, count).n = count
    BY DEF Do
  <2>3. QED  BY <1>3, <1>4, <2>1, <2>2, IdleGoes
<1>6. ASSUME NEW p \in Procs, FinishMark(p) \/ FinishPinit(p) \/ MarkOther(p) \/ FinishOther(p)
      PROVE  Counted'
  <2>1. \/ Then(p, Idle) \/ Then(p, Do("pinit", 0, <<>>, cont[p].n)) \/ Then(p, Do("other", 0, <<>>, 0))
    BY <1>6 DEF FinishMark, FinishPinit, MarkOther, FinishOther, PinitAndNewPort, NewPort
  <2>2. Do("pinit", 0, <<>>, cont[p].n).op = "pinit" /\ Do("other", 0, <<>>, 0).op = "other"
    BY DEF Do
  <2>3. QED  BY <1>3, <1>4, <2>1, <2>2, IdleGoes
<1>7. CASE UNCHANGED vars
  BY <1>1, <1>7 DEF Counted, At, vars, clientVars
<1>8. QED  BY <1>1, <1>3, <1>5, <1>6, <1>7, OthersGo DEF Next, PortStep, OtherStep

\* The abstract state.
Opens == [port \in Ports |-> ptstate[port] = "alloc"]
Chans == [port \in Ports |-> IF ptstate[port] = "alloc" THEN ptq[port] ELSE <<>>]
Asking == [p \in Procs |-> Asked(p)]

Asks(c) ==
  CASE c.op = "psend"    -> [op |-> "send", on |-> c.on, gen |-> c.n]
    [] c.op = "preceive" -> [op |-> "recv", on |-> c.on, gen |-> c.n]
    [] c.op = "dead"     -> [op |-> "dead", on |-> 0, gen |-> 0]
    [] OTHER             -> [op |-> "none", on |-> 0, gen |-> 0]

LEMMA AsksIs ==
  ASSUME NEW c
  PROVE  /\ c.op = "psend" => Asks(c) = [op |-> "send", on |-> c.on, gen |-> c.n]
         /\ c.op = "preceive" => Asks(c) = [op |-> "recv", on |-> c.on, gen |-> c.n]
         /\ c.op = "dead" => Asks(c) = [op |-> "dead", on |-> 0, gen |-> 0]
         /\ c.op \notin {"psend", "preceive", "dead"} => Asks(c) = [op |-> "none", on |-> 0, gen |-> 0]
BY DEF Asks

LEMMA AskingMoves ==
  ASSUME PoolInv, NEW p \in Procs, NEW c, Then(p, c)
  PROVE  /\ Asking[p] = Asks(cont[p]) /\ Asking' = [Asking EXCEPT ![p] = Asks(c)]
         /\ Asks(c) = Asks(cont[p]) => Asking' = Asking
<1>1. cont \in [Procs -> Conts] /\ cont' = [cont EXCEPT ![p] = c]
  BY DEF PoolInv, PoolTyped, Then
<1>2. \A q \in Procs : Asked(q) = Asks(cont[q]) /\ Asked(q)' = Asks(cont'[q])
  BY DEF Asked, Asks, At
<1>3. Asking = [q \in Procs |-> Asks(cont[q])] /\ Asking' = [q \in Procs |-> Asks(cont'[q])]
  BY <1>2 DEF Asking
<1>4. cont'[p] = c /\ \A q \in Procs \ {p} : cont'[q] = cont[q]
  BY <1>1
<1> HIDE DEF Asks
<1>5. Asking' = [Asking EXCEPT ![p] = Asks(c)]
  BY <1>3, <1>4
<1>6. QED  BY <1>3, <1>4, <1>5

\* A step that shows nothing.
Same == UNCHANGED <<Opens, ptseq, ptmaxcnt, Chans, Asking>>

LEMMA SameVars == Same => UNCHANGED (AbsPorts!vars)
BY DEF AbsPorts!vars, Same, Opens, Chans, Asking

LEMMA Hidden ==
  ASSUME PoolInv, NEW p \in Procs, NEW c, Then(p, c), Asks(c) = Asks(cont[p]),
         UNCHANGED <<ptstate, ptseq, ptmaxcnt, ptq>>
  PROVE  Same
<1>1. Opens' = Opens /\ Chans' = Chans
  BY DEF Opens, Chans
<1>2. QED  BY <1>1, AskingMoves DEF Same

LEMMA NewPortMaps ==
  ASSUME PortInv, NEW p \in Procs, Asks(cont[p]) = Asks(Idle), NEW count \in Counts, NEW next \in Int,
         NewPort(p, count, ptstate, next)
  PROVE  Same \/ \E id \in Ports : AbsPorts!Create(id, count)
<1> DEFINE search == PortSearch(next)
           free == {i \in 1 .. NPorts : ptstate[search[i]] = "free"}
<1>1. Then(p, Idle) /\ PoolInv /\ PortTyped /\ ptq \in [Ports -> Seq(Live)]
  BY DEF NewPort, PortInv, PoolInv, PoolTyped
<1>2. CASE free = {}
  <2>1. UNCHANGED <<ptstate, ptseq, ptmaxcnt, ptq>>
    BY <1>2 DEF NewPort
  <2>2. QED  BY <1>1, <2>1, Hidden
<1>3. CASE free # {}
  <2>1. Min(free) \in free
    <3>1. free \subseteq Nat
      OBVIOUS
    <3>2. QED  BY <1>3, <3>1, MinNat
  <2>2. PICK id \in Ports : id = search[Min(free)] /\ ptstate[id] = "free"
    BY <2>1, SearchPorts
  <2>3. /\ ptstate' = [ptstate EXCEPT ![id] = "alloc"] /\ ptq' = [ptq EXCEPT ![id] = <<>>]
        /\ ptseq' = [ptseq EXCEPT ![id] = @ + 1] /\ ptmaxcnt' = [ptmaxcnt EXCEPT ![id] = count]
    BY <1>3, <2>2 DEF NewPort
  <2>4. Opens' = [Opens EXCEPT ![id] = TRUE] /\ ~Opens[id]
    <3>1. ptstate \in [Ports -> {"free", "alloc", "limbo"}]
      BY <1>1 DEF PortTyped
    <3>2. \A k \in Ports : (ptstate'[k] = "alloc") = (IF k = id THEN TRUE ELSE ptstate[k] = "alloc")
      BY <2>3, <3>1
    <3>3. QED  BY <2>2, <3>2 DEF Opens
  <2>5. Chans' = Chans
    <3>1. ASSUME NEW k \in Ports
          PROVE  (IF ptstate'[k] = "alloc" THEN ptq'[k] ELSE <<>>) = (IF ptstate[k] = "alloc" THEN ptq[k] ELSE <<>>)
      BY <1>1, <2>2, <2>3 DEF PortTyped
    <3>2. QED  BY <3>1 DEF Chans
  <2>6. Asking' = Asking
    BY <1>1, AskingMoves
  <2>7. AbsPorts!Create(id, count)
    BY <2>3, <2>4, <2>5, <2>6 DEF AbsPorts!Create, Opens, Chans, Asking
  <2>8. QED  BY <2>7
<1>4. QED  BY <1>2, <1>3

LEMMA MarkMaps ==
  ASSUME PortInv, Counted, MarkedAtOnce, MarkedAtOnce', NEW p \in Procs,
         \/ \E count \in Counts : Pcreate(p, count)
         \/ FinishMark(p) \/ FinishPinit(p) \/ MarkOther(p) \/ FinishOther(p)
  PROVE  Same \/ \E id \in Ports, count \in Counts : AbsPorts!Create(id, count)
<1>1. /\ PoolInv /\ PortTyped /\ PinitFirst /\ cont \in [Procs -> Conts] /\ ptnextp \in Int /\ pinits \in Nat
  BY DEF PortInv, PortTyped, PoolInv, PoolTyped
<1>2. \A c, d : c.op \in {"user", "mark", "other"} /\ d.op \in {"user", "mark", "other"} => Asks(c) = Asks(d)
  BY AsksIs
<1>3. Idle.op = "user" /\ \A op, on, buf, n : Do(op, on, buf, n).op = op
  BY DEF Idle, Do
<1>4. ASSUME NEW count \in Counts, NEW next \in Int, NewPort(p, count, ptstate, next), cont[p].op \in {"user", "mark"}
      PROVE  Same \/ \E id \in Ports : AbsPorts!Create(id, count)
  BY <1>1, <1>2, <1>3, <1>4, NewPortMaps
<1>5. ASSUME NEW count \in Counts, PinitAndNewPort(p, count), cont[p].op \in {"user", "mark"}
      PROVE  Same \/ \E id \in Ports : AbsPorts!Create(id, count)
  <2>1. pinits = 0
    BY <1>1, <1>5 DEF PinitAndNewPort, MarkedAtOnce
  <2>2. ptstate = [id \in Ports |-> "free"]
    BY <1>1, <2>1 DEF PinitFirst, PortTyped
  <2>3. NewPort(p, count, ptstate, NPorts - 1) /\ NPorts - 1 \in Int
    BY <1>5, <2>2, PortsAssumption DEF PinitAndNewPort
  <2>4. QED  BY <1>4, <1>5, <2>3
<1>6. ASSUME PortsAlone, NEW c, Then(p, c), c.op \in {"user", "mark", "other"}, cont[p].op \in {"user", "mark", "other"}
      PROVE  Same
  <2>1. UNCHANGED <<ptstate, ptseq, ptmaxcnt, ptq>>
    BY <1>6 DEF PortsAlone, tableVars
  <2>2. QED  BY <1>1, <1>2, <1>6, <2>1, Hidden
<1>7. ASSUME NEW count \in Counts, Pcreate(p, count)
      PROVE  Same \/ \E id \in Ports : AbsPorts!Create(id, count)
  <2>1. cont[p].op = "user"
    BY <1>3, <1>7 DEF Pcreate, Call
  <2>2. CASE marked
    BY <1>1, <1>4, <1>7, <2>1, <2>2 DEF Pcreate
  <2>3. CASE ~marked /\ ~Blocks(mkmutex)
    BY <1>5, <1>7, <2>1, <2>3 DEF Pcreate
  <2>4. CASE ~marked /\ Blocks(mkmutex)
    <3>1. Then(p, Do("mark", 0, <<>>, count)) /\ PortsAlone
      BY <1>7, <2>4 DEF Pcreate
    <3>2. QED  BY <1>3, <1>6, <2>1, <3>1
  <2>5. QED  BY <2>2, <2>3, <2>4
<1>8. ASSUME FinishMark(p)
      PROVE  \E count \in Counts : Same \/ \E id \in Ports : AbsPorts!Create(id, count)
  <2>1. cont[p].op = "mark" /\ cont[p].n \in Counts
    BY <1>8 DEF FinishMark, At, Counted
  <2>2. CASE Frees(mkmutex)
    <3>1. Then(p, Do("pinit", 0, <<>>, cont[p].n))
      BY <1>8, <2>2 DEF FinishMark
    <3>2. cont'[p].op = "pinit"
      BY <1>1, <3>1 DEF Then, Do
    <3>3. QED  BY <3>2 DEF MarkedAtOnce, At
  <2>3. CASE ~Frees(mkmutex)
    BY <1>5, <1>8, <2>1, <2>3 DEF FinishMark
  <2>4. QED  BY <2>2, <2>3
<1>9. ~FinishPinit(p)
  BY DEF FinishPinit, MarkedAtOnce
<1>10. MarkOther(p) => Same
  <2>1. MarkOther(p) => /\ PortsAlone /\ Then(p, Do("other", 0, <<>>, 0)) /\ cont[p].op = "user"
    BY <1>3 DEF MarkOther, Call
  <2>2. QED  BY <1>3, <1>6, <2>1
<1>11. FinishOther(p) => Same
  <2>1. FinishOther(p) => /\ PortsAlone /\ Then(p, Idle) /\ cont[p].op = "other"
    BY DEF FinishOther, At
  <2>2. QED  BY <1>3, <1>6, <2>1
<1>12. QED  BY <1>7, <1>8, <1>9, <1>10, <1>11

\* A step on the list of one port: at most its sequence changes.
LEMMA OneChan ==
  ASSUME PortInv, NEW k \in Ports, ptstate[k] = "alloc", NEW l, ptq' = [ptq EXCEPT ![k] = l],
         UNCHANGED <<ptstate, ptseq, ptmaxcnt>>
  PROVE  /\ UNCHANGED <<Opens, ptseq, ptmaxcnt>> /\ Opens[k] /\ Chans[k] = ptq[k]
         /\ Chans' = [Chans EXCEPT ![k] = l]
<1>1. PortTyped /\ ptq \in [Ports -> Seq(Live)]
  BY DEF PortInv, PoolInv, PoolTyped
<1>2. UNCHANGED Opens /\ Opens[k] /\ Chans[k] = ptq[k]
  BY DEF Opens, Chans
<1>3. \A j \in Ports : (IF ptstate'[j] = "alloc" THEN ptq'[j] ELSE <<>>)
                       = (IF j = k THEN l ELSE IF ptstate[j] = "alloc" THEN ptq[j] ELSE <<>>)
  BY <1>1
<1>4. Chans' = [Chans EXCEPT ![k] = l]
  BY <1>3 DEF Chans
<1>5. QED  BY <1>2, <1>4

LEMMA PutMaps ==
  ASSUME PortInv, ~panicked, NEW p \in Procs, NEW k \in Ports, ptstate[k] = "alloc", NEW b \in Bufs, Put(p, k, b),
         cont[p] = Idle \/ Comes(p, "psend", k), Len(ptq[k]) < ptmaxcnt[k],
         UNCHANGED <<ptstate, ptseq, ptmaxcnt>>
  PROVE  Same \/ AbsPorts!Send(p, k)
<1>1. cont \in [Procs -> Conts] /\ PoolInv /\ Idle.op = "user"
  BY ContTypes DEF PortInv, PoolInv, PoolTyped
<1>2. CASE ptfree = 0
  <2>1. UNCHANGED <<ptq, cont>>
    BY <1>2 DEF Put
  <2>2. Then(p, cont[p])
    BY <1>1, <2>1 DEF Then
  <2>3. QED  BY <1>1, <2>1, <2>2, Hidden
<1>3. CASE ptfree # 0
  <2>1. Then(p, Idle) /\ ptq' = [ptq EXCEPT ![k] = Append(ptq[k], b)]
    BY <1>3 DEF Put
  <2>2. /\ UNCHANGED <<Opens, ptseq, ptmaxcnt>> /\ Opens[k] /\ Chans[k] = ptq[k]
        /\ Chans' = [Chans EXCEPT ![k] = Append(ptq[k], b)]
    BY <2>1, OneChan
  <2>3. /\ Asking[p] = Asks(cont[p]) /\ Asking' = [Asking EXCEPT ![p] = Asks(Idle)]
    BY <1>1, <2>1, AskingMoves
  <2>4. /\ Asks(Idle) = AbsPorts!None
        /\ Asking[p] \in {AbsPorts!None, [op |-> "send", on |-> k, gen |-> ptseq[k]]}
    <3>1. Asks(Idle) = AbsPorts!None
      BY <1>1, AsksIs DEF AbsPorts!None
    <3>2. Comes(p, "psend", k) => Asks(cont[p]) = [op |-> "send", on |-> k, gen |-> ptseq[k]]
      BY AsksIs DEF Comes
    <3>3. QED  BY <2>3, <3>1, <3>2
  <2>5. AbsPorts!Entitled(p, "send", k)
    BY <2>2, <2>4 DEF AbsPorts!Entitled, AbsPorts!AskedFor, Opens, Asking
  <2>6. AbsPorts!Answered(p)
    BY <2>3, <2>4 DEF AbsPorts!Answered, Asking
  <2>7. QED  BY <2>2, <2>5, <2>6 DEF AbsPorts!Send, Opens, Chans
<1>4. QED  BY <1>2, <1>3

LEMMA TakeMaps ==
  ASSUME PortInv, NEW p \in Procs, NEW k \in Ports, ptstate[k] = "alloc", ptq[k] # <<>>, Take(p, k), Then(p, Idle),
         cont[p] = Idle \/ Comes(p, "preceive", k), UNCHANGED <<ptstate, ptseq, ptmaxcnt>>
  PROVE  AbsPorts!Receive(p, k)
<1>1. PoolInv /\ Idle.op = "user"
  BY ContTypes DEF PortInv
<1>2. ptq' = [ptq EXCEPT ![k] = Tail(ptq[k])]
  BY DEF Take
<1>3. /\ UNCHANGED <<Opens, ptseq, ptmaxcnt>> /\ Opens[k] /\ Chans[k] = ptq[k]
      /\ Chans' = [Chans EXCEPT ![k] = Tail(ptq[k])]
  BY <1>2, OneChan
<1>4. /\ Asking[p] = Asks(cont[p]) /\ Asking' = [Asking EXCEPT ![p] = Asks(Idle)]
  BY <1>1, AskingMoves
<1>5. /\ Asks(Idle) = AbsPorts!None
      /\ Asking[p] \in {AbsPorts!None, [op |-> "recv", on |-> k, gen |-> ptseq[k]]}
  <2>1. Asks(Idle) = AbsPorts!None
    BY <1>1, AsksIs DEF AbsPorts!None
  <2>2. Comes(p, "preceive", k) => Asks(cont[p]) = [op |-> "recv", on |-> k, gen |-> ptseq[k]]
    BY AsksIs DEF Comes
  <2>3. QED  BY <1>4, <2>1, <2>2
<1>6. AbsPorts!Entitled(p, "recv", k)
  BY <1>3, <1>5 DEF AbsPorts!Entitled, AbsPorts!AskedFor, Opens, Asking
<1>7. AbsPorts!Answered(p)
  BY <1>4, <1>5 DEF AbsPorts!Answered, Asking
<1>8. QED  BY <1>3, <1>6, <1>7 DEF AbsPorts!Receive, Opens, Chans

LEMMA AskMaps ==
  ASSUME PortInv, NEW p \in Procs, cont[p] = Idle, NEW k \in Ports, ptstate[k] = "alloc", NEW c, Then(p, c),
         c.op \in {"psend", "preceive"}, c.on = k, c.n = ptseq[k], UNCHANGED <<ptstate, ptseq, ptmaxcnt, ptq>>
  PROVE  \E op \in {"send", "recv"} : AbsPorts!Ask(p, op, k)
<1>1. PoolInv /\ Idle.op = "user"
  BY ContTypes DEF PortInv
<1>2. UNCHANGED <<Opens, ptseq, ptmaxcnt, Chans>> /\ Opens[k]
  BY DEF Opens, Chans
<1>3. Asking[p] = Asks(Idle) /\ Asking' = [Asking EXCEPT ![p] = Asks(c)]
  BY <1>1, AskingMoves
<1>4. Asks(Idle) = AbsPorts!None
  BY <1>1, AsksIs DEF AbsPorts!None
<1>5. PICK op \in {"send", "recv"} : Asks(c) = [op |-> op, on |-> k, gen |-> ptseq[k]]
  BY AsksIs
<1>6. AbsPorts!Ask(p, op, k)
  BY <1>2, <1>3, <1>4, <1>5 DEF AbsPorts!Ask, AbsPorts!AskedFor, Opens, Chans, Asking
<1>7. QED  BY <1>6

\* A call that finds its port cleared or created anew.
LEMMA FailMaps ==
  ASSUME PortInv, NEW p \in Procs, cont[p].op \in {"psend", "preceive"}, ~Still(p), Then(p, Idle),
         UNCHANGED <<ptstate, ptseq, ptmaxcnt, ptq>>
  PROVE  AbsPorts!Fail(p)
<1>1. PoolInv /\ Idle.op = "user" /\ Placed(p)
  BY ContTypes DEF PortInv, PoolInv
<1>2. PICK k \in Ports : k = cont[p].on
  BY <1>1 DEF Placed
<1>3. UNCHANGED <<Opens, ptseq, ptmaxcnt, Chans>>
  BY DEF Opens, Chans
<1>4. Asking[p] = Asks(cont[p]) /\ Asking' = [Asking EXCEPT ![p] = Asks(Idle)]
  BY <1>1, AskingMoves
<1>5. Asks(Idle) = AbsPorts!None
  BY <1>1, AsksIs DEF AbsPorts!None
<1>6. PICK op \in {"send", "recv"} : Asks(cont[p]) = [op |-> op, on |-> k, gen |-> cont[p].n]
  BY <1>2, AsksIs
<1>7. ~Opens[k] \/ ptseq[k] # cont[p].n
  BY <1>2 DEF Still, Opens
<1>8. Asking[p] \notin {AbsPorts!None, AbsPorts!Dead} /\ Asking[p].on = k /\ Asking[p].gen = cont[p].n
  BY <1>4, <1>6 DEF AbsPorts!None, AbsPorts!Dead
<1>9. QED  BY <1>3, <1>4, <1>5, <1>7, <1>8 DEF AbsPorts!Fail, AbsPorts!Answered, Opens, Chans, Asking

LEMMA PsendMaps ==
  ASSUME PortInv, ~panicked, NEW p \in Procs, NEW k \in Ports, NEW b \in Bufs, Psend(p, k, b)
  PROVE  Same \/ AbsPorts!Send(p, k) \/ \E op \in {"send", "recv"} : AbsPorts!Ask(p, op, k)
<1>1. /\ PortTyped /\ PortRight(k) /\ Room(k) /\ cont[p] = Idle /\ ptstate[k] = "alloc" /\ ptssem[k].ok
      /\ ptq[k] \in Seq(Live)
  BY DEF Psend, Call, PortInv, PortRight, PoolInv, PoolTyped
<1>2. UNCHANGED <<ptstate, ptseq, ptmaxcnt>>
  BY DEF Psend, SendUnchanged, tableVars
<1>3. CASE Blocks(ptssem[k])
  <2> DEFINE c == Do("psend", k, b, ptseq[k])
  <2>1. Then(p, c) /\ UNCHANGED ptq
    BY <1>3 DEF Psend
  <2>2. c.op = "psend" /\ c.on = k /\ c.n = ptseq[k]
    BY DEF Do
  <2> HIDE DEF c
  <2>3. QED  BY <1>1, <1>2, <2>1, <2>2, AskMaps
<1>4. CASE ~Blocks(ptssem[k])
  <2>1. Put(p, k, b)
    BY <1>4 DEF Psend
  <2>2. Len(ptq[k]) < ptmaxcnt[k]
    <3> DEFINE n == ptssem[k].n
               w == Cardinality(Sending(k))
               l == Len(ptq[k])
               x == lostS[k]
               m == ptmaxcnt[k]
    <3>1. n \in Int /\ n > 0
      <4>1. n \in Int
        BY <1>1, SoundFacts DEF PortRight
      <4>2. QED  BY <1>1, <1>4, <4>1 DEF Blocks
    <3>2. w \in Nat /\ l \in Nat /\ x \in Nat /\ m \in Nat
      BY <1>1, HavingCounted DEF Sending, PortTyped
    <3>3. n + w + l + x = m
      BY <1>1 DEF Room
    <3> HIDE DEF n, w, l, x, m
    <3>4. l < m
      BY ONLY <3>1, <3>2, <3>3
    <3>5. QED  BY <3>4 DEF l, m
  <2>3. QED  BY <1>1, <1>2, <2>1, <2>2, PutMaps
<1>5. QED  BY <1>3, <1>4

LEMMA FinishPsendMaps ==
  ASSUME PortInv, ~panicked, NEW p \in Procs, FinishPsend(p)
  PROVE  Same \/ AbsPorts!Fail(p) \/ \E k \in Ports : AbsPorts!Send(p, k)
<1>1. /\ PortTyped /\ PoolTyped /\ Placed(p) /\ cont[p] \in Conts /\ cont[p].op = "psend"
      /\ UNCHANGED <<ptstate, ptseq, ptmaxcnt>>
  BY DEF PortInv, PoolInv, PoolTyped, FinishPsend, At, SendUnchanged, tableVars
<1>2. PICK k \in Ports : k = cont[p].on
  BY <1>1 DEF Placed
<1>3. CASE ~Still(p)
  <2>1. Then(p, Idle) /\ UNCHANGED ptq
    BY <1>3 DEF FinishPsend
  <2>2. QED  BY <1>1, <1>3, <2>1, FailMaps
<1>4. CASE Still(p)
  <2>1. Put(p, k, cont[p].buf) /\ ptstate[k] = "alloc" /\ Comes(p, "psend", k)
    BY <1>1, <1>2, <1>4 DEF FinishPsend, Still, Comes
  <2>2. cont[p].buf \in Bufs
    BY <1>1 DEF Placed, PoolTyped, Live
  <2>3. Sound(ptssem[k]) /\ ptssem[k].ok /\ ptq[k] \in Seq(Live)
    BY <1>1, <2>1 DEF PortInv, PortRight, RestOk, Comes, PoolTyped
  <2>4. Len(ptq[k]) < ptmaxcnt[k]
    <3> DEFINE n == ptssem[k].n
               q == Len(ptssem[k].q)
               w == Cardinality(Senders(k))
               l == Len(ptq[k])
               x == lostS[k]
               m == ptmaxcnt[k]
    <3>1. n \in Int /\ q \in Nat /\ n + q >= 0
      <4>1. n \in Int /\ ptssem[k].q \in Seq(Procs) /\ q = (IF ptssem[k].ok /\ n < 0 THEN -n ELSE 0)
        BY <2>3, SoundFacts
      <4>2. q \in Nat
        BY <4>1
      <4> HIDE DEF n, q
      <4>3. QED  BY <2>3, <4>1, <4>2
    <3>2. w \in Nat /\ w > 0
      <4>1. p \in Senders(k)
        BY <1>1, <1>2, <1>4 DEF Senders, Released, FinishPsend, At
      <4>2. IsFiniteSet(Senders(k))
        <5>1. Senders(k) \subseteq Procs
          BY DEF Senders, Released
        <5>2. QED  BY <5>1, ClientsAssumption, FS_Subset
      <4>3. QED  BY <4>1, <4>2, FS_CardinalityType, FS_EmptySet
    <3>3. l \in Nat /\ x \in Nat /\ m \in Nat
      BY <1>1, <2>3 DEF PortTyped
    <3>4. n + q + w + l + x = m
      BY <2>1, <2>3, RoomAccountedInv DEF RoomAccounted
    <3> HIDE DEF n, q, w, l, x, m
    <3>5. l < m
      BY ONLY <3>1, <3>2, <3>3, <3>4
    <3>6. QED  BY <3>5 DEF l, m
  <2>5. QED  BY <1>1, <2>1, <2>2, <2>4, PutMaps
<1>5. QED  BY <1>3, <1>4

LEMMA ReceiveMaps ==
  ASSUME PortInv, NEW p \in Procs, (\E k \in Ports : Preceive(p, k)) \/ FinishPreceive(p)
  PROVE  \/ AbsPorts!Fail(p)
         \/ \E k \in Ports : AbsPorts!Receive(p, k) \/ \E op \in {"send", "recv"} : AbsPorts!Ask(p, op, k)
<1>1. UNCHANGED <<ptstate, ptseq, ptmaxcnt>>
  BY DEF Preceive, FinishPreceive, SendUnchanged, tableVars
<1>2. ASSUME NEW k \in Ports, Preceive(p, k)
      PROVE  AbsPorts!Receive(p, k) \/ \E op \in {"send", "recv"} : AbsPorts!Ask(p, op, k)
  <2>1. cont[p] = Idle /\ ptstate[k] = "alloc"
    BY <1>2 DEF Preceive, Call
  <2>2. CASE Blocks(ptrsem[k])
    <3> DEFINE c == Do("preceive", k, <<>>, ptseq[k])
    <3>1. Then(p, c) /\ UNCHANGED ptq
      BY <1>2, <2>2 DEF Preceive
    <3>2. c.op = "preceive" /\ c.on = k /\ c.n = ptseq[k]
      BY DEF Do
    <3> HIDE DEF c
    <3>3. QED  BY <1>1, <2>1, <3>1, <3>2, AskMaps
  <2>3. CASE ~Blocks(ptrsem[k])
    <3>1. Then(p, Idle) /\ ptq[k] # <<>> /\ Take(p, k)
      BY <1>2, <2>3 DEF Preceive
    <3>2. QED  BY <1>1, <2>1, <3>1, TakeMaps
  <2>4. QED  BY <2>2, <2>3
<1>3. ASSUME FinishPreceive(p)
      PROVE  AbsPorts!Fail(p) \/ \E k \in Ports : AbsPorts!Receive(p, k)
  <2>1. cont[p].op = "preceive" /\ Placed(p) /\ Then(p, Idle)
    BY <1>3 DEF PortInv, PoolInv, FinishPreceive, At
  <2>2. PICK k \in Ports : k = cont[p].on
    BY <2>1 DEF Placed
  <2>3. CASE Still(p)
    <3>1. ptq[k] # <<>> /\ Take(p, k) /\ ptstate[k] = "alloc" /\ Comes(p, "preceive", k)
      BY <1>3, <2>1, <2>2, <2>3 DEF FinishPreceive, Still, Comes
    <3>2. QED  BY <1>1, <2>1, <3>1, TakeMaps
  <2>4. CASE ~Still(p)
    <3>1. UNCHANGED ptq
      BY <1>3, <2>4 DEF FinishPreceive
    <3>2. QED  BY <1>1, <2>1, <2>4, <3>1, FailMaps
  <2>5. QED  BY <2>3, <2>4
<1>4. QED  BY <1>2, <1>3

\* What a step of a clearing shows: the state it leaves the port in, and that a port that
\* is open again has an empty list.
ClearShows(p, k) ==
  \E st, l, c :
    /\ ptstate' = [ptstate EXCEPT ![k] = st] /\ ptq' = [ptq EXCEPT ![k] = l]
    /\ st = "alloc" => l = <<>>
    /\ Then(p, c) /\ c.op \in {"user", "dispose", "clearR", "clearEnd"}

LEMMA StopShows ==
  ASSUME NEW p, NEW op \in {"user", "dispose", "clearR", "clearEnd"}, NEW port, NEW n, NEW to,
         StopAt(p, op, port, n, to)
  PROVE  \E c : Then(p, c) /\ c.op = op
<1> DEFINE c == [Do(op, port, <<>>, n) EXCEPT !.to = to]
<1>1. c.op = op
  BY DEF Do
<1> HIDE DEF c
<1>2. op = "user" => Then(p, Idle) /\ Idle.op = op
  BY DEF StopAt, Idle
<1>3. op # "user" => Then(p, c)
  BY DEF StopAt, c
<1>4. QED  BY <1>1, <1>2, <1>3

LEMMA ClearMaps ==
  ASSUME PortInv, NEW p \in Procs, cont[p].op \in {"user", "dispose", "clearR", "clearEnd"},
         NEW k \in Ports, ClearShows(p, k), UNCHANGED ptmaxcnt,
         \/ ptstate[k] = "alloc" /\ ptseq' = [ptseq EXCEPT ![k] = @ + 1]
         \/ ptstate[k] = "limbo" /\ ptseq' = ptseq
  PROVE  Same \/ AbsPorts!Clear(k) \/ AbsPorts!Reopen(k)
<1>1. PICK st, l, c :
         /\ ptstate' = [ptstate EXCEPT ![k] = st] /\ ptq' = [ptq EXCEPT ![k] = l]
         /\ st = "alloc" => l = <<>>
         /\ Then(p, c) /\ c.op \in {"user", "dispose", "clearR", "clearEnd"}
  BY DEF ClearShows
<1>2. PoolInv /\ PortTyped /\ ptq \in [Ports -> Seq(Live)]
  BY DEF PortInv, PoolInv, PoolTyped
<1>3. Asking' = Asking
  <2>1. Asks(c) = Asks(cont[p])
    BY <1>1, AsksIs
  <2>2. QED  BY <1>1, <1>2, <2>1, AskingMoves
<1>4. Opens' = [Opens EXCEPT ![k] = (st = "alloc")]
  <2>1. \A j \in Ports : (ptstate'[j] = "alloc") = (IF j = k THEN st = "alloc" ELSE ptstate[j] = "alloc")
    BY <1>1, <1>2 DEF PortTyped
  <2>2. QED  BY <2>1 DEF Opens
<1>5. Chans' = [Chans EXCEPT ![k] = <<>>]
  <2>1. \A j \in Ports : (IF ptstate'[j] = "alloc" THEN ptq'[j] ELSE <<>>)
                         = (IF j = k THEN <<>> ELSE IF ptstate[j] = "alloc" THEN ptq[j] ELSE <<>>)
    BY <1>1, <1>2 DEF PortTyped
  <2>2. QED  BY <2>1 DEF Chans
<1>6. CASE ptstate[k] = "alloc" /\ ptseq' = [ptseq EXCEPT ![k] = @ + 1]
  <2>1. Opens[k] /\ Opens[k] = TRUE
    BY <1>6 DEF Opens
  <2>2. Opens' \in {Opens, [Opens EXCEPT ![k] = FALSE]}
    <3>1. st # "alloc" => Opens' = [Opens EXCEPT ![k] = FALSE]
      <4>1. st # "alloc" => (st = "alloc") = FALSE
        OBVIOUS
      <4>2. QED  BY <1>4, <4>1
    <3>2. st = "alloc" => Opens' = Opens
      <4>1. st = "alloc" => (st = "alloc") = TRUE
        OBVIOUS
      <4>2. [Opens EXCEPT ![k] = TRUE] = Opens
        BY <2>1 DEF Opens
      <4>3. QED  BY <1>4, <4>1, <4>2
    <3>3. QED  BY <3>1, <3>2
  <2>3. AbsPorts!Clear(k)
    BY <1>3, <1>5, <1>6, <2>1, <2>2 DEF AbsPorts!Clear, Opens, Chans, Asking
  <2>4. QED  BY <2>3
<1>7. CASE ptstate[k] = "limbo" /\ ptseq' = ptseq
  <2>1. ~Opens[k] /\ Opens[k] = FALSE /\ Chans[k] = <<>>
    BY <1>7 DEF Opens, Chans
  <2>2. Chans' = Chans
    BY <1>5, <2>1 DEF Chans
  <2>3. CASE st = "alloc"
    <3>1. Opens' = [Opens EXCEPT ![k] = TRUE]
      <4>1. (st = "alloc") = TRUE
        BY <2>3
      <4>2. QED  BY <1>4, <4>1
    <3>2. AbsPorts!Reopen(k)
      BY <1>3, <1>7, <2>1, <2>2, <3>1 DEF AbsPorts!Reopen, Opens, Chans, Asking
    <3>3. QED  BY <3>2
  <2>4. CASE st # "alloc"
    <3>1. Opens' = Opens
      <4>1. (st = "alloc") = FALSE
        BY <2>4
      <4>2. [Opens EXCEPT ![k] = FALSE] = Opens
        BY <2>1 DEF Opens
      <4>3. QED  BY <1>4, <4>1, <4>2
    <3>2. QED  BY <1>3, <1>7, <2>2, <3>1 DEF Same
  <2>5. QED  BY <2>3, <2>4
<1>8. QED  BY <1>6, <1>7

LEMMA SetPortShows ==
  ASSUME NEW p, NEW k, NEW to, NEW d, SetPort(p, k, to, d), d.op \in {"user", "dispose", "clearR", "clearEnd"},
         ptq' = [ptq EXCEPT ![k] = <<>>]
  PROVE  ClearShows(p, k)
<1>1. StopAt(p, d.op, k, 0, to) /\ ptstate' = [ptstate EXCEPT ![k] = d.state]
  BY DEF SetPort
<1>2. PICK c : Then(p, c) /\ c.op = d.op
  BY <1>1, StopShows
<1>3. QED  BY <1>1, <1>2 DEF ClearShows

LEMMA ClearFromShows ==
  ASSUME PortInv, NEW p, NEW k \in Ports, NEW i, NEW to, ClearFrom(p, k, i, to)
  PROVE  ClearShows(p, k)
<1> DEFINE d == SClear(Clearing(k), to, ptmaxcnt[k])
<1>1. d.op \in {"user", "dispose", "clearR", "clearEnd"}
  BY ClearOps
<1>2. CASE \E n : StopAt(p, "dispose", k, n, to) /\ ptstate' = [ptstate EXCEPT ![k] = "limbo"] /\ UNCHANGED ptq
  <2>1. PICK c : Then(p, c) /\ c.op = "dispose"
    BY <1>2, StopShows
  <2>2. ptq' = [ptq EXCEPT ![k] = ptq[k]]
    BY <1>2 DEF PortInv, PoolInv, PoolTyped
  <2>3. QED  BY <1>2, <2>1, <2>2 DEF ClearShows
<1>3. CASE SetPort(p, k, to, d) /\ ptq' = [ptq EXCEPT ![k] = <<>>]
  <2> HIDE DEF d
  <2>1. QED  BY <1>1, <1>3, SetPortShows
<1>4. QED  BY <1>2, <1>3 DEF ClearFrom

LEMMA PtclearMaps ==
  ASSUME PortInv, NEW p \in Procs, NEW k \in Ports, Preset(p, k) \/ Pdelete(p, k)
  PROVE  Same \/ AbsPorts!Clear(k) \/ AbsPorts!Reopen(k)
<1>1. PICK to : Ptclear(p, k, to) /\ cont[p] = Idle
  BY DEF Preset, Pdelete, Call
<1>2. /\ ClearFrom(p, k, 1, to) /\ UNCHANGED ptmaxcnt /\ ptstate[k] = "alloc"
      /\ ptseq' = [ptseq EXCEPT ![k] = @ + 1]
  BY <1>1 DEF Ptclear, ClearUnchanged
<1>3. cont[p].op = "user"
  BY <1>1, ContTypes
<1>4. ClearShows(p, k)
  BY <1>2, ClearFromShows
<1>5. QED  BY <1>2, <1>3, <1>4, ClearMaps

LEMMA FinishClearMaps ==
  ASSUME PortInv, NEW p \in Procs, FinishDispose(p) \/ FinishClear(p)
  PROVE  Same \/ \E k \in Ports : AbsPorts!Clear(k) \/ AbsPorts!Reopen(k)
<1>1. cont[p].op \in {"dispose", "clearR", "clearEnd"} /\ Placed(p) /\ ptq \in [Ports -> Seq(Live)]
  BY DEF FinishDispose, FinishClear, At, PortInv, PoolInv, PoolTyped
<1>2. PICK k \in Ports : k = cont[p].on
  BY <1>1 DEF Placed
<1>3. RestOk(cont[p], k) /\ Clears(cont[p], k)
  BY <1>1, <1>2 DEF PortInv, PortRight, Clears, ClearOp
<1>4. /\ ptstate[k] = "limbo" /\ ptseq' = ptseq /\ UNCHANGED ptmaxcnt
      /\ cont[p].op # "dispose" => ptq[k] = <<>>
  BY <1>3 DEF RestOk, FinishDispose, FinishClear, ClearUnchanged
<1>5. ClearShows(p, k)
  <2>1. CASE FinishDispose(p)
    <3>1. ClearFrom(p, k, cont[p].n, cont[p].to)
      BY <1>2, <2>1 DEF FinishDispose
    <3>2. QED  BY <3>1, ClearFromShows
  <2>2. CASE FinishClear(p)
    <3> DEFINE to == cont[p].to
               d == IF At(p, "clearR") THEN RClear(Clearing(k), to) ELSE Reopened(Clearing(k), to)
    <3>1. SetPort(p, k, to, d) /\ UNCHANGED ptq /\ cont[p].op # "dispose"
      BY <1>2, <2>2 DEF FinishClear, At
    <3>2. d.op \in {"user", "dispose", "clearR", "clearEnd"}
      BY ClearOps
    <3> HIDE DEF d, to
    <3>3. ptq' = [ptq EXCEPT ![k] = <<>>]
      BY <1>1, <1>4, <3>1
    <3>4. QED  BY <3>1, <3>2, <3>3, SetPortShows
  <2>3. QED  BY <2>1, <2>2
<1>6. QED  BY <1>1, <1>4, <1>5, ClearMaps

LEMMA KillMaps ==
  ASSUME PortInv, NEW p \in Procs, Kill(p)
  PROVE  AbsPorts!Die(p)
<1> DEFINE c == Do("dead", 0, <<>>, 0)
<1>1. Then(p, c) /\ UNCHANGED <<ptstate, ptseq, ptmaxcnt, ptq>> /\ PoolInv
  BY DEF Kill, tableVars, PortInv
<1>2. c.op = "dead"
  BY DEF Do
<1> HIDE DEF c
<1>3. Asks(c) = AbsPorts!Dead
  BY <1>2, AsksIs DEF AbsPorts!Dead
<1>4. Asking' = [Asking EXCEPT ![p] = Asks(c)]
  BY <1>1, AskingMoves
<1>5. UNCHANGED <<Opens, ptseq, ptmaxcnt, Chans>>
  BY <1>1 DEF Opens, Chans
<1>6. QED  BY <1>3, <1>4, <1>5 DEF AbsPorts!Die, Opens, Chans, Asking

LEMMA PoolMaps ==
  ASSUME PortInv, NEW p \in Procs, PoolStep(p), PoolAlone
  PROVE  Same
<1>1. cont \in [Procs -> Conts] /\ PoolInv /\ UNCHANGED <<ptstate, ptseq, ptmaxcnt, ptq>>
  BY DEF PortInv, PoolInv, PoolTyped, PoolAlone, tableVars, queueVars
<1>2. cont[p].op \in {"user", "getbuf", "freebuf"}
  BY ContTypes DEF PoolStep, Mkpool, Getbuf, FinishGetbuf, Freebuf, FinishFreebuf, Call, At
<1>3. \E c : Then(p, c) /\ c.op \in {"user", "getbuf", "freebuf"}
  <2>1. \A op, on, buf, n : Do(op, on, buf, n).op = op
    BY DEF Do
  <2>2. Mkpool(p) => Then(p, cont[p])
    BY <1>1 DEF Mkpool, Then
  <2>3. (\E k \in Pools : Getbuf(p, k)) => \E c : Then(p, c) /\ c.op = "getbuf"
    BY <2>1 DEF Getbuf
  <2>4. (\E b \in Bufs : Freebuf(p, b)) => \E c : Then(p, c) /\ c.op = "freebuf"
    BY <2>1 DEF Freebuf
  <2>5. FinishGetbuf(p) \/ FinishFreebuf(p) => \E c : Then(p, c) /\ c.op = "user"
    BY ContTypes DEF FinishGetbuf, FinishFreebuf
  <2>6. QED  BY <1>2, <2>2, <2>3, <2>4, <2>5 DEF PoolStep
<1>4. QED  BY <1>1, <1>2, <1>3, AsksIs, Hidden

LEMMA StepMaps ==
  PortInv /\ Counted /\ MarkedAtOnce /\ MarkedAtOnce' /\ [Next]_vars => [InitOnce => AbsPorts!Next]_(AbsPorts!vars)
<1>1. SUFFICES ASSUME PortInv, Counted, MarkedAtOnce, MarkedAtOnce', [Next]_vars
               PROVE  Same \/ AbsPorts!Next
  BY SameVars
<1>2. CASE UNCHANGED vars
  <2>1. UNCHANGED <<cont, ptstate, ptseq, ptmaxcnt, ptq>>
    BY <1>2 DEF vars, clientVars, tableVars, queueVars
  <2>2. UNCHANGED Opens /\ UNCHANGED Chans /\ UNCHANGED Asking
    BY <2>1 DEF Opens, Chans, Asking, Asked, At
  <2>3. QED  BY <2>1, <2>2 DEF Same
<1>3. ASSUME NEW p \in Procs, PoolStep(p), PoolAlone PROVE Same
  BY <1>1, <1>3, PoolMaps
<1>4. ASSUME NEW p \in Procs, PortStep(p), ~panicked PROVE Same \/ AbsPorts!Next
  <2>1. (\E count \in Counts : Pcreate(p, count)) \/ FinishMark(p) \/ FinishPinit(p) \/ MarkOther(p) \/ FinishOther(p)
        => Same \/ AbsPorts!Next
    BY <1>1, MarkMaps DEF AbsPorts!Next
  <2>2. (\E k \in Ports, b \in Bufs : Psend(p, k, b)) => Same \/ AbsPorts!Next
    BY <1>1, <1>4, PsendMaps DEF AbsPorts!Next
  <2>3. FinishPsend(p) => Same \/ AbsPorts!Next
    BY <1>1, <1>4, FinishPsendMaps DEF AbsPorts!Next
  <2>4. (\E k \in Ports : Preceive(p, k)) \/ FinishPreceive(p) => AbsPorts!Next
    BY <1>1, ReceiveMaps DEF AbsPorts!Next
  <2>5. (\E k \in Ports : Preset(p, k) \/ Pdelete(p, k)) => Same \/ AbsPorts!Next
    BY <1>1, PtclearMaps DEF AbsPorts!Next
  <2>6. FinishDispose(p) \/ FinishClear(p) => Same \/ AbsPorts!Next
    BY <1>1, FinishClearMaps DEF AbsPorts!Next
  <2>7. Kill(p) => AbsPorts!Next
    BY <1>1, KillMaps DEF AbsPorts!Next
  <2>8. QED  BY <1>4, <2>1, <2>2, <2>3, <2>4, <2>5, <2>6, <2>7 DEF PortStep
<1>5. QED  BY <1>1, <1>2, <1>3, <1>4 DEF Next

\* The port table, with its semaphores, nodes, limbo and uses of a slot, implements
\* bounded queues with generations (ports.h, psend.c, preceive.c, ptclear.c): messages
\* arrive in order, a port never holds more than its bound, and a call fails only if its
\* port was cleared or deleted meanwhile.
THEOREM PortsCorrect == Spec /\ []MarkedAtOnce => PortRefinement
<1>1. Init => AbsPorts!Init /\ Counted
  <2>1. SUFFICES ASSUME Init PROVE AbsPorts!Init /\ Counted
    OBVIOUS
  <2>2. /\ cont = [p \in Procs |-> Idle] /\ ptstate = [id \in Ports |-> "free"]
        /\ ptseq = [id \in Ports |-> 0] /\ ptmaxcnt = [id \in Ports |-> 0]
    BY <2>1 DEF Init, ClientsInit
  <2>3. Opens = [k \in Ports |-> FALSE] /\ Chans = [k \in Ports |-> <<>>]
    BY <2>2 DEF Opens, Chans
  <2>4. Asking = [p \in Procs |-> AbsPorts!None] /\ Counted
    BY <2>2, ContTypes DEF Asking, Asked, At, AbsPorts!None, Counted
  <2>5. QED  BY <2>2, <2>3, <2>4 DEF AbsPorts!Init, Opens, Chans, Asking
<1>2. PortInv => PoolInv
  BY DEF PortInv
<1>3. QED  BY <1>1, <1>2, PortInvKept, NextCounted, StepMaps, PTL DEF Spec, PortRefinement

------------------------------------------------------------------------------
(* The nodes: how many the messages take, and how many the bounds promise. *)

LEMMA SharesAre ==
  ASSUME NEW n \in [Ports -> Nat]
  PROVE  Shares(n) = {x \in Ports \X Nat : x[2] \in 1 .. n[x[1]]}
<1>1. ASSUME NEW x, x \in Shares(n) PROVE x \in Ports \X Nat /\ x[2] \in 1 .. n[x[1]]
  <2>1. PICK k \in Ports : x \in {k} \X (1 .. n[k])
    BY <1>1 DEF Shares
  <2>2. QED  BY <2>1
<1>2. ASSUME NEW x \in Ports \X Nat, x[2] \in 1 .. n[x[1]] PROVE x \in Shares(n)
  <2>1. x[1] \in Ports /\ x \in {x[1]} \X (1 .. n[x[1]])
    BY <1>2
  <2>2. QED  BY <2>1 DEF Shares
<1>3. QED  BY <1>1, <1>2

LEMMA ShareOf ==
  ASSUME NEW k, NEW m \in Nat
  PROVE  IsFiniteSet({k} \X (1 .. m)) /\ Cardinality({k} \X (1 .. m)) = m
<1>1. IsFiniteSet(1 .. m) /\ Cardinality(1 .. m) = m
  BY FS_Interval
<1>2. IsFiniteSet({k}) /\ Cardinality({k}) = 1
  BY FS_Singleton
<1>3. QED  BY <1>1, <1>2, FS_Product

LEMMA SharesFinite ==
  ASSUME NEW n \in [Ports -> Nat]
  PROVE  IsFiniteSet(Shares(n)) /\ Cardinality(Shares(n)) \in Nat
<1> DEFINE S == {{k} \X (1 .. n[k]) : k \in Ports}
           f == [k \in Ports |-> {k} \X (1 .. n[k])]
<1>1. IsFiniteSet(Ports)
  BY PortsAssumption, FS_Interval DEF Ports
<1>2. f \in Surjection(Ports, S)
  BY DEF Surjection
<1>3. IsFiniteSet(S)
  BY <1>1, <1>2, FS_Surjection
<1>4. \A T \in S : IsFiniteSet(T)
  <2>1. TAKE T \in S
  <2>2. PICK k \in Ports : T = {k} \X (1 .. n[k])
    OBVIOUS
  <2>3. QED  BY <2>2, ShareOf
<1>5. IsFiniteSet(Shares(n))
  BY <1>3, <1>4, FS_UNION DEF Shares
<1>6. QED  BY <1>5, FS_CardinalityType

\* What one port gains or loses the sum does.
LEMMA SharesMove ==
  ASSUME NEW m \in [Ports -> Nat], NEW n \in [Ports -> Nat], NEW k \in Ports,
         \A j \in Ports \ {k} : n[j] = m[j]
  PROVE  Cardinality(Shares(n)) = Cardinality(Shares(m)) + n[k] - m[k]
<1> DEFINE A == Shares(m)
           B == Shares(n)
           R == {x \in Shares(m) : x[1] # k}
           C == {k} \X (1 .. m[k])
           D == {k} \X (1 .. n[k])
<1>1. m[k] \in Nat /\ n[k] \in Nat
  OBVIOUS
<1>2. /\ A = {x \in Ports \X Nat : x[2] \in 1 .. m[x[1]]}
      /\ B = {x \in Ports \X Nat : x[2] \in 1 .. n[x[1]]}
  BY SharesAre
<1>3. A = R \cup C /\ R \cap C = {}
  BY <1>1, <1>2
<1>4. B = R \cup D /\ R \cap D = {}
  BY <1>1, <1>2
<1>5. IsFiniteSet(R)
  <2>1. IsFiniteSet(A) /\ R \in SUBSET A
    BY SharesFinite
  <2>2. QED  BY <2>1, FS_Subset
<1>6. IsFiniteSet(C) /\ Cardinality(C) = m[k] /\ IsFiniteSet(D) /\ Cardinality(D) = n[k]
  BY <1>1, ShareOf
<1> HIDE DEF A, B, C, D, R
<1>7. Cardinality({}) = 0 /\ Cardinality(R) \in Nat
  BY <1>5, FS_EmptySet, FS_CardinalityType
<1>8. /\ Cardinality(R \cup C) = Cardinality(R) + Cardinality(C) - Cardinality(R \cap C)
      /\ Cardinality(R \cup D) = Cardinality(R) + Cardinality(D) - Cardinality(R \cap D)
  BY <1>5, <1>6, FS_Union
<1>9. /\ Cardinality(A) = Cardinality(R) + Cardinality(C) - Cardinality({})
      /\ Cardinality(B) = Cardinality(R) + Cardinality(D) - Cardinality({})
  BY ONLY <1>3, <1>4, <1>8, Zenon
<1>10. Cardinality(A) = Cardinality(R) + m[k] /\ Cardinality(B) = Cardinality(R) + n[k]
  BY <1>1, <1>6, <1>7, <1>9
<1>11. Cardinality(B) = Cardinality(A) + n[k] - m[k]
  BY ONLY <1>1, <1>7, <1>10
<1>12. QED  BY <1>11 DEF A, B

LEMMA SharesGrow ==
  ASSUME NEW m \in [Ports -> Nat], NEW n \in [Ports -> Nat], \A j \in Ports : m[j] <= n[j],
         NEW k \in Ports, m[k] < n[k]
  PROVE  Cardinality(Shares(m)) < Cardinality(Shares(n))
<1>1. /\ Shares(m) = {x \in Ports \X Nat : x[2] \in 1 .. m[x[1]]}
      /\ Shares(n) = {x \in Ports \X Nat : x[2] \in 1 .. n[x[1]]}
  BY SharesAre
<1>2. Shares(m) \in SUBSET Shares(n)
  <2>1. ASSUME NEW x \in Ports \X Nat, x[2] \in 1 .. m[x[1]] PROVE x[2] \in 1 .. n[x[1]]
    <3>1. x[1] \in Ports /\ x[2] \in Nat /\ m[x[1]] \in Nat /\ n[x[1]] \in Nat /\ m[x[1]] <= n[x[1]]
      OBVIOUS
    <3>2. QED  BY <2>1, <3>1
  <2>2. QED  BY <1>1, <2>1
<1>3. <<k, n[k]>> \in Shares(n) /\ <<k, n[k]>> \notin Shares(m)
  <2>1. n[k] \in Nat /\ m[k] \in Nat
    OBVIOUS
  <2>2. n[k] \in 1 .. n[k] /\ n[k] \notin 1 .. m[k]
    BY <2>1
  <2>3. QED  BY <1>1, <2>1, <2>2
<1>4. /\ Cardinality(Shares(m)) <= Cardinality(Shares(n))
      /\ Cardinality(Shares(n)) = Cardinality(Shares(m)) => Shares(n) = Shares(m)
  BY <1>2, SharesFinite, FS_Subset
<1>5. Cardinality(Shares(m)) \in Nat /\ Cardinality(Shares(n)) \in Nat
  BY SharesFinite
<1>6. Shares(n) # Shares(m)
  BY <1>3
<1>7. QED  BY ONLY <1>4, <1>5, <1>6

LEMMA NoShares ==
  ASSUME NEW n \in [Ports -> Nat], \A k \in Ports : n[k] = 0
  PROVE  Cardinality(Shares(n)) = 0
<1>1. Shares(n) = {x \in Ports \X Nat : x[2] \in 1 .. n[x[1]]}
  BY SharesAre
<1>2. Shares(n) = {}
  BY <1>1
<1>3. QED  BY <1>2, FS_EmptySet

\* A port's messages are within its bound, and there are none where nobody may send.
Fits(k) ==
  /\ Len(ptq[k]) <= ptmaxcnt[k]
  /\ ptstate[k] = "free" \/ (ptstate[k] = "alloc" /\ ~ptssem[k].ok) => ptq[k] = <<>>

NodesInv ==
  /\ ptfree \in Int /\ (\A k \in Ports : Fits(k))
  /\ pinits = 1 => ptfree + Cardinality(Shares(Queued)) = MaxMsgs
  /\ panicked => Cardinality(Shares(Promised)) > MaxMsgs

LEMMA NumbersTyped ==
  ASSUME PortInv
  PROVE  Queued \in [Ports -> Nat] /\ Promised \in [Ports -> Nat]
<1>1. ptq \in [Ports -> Seq(Live)] /\ ptmaxcnt \in [Ports -> Nat]
  BY DEF PortInv, PortTyped, PoolInv, PoolTyped
<1>2. \A k \in Ports : Len(ptq[k]) \in Nat /\ ptmaxcnt[k] \in Nat /\ 0 \in Nat
  BY <1>1
<1>3. QED  BY <1>2 DEF Queued, Promised

\* A sender that does not wait, or was let go for the port's generation, finds room.
LEMMA RoomLeft ==
  ASSUME PortInv, ~panicked, NEW k \in Ports, ptstate[k] = "alloc", ptssem[k].ok, NEW p \in Procs,
         \/ ~Blocks(ptssem[k])
         \/ Comes(p, "psend", k) /\ p \notin ToSet(ptssem[k].q)
  PROVE  Len(ptq[k]) < ptmaxcnt[k]
<1> DEFINE s == ptssem[k]
<1>1. Sound(s) /\ lostS[k] \in Nat /\ ptmaxcnt[k] \in Nat /\ Len(ptq[k]) \in Nat
  <2>1. ptq[k] \in Seq(Live) /\ lostS[k] \in Nat /\ ptmaxcnt[k] \in Nat /\ Sound(s)
    BY DEF PortInv, PortTyped, PortRight, PoolInv, PoolTyped
  <2>2. QED  BY ONLY <2>1
<1>2. s.n + Len(s.q) + Cardinality(Senders(k)) + Len(ptq[k]) + lostS[k] = ptmaxcnt[k]
  BY RoomAccountedInv DEF RoomAccounted
<1>3. s.n \in Int /\ s.q \in Seq(Procs) /\ Len(s.q) = (IF s.ok /\ s.n < 0 THEN -s.n ELSE 0)
  BY <1>1, SoundFacts
<1>4. Len(s.q) \in Nat /\ s.n + Len(s.q) >= 0
  BY <1>3
<1>5. IsFiniteSet(Senders(k)) /\ Cardinality(Senders(k)) \in Nat
  <2>1. Senders(k) \in SUBSET Procs
    BY DEF Senders, Released
  <2>2. QED  BY <2>1, ClientsAssumption, FS_Subset, FS_CardinalityType
<1>6. CASE ~Blocks(s)
  <2>1. s.n >= 1
    BY <1>3, <1>6 DEF Blocks
  <2> HIDE DEF s
  <2>2. QED  BY ONLY <1>1, <1>2, <1>3, <1>4, <1>5, <2>1
<1>7. CASE Comes(p, "psend", k) /\ p \notin ToSet(s.q)
  <2>1. p \in Senders(k)
    <3>1. ~Contains(s.q, p)
      BY <1>3, <1>7, ContainsSet
    <3>2. QED  BY <1>7, <3>1 DEF Senders, Released, Comes, At, Still
  <2>2. Cardinality(Senders(k)) # 0
    BY <1>5, <2>1, FS_EmptySet
  <2> HIDE DEF s
  <2>3. QED  BY ONLY <1>1, <1>2, <1>3, <1>4, <1>5, <2>2
<1>8. QED  BY <1>6, <1>7

LEMMA FitsSame ==
  ASSUME NEW j, Fits(j), ptq'[j] = ptq[j], ptmaxcnt'[j] = ptmaxcnt[j], ptstate'[j] = ptstate[j],
         ptssem'[j].ok = ptssem[j].ok
  PROVE  Fits(j)'
BY DEF Fits

LEMMA NodesKept ==
  ASSUME NodesInv, ~panicked', UNCHANGED <<ptq, ptfree, pinits>>, \A k \in Ports : Fits(k)'
  PROVE  NodesInv'
<1>1. Queued' = Queued
  BY DEF Queued
<1>2. QED  BY <1>1 DEF NodesInv

LEMMA NodesShift ==
  ASSUME PortInv, PortInv', NodesInv, ~panicked', UNCHANGED pinits, NEW k \in Ports,
         \A j \in Ports \ {k} : ptq'[j] = ptq[j], ptfree' = ptfree + Len(ptq[k]) - Len(ptq'[k]),
         \A j \in Ports : Fits(j)'
  PROVE  NodesInv'
<1>1. Queued \in [Ports -> Nat] /\ Queued' \in [Ports -> Nat]
  <2>1. (PortInv => Queued \in [Ports -> Nat])'
    BY NumbersTyped, PTL
  <2>2. QED  BY <2>1, NumbersTyped
<1>2. /\ \A j \in Ports \ {k} : Queued'[j] = Queued[j]
      /\ Queued'[k] = Len(ptq'[k]) /\ Queued[k] = Len(ptq[k])
  BY DEF Queued
<1>3. Cardinality(Shares(Queued')) = Cardinality(Shares(Queued)) + Queued'[k] - Queued[k]
  BY <1>1, <1>2, SharesMove
<1>4. Shares(Queued)' = Shares(Queued')
  BY DEF Shares
<1>5. Cardinality(Shares(Queued)') = Cardinality(Shares(Queued')) /\ Cardinality(Shares(Queued)) \in Nat
  BY <1>1, <1>4, SharesFinite
<1>6. ptfree \in Int /\ Queued'[k] \in Nat /\ Queued[k] \in Nat
  BY <1>1 DEF NodesInv
<1>7. ptfree' = ptfree + Queued[k] - Queued'[k] /\ ptfree' \in Int
  BY <1>2, <1>6
<1>8. ptfree' + Cardinality(Shares(Queued')) = ptfree + Cardinality(Shares(Queued))
  BY ONLY <1>3, <1>5, <1>6, <1>7
<1>9. pinits' = 1 => ptfree' + Cardinality(Shares(Queued)') = MaxMsgs
  BY <1>5, <1>8 DEF NodesInv
<1>10. QED  BY <1>7, <1>9 DEF NodesInv

\* psend puts its message, or the nodes ran out: then the bounds promise more than there are.
LEMMA PutNodes ==
  ASSUME PortInv, PortInv', NodesInv, ~panicked, pinits = 1, UNCHANGED <<ptstate, ptmaxcnt, pinits>>,
         NEW p \in Procs, NEW k \in Ports, NEW b, ptstate[k] = "alloc", ptssem[k].ok, Put(p, k, b),
         Len(ptq[k]) < ptmaxcnt[k], \A j \in Ports : ptssem'[j].ok = ptssem[j].ok
  PROVE  NodesInv'
<1>1. /\ ptq \in [Ports -> Seq(Live)] /\ ptmaxcnt[k] \in Nat /\ Len(ptq[k]) \in Nat
  <2>1. ptq \in [Ports -> Seq(Live)] /\ ptmaxcnt[k] \in Nat
    BY DEF PortInv, PortTyped, PoolInv, PoolTyped
  <2>2. QED  BY <2>1
<1>2. CASE ptfree = 0
  <2>1. panicked' = TRUE /\ UNCHANGED <<ptq, ptfree>>
    BY <1>2 DEF Put, Zenon
  <2>2. Queued' = Queued /\ Promised' = Promised
    BY <2>1 DEF Queued, Promised
  <2>3. Queued \in [Ports -> Nat] /\ Promised \in [Ports -> Nat]
    BY NumbersTyped
  <2>4. \A j \in Ports : Queued[j] <= Promised[j]
    <3>1. TAKE j \in Ports
    <3>2. CASE ptstate[j] = "free"
      <4>1. Queued[j] = 0 /\ Promised[j] = 0
        BY <3>2, EmptyList DEF NodesInv, Fits, Queued, Promised
      <4>2. QED  BY <4>1
    <3>3. CASE ptstate[j] # "free"
      BY <3>3 DEF NodesInv, Fits, Queued, Promised
    <3>4. QED  BY <3>2, <3>3
  <2>5. Queued[k] < Promised[k]
    BY DEF Queued, Promised
  <2>6. Cardinality(Shares(Queued)) < Cardinality(Shares(Promised))
    BY <2>3, <2>4, <2>5, SharesGrow
  <2>7. Cardinality(Shares(Queued)) \in Nat /\ Cardinality(Shares(Promised)) \in Nat
    BY <2>3, SharesFinite
  <2>8. Cardinality(Shares(Queued)) = MaxMsgs
    BY <1>2, <2>7 DEF NodesInv
  <2>9. Cardinality(Shares(Promised)) > MaxMsgs
    BY ONLY <2>6, <2>7, <2>8
  <2>10. \A j \in Ports : Fits(j)'
    BY <2>1, FitsSame DEF NodesInv
  <2>11. Shares(Queued)' = Shares(Queued) /\ Shares(Promised)' = Shares(Promised)
    BY <2>2 DEF Shares
  <2>12. QED  BY <2>1, <2>9, <2>10, <2>11 DEF NodesInv
<1>3. CASE ptfree # 0
  <2>1. UNCHANGED panicked /\ ptfree' = ptfree - 1 /\ ptq' = [ptq EXCEPT ![k] = Append(@, b)]
    BY <1>3 DEF Put
  <2>2. /\ ptq'[k] = Append(ptq[k], b) /\ Len(ptq'[k]) = Len(ptq[k]) + 1
        /\ \A j \in Ports \ {k} : ptq'[j] = ptq[j]
    BY <1>1, <2>1
  <2>3. Fits(k)'
    BY <1>1, <2>2 DEF Fits
  <2>4. \A j \in Ports : Fits(j)'
    BY <2>2, <2>3, FitsSame DEF NodesInv
  <2>5. ptfree' = ptfree + Len(ptq[k]) - Len(ptq'[k])
    <3>1. ptfree \in Int
      BY DEF NodesInv
    <3>2. QED  BY ONLY <1>1, <2>1, <2>2, <3>1
  <2>6. QED  BY <2>1, <2>2, <2>4, <2>5, NodesShift
<1>4. QED  BY <1>2, <1>3

LEMMA TakeNodes ==
  ASSUME PortInv, PortInv', NodesInv, ~panicked, UNCHANGED <<ptstate, ptmaxcnt, pinits, panicked>>,
         NEW p \in Procs, NEW k \in Ports, ptq[k] # <<>>, Take(p, k),
         \A j \in Ports : ptssem'[j].ok = ptssem[j].ok
  PROVE  NodesInv'
<1>1. ptq \in [Ports -> Seq(Live)] /\ ptmaxcnt[k] \in Nat /\ ptfree \in Int
  BY DEF PortInv, PortTyped, PoolInv, PoolTyped, NodesInv
<1>2. ptq' = [ptq EXCEPT ![k] = Tail(@)] /\ ptfree' = ptfree + 1
  BY DEF Take
<1>3. /\ Len(ptq'[k]) = Len(ptq[k]) - 1 /\ Len(ptq[k]) \in Nat
      /\ \A j \in Ports \ {k} : ptq'[j] = ptq[j]
  BY <1>1, <1>2
<1>4. Fits(k)'
  BY <1>1, <1>3 DEF NodesInv, Fits
<1>5. \A j \in Ports : Fits(j)'
  BY <1>3, <1>4, FitsSame DEF NodesInv
<1>6. ptfree' = ptfree + Len(ptq[k]) - Len(ptq'[k])
  <2> DEFINE old == Len(ptq[k])
             new == Len(ptq'[k])
  <2>1. new = old - 1 /\ old \in Nat /\ ptfree \in Int /\ ptfree' = ptfree + 1
    BY <1>1, <1>2, <1>3
  <2> HIDE DEF old, new
  <2>2. ptfree' = ptfree + old - new
    BY ONLY <2>1
  <2>3. QED  BY <2>2 DEF old, new
<1>7. QED  BY <1>3, <1>5, <1>6, NodesShift

\* A semaphore that is waited at, signaled or left stays one.
LEMMA SameOk ==
  ASSUME NEW s, NEW p
  PROVE  Waited(s, p).ok = s.ok /\ Signaled(s).ok = s.ok /\ Left(s, p).ok = s.ok
BY DEF Waited, Signaled, Left

LEMMA SendNodes ==
  ASSUME PortInv, PortInv', NodesInv, MarkedAtOnce, ~panicked, NEW p \in Procs, NEW k \in Ports,
         (\E b \in Bufs : Psend(p, k, b)) \/ Preceive(p, k)
  PROVE  NodesInv'
<1>1. /\ PortTyped /\ PinitFirst /\ marked /\ ptstate[k] = "alloc"
      /\ UNCHANGED <<ptstate, ptmaxcnt, pinits>>
  BY DEF PortInv, Psend, Preceive, SendUnchanged, tableVars, markVars
<1>2. pinits = 1
  BY <1>1 DEF PinitFirst, MarkedAtOnce, PortTyped
<1>3. ASSUME NEW b \in Bufs, Psend(p, k, b) PROVE NodesInv'
  <2>1. ptssem' = [ptssem EXCEPT ![k] = Waited(@, p)] /\ ptssem[k].ok
    BY <1>3 DEF Psend
  <2>2. \A j \in Ports : ptssem'[j].ok = ptssem[j].ok
    BY <1>1, <2>1, SameOk DEF PortTyped
  <2>3. CASE Blocks(ptssem[k])
    <3>1. UNCHANGED <<ptq, ptfree, panicked>>
      BY <1>3, <2>3 DEF Psend
    <3>2. \A j \in Ports : Fits(j)'
      BY <1>1, <2>2, <3>1, FitsSame DEF NodesInv
    <3>3. QED  BY <1>1, <3>1, <3>2, NodesKept
  <2>4. CASE ~Blocks(ptssem[k])
    <3>1. Put(p, k, b)
      BY <1>3, <2>4 DEF Psend
    <3>2. Len(ptq[k]) < ptmaxcnt[k]
      BY <1>1, <2>1, <2>4, RoomLeft
    <3>3. QED  BY <1>1, <1>2, <2>1, <2>2, <3>1, <3>2, PutNodes
  <2>5. QED  BY <2>3, <2>4
<1>4. CASE Preceive(p, k)
  <2>1. UNCHANGED panicked
    BY <1>4 DEF Preceive
  <2>2. CASE Blocks(ptrsem[k])
    <3>1. UNCHANGED <<ptq, ptfree, ptssem>>
      BY <1>4, <2>2 DEF Preceive
    <3>2. \A j \in Ports : Fits(j)'
      BY <1>1, <3>1, FitsSame DEF NodesInv
    <3>3. QED  BY <1>1, <2>1, <3>1, <3>2, NodesKept
  <2>3. CASE ~Blocks(ptrsem[k])
    <3>1. ptq[k] # <<>> /\ Take(p, k)
      BY <1>4, <2>3 DEF Preceive
    <3>2. \A j \in Ports : ptssem'[j].ok = ptssem[j].ok
      BY <1>1, <3>1, SameOk DEF PortTyped, Take
    <3>3. QED  BY <1>1, <2>1, <3>1, <3>2, TakeNodes
  <2>4. QED  BY <2>2, <2>3
<1>5. QED  BY <1>3, <1>4

LEMMA FinishSendNodes ==
  ASSUME PortInv, PortInv', NodesInv, MarkedAtOnce, ~panicked, NEW p \in Procs,
         FinishPsend(p) \/ FinishPreceive(p)
  PROVE  NodesInv'
<1>1. /\ PortTyped /\ PinitFirst /\ UNCHANGED <<ptstate, ptmaxcnt, pinits>> /\ Placed(p)
      /\ cont[p].op \in {"psend", "preceive"}
  BY DEF PortInv, PoolInv, FinishPsend, FinishPreceive, SendUnchanged, tableVars, markVars, At
<1>2. PICK k \in Ports : k = cont[p].on
  BY <1>1 DEF Placed
<1>3. PortRight(k)
  BY DEF PortInv
<1>4. Still(p) => pinits = 1 /\ ptstate[k] = "alloc"
  BY <1>1, <1>2 DEF PinitFirst, MarkedAtOnce, PortTyped, Still
<1>5. ASSUME UNCHANGED <<ptq, ptfree, panicked, ptssem>> PROVE NodesInv'
  <2>1. \A j \in Ports : Fits(j)'
    BY <1>1, <1>5, FitsSame DEF NodesInv
  <2>2. QED  BY <1>1, <1>5, <2>1, NodesKept
<1>6. CASE FinishPsend(p)
  <2>1. UNCHANGED ptssem
    BY <1>6 DEF FinishPsend
  <2>2. CASE Still(p)
    <3>1. Put(p, k, cont[p].buf) /\ Comes(p, "psend", k)
      BY <1>2, <1>6, <2>2 DEF FinishPsend, Comes, At, Still
    <3>2. ptssem[k].ok
      BY <1>3, <1>4, <2>2, <3>1 DEF PortRight, RestOk, Comes
    <3>3. p \notin ToSet(ptssem[k].q)
      <4>1. ptssem[k].q \in Seq(Procs)
        BY <1>3, SoundFacts DEF PortRight
      <4>2. ~Contains(ptssem[k].q, p)
        BY <1>2, <1>6 DEF FinishPsend
      <4>3. QED  BY <4>1, <4>2, ContainsSet
    <3>4. Len(ptq[k]) < ptmaxcnt[k]
      BY <1>4, <2>2, <3>1, <3>2, <3>3, RoomLeft
    <3>5. QED  BY <1>1, <1>4, <2>1, <2>2, <3>1, <3>2, <3>4, PutNodes
  <2>3. CASE ~Still(p)
    BY <1>5, <1>6, <2>3 DEF FinishPsend
  <2>4. QED  BY <2>2, <2>3
<1>7. CASE FinishPreceive(p)
  <2>1. CASE Still(p)
    <3>1. ptq[k] # <<>> /\ Take(p, k) /\ UNCHANGED panicked
      BY <1>2, <1>7, <2>1 DEF FinishPreceive
    <3>2. \A j \in Ports : ptssem'[j].ok = ptssem[j].ok
      BY <1>1, <3>1, SameOk DEF PortTyped, Take
    <3>3. QED  BY <1>1, <3>1, <3>2, TakeNodes
  <2>2. CASE ~Still(p)
    BY <1>5, <1>7, <2>2 DEF FinishPreceive
  <2>3. QED  BY <2>1, <2>2
<1>8. QED  BY <1>6, <1>7

\* The steps of a clearing: the messages stay, or the nodes of all of them go back.
LEMMA ClearNodes ==
  ASSUME PortInv, PortInv', NodesInv, ~panicked, NEW p \in Procs, NEW k \in Ports, NEW i, NEW to,
         ptstate[k] # "free", ClearFrom(p, k, i, to), ClearUnchanged
  PROVE  NodesInv'
<1>1. /\ PortTyped /\ ptq \in [Ports -> Seq(Live)] /\ ptmaxcnt[k] \in Nat
      /\ UNCHANGED <<ptmaxcnt, pinits, panicked>>
  BY DEF PortInv, PortTyped, PoolInv, PoolTyped, ClearUnchanged, markVars
<1> DEFINE frees == {j \in i .. Len(ptq[k]) : Frees(bpsem[ptq[k][j][1]])}
<1>2. CASE frees # {}
  <2>1. ptstate' = [ptstate EXCEPT ![k] = "limbo"] /\ UNCHANGED <<ptssem, ptq, ptfree>>
    BY <1>2 DEF ClearFrom
  <2>2. ptstate'[k] = "limbo" /\ \A j \in Ports \ {k} : ptstate'[j] = ptstate[j]
    BY <1>1, <2>1 DEF PortTyped
  <2>3. Fits(k)'
    BY <1>1, <2>1, <2>2 DEF NodesInv, Fits
  <2>4. \A j \in Ports : Fits(j)'
    BY <1>1, <2>1, <2>2, <2>3, FitsSame DEF NodesInv
  <2>5. QED  BY <1>1, <2>1, <2>4, NodesKept
<1>3. CASE frees = {}
  <2> DEFINE d == SClear(Clearing(k), to, ptmaxcnt[k])
  <2>1. /\ ptfree' = ptfree + Len(ptq[k]) /\ ptq' = [ptq EXCEPT ![k] = <<>>]
        /\ SetPort(p, k, to, d)
    BY <1>3 DEF ClearFrom
  <2>2. ptstate' = [ptstate EXCEPT ![k] = d.state] /\ ptssem' = [ptssem EXCEPT ![k] = d.s]
    BY <2>1 DEF SetPort
  <2> HIDE DEF d
  <2>3. /\ ptq'[k] = <<>> /\ Len(ptq'[k]) = 0
        /\ \A j \in Ports \ {k} : ptq'[j] = ptq[j] /\ ptstate'[j] = ptstate[j] /\ ptssem'[j] = ptssem[j]
    BY <1>1, <2>1, <2>2 DEF PortTyped
  <2>4. Fits(k)'
    BY <1>1, <2>3 DEF Fits
  <2>5. \A j \in Ports : Fits(j)'
    BY <1>1, <2>3, <2>4, FitsSame DEF NodesInv
  <2>6. ptfree' = ptfree + Len(ptq[k]) - Len(ptq'[k])
    <3>1. ptfree \in Int /\ Len(ptq[k]) \in Nat
      BY <1>1 DEF NodesInv
    <3>2. QED  BY ONLY <2>1, <2>3, <3>1
  <2>7. QED  BY <1>1, <2>3, <2>5, <2>6, NodesShift
<1>4. QED  BY <1>2, <1>3

LEMMA ClearStepNodes ==
  ASSUME PortInv, PortInv', NodesInv, ~panicked, NEW p \in Procs,
         \/ \E k \in Ports : Preset(p, k) \/ Pdelete(p, k)
         \/ FinishDispose(p) \/ FinishClear(p)
  PROVE  NodesInv'
<1>1. PortTyped /\ ptq \in [Ports -> Seq(Live)] /\ Placed(p)
  BY DEF PortInv, PoolInv, PoolTyped
<1>2. ASSUME NEW k \in Ports, Preset(p, k) \/ Pdelete(p, k) PROVE NodesInv'
  <2>1. ptstate[k] = "alloc" /\ ClearUnchanged /\ \E to : ClearFrom(p, k, 1, to)
    BY <1>2 DEF Preset, Pdelete, Ptclear
  <2>2. QED  BY <2>1, ClearNodes
<1>3. CASE FinishDispose(p)
  <2>1. PICK k \in Ports : k = cont[p].on
    BY <1>1, <1>3 DEF Placed, FinishDispose, At
  <2>2. RestOk(cont[p], k) /\ Clears(cont[p], k)
    BY <1>3, <2>1 DEF PortInv, PortRight, FinishDispose, At, Clears, ClearOp
  <2>3. ptstate[k] = "limbo" /\ ClearUnchanged /\ ClearFrom(p, k, cont[p].n, cont[p].to)
    BY <1>3, <2>1, <2>2 DEF RestOk, FinishDispose
  <2>4. QED  BY <2>3, ClearNodes
<1>4. CASE FinishClear(p)
  <2>1. PICK k \in Ports : k = cont[p].on
    BY <1>1, <1>4 DEF Placed, FinishClear, At
  <2>2. RestOk(cont[p], k) /\ Clears(cont[p], k) /\ cont[p].op # "dispose"
    BY <1>4, <2>1 DEF PortInv, PortRight, FinishClear, At, Clears, ClearOp
  <2>3. ptq[k] = <<>> /\ UNCHANGED <<ptq, ptfree, ptmaxcnt, pinits, panicked>>
    BY <1>4, <2>2 DEF RestOk, FinishClear, ClearUnchanged, markVars
  <2>4. \A j \in Ports \ {k} : ptstate'[j] = ptstate[j] /\ ptssem'[j] = ptssem[j]
    BY <1>1, <1>4, <2>1 DEF FinishClear, SetPort, PortTyped
  <2>5. Fits(k)'
    BY <2>3 DEF NodesInv, Fits
  <2>6. \A j \in Ports : Fits(j)'
    BY <2>3, <2>4, <2>5, FitsSame DEF NodesInv
  <2>7. QED  BY <2>3, <2>6, NodesKept
<1>5. QED  BY <1>2, <1>3, <1>4

\* A port that is created had no messages; where pinit made the nodes there were none at all.
LEMMA NewPortNodes ==
  ASSUME PortInv, NodesInv, ~panicked', NEW p \in Procs, NEW count \in Nat, NEW next \in Int,
         NewPort(p, count, ptstate, next), ptfree' \in Int,
         pinits' = 1 => ptfree' + Cardinality(Shares(Queued)) = MaxMsgs
  PROVE  NodesInv'
<1> DEFINE search == PortSearch(next)
           free == {i \in 1 .. NPorts : ptstate[search[i]] = "free"}
<1>1. PortTyped /\ ptq \in [Ports -> Seq(Live)]
  BY DEF PortInv, PoolInv, PoolTyped
<1>2. ptq' = ptq /\ \A j \in Ports : Fits(j)'
  <2>1. CASE free = {}
    <3>1. UNCHANGED <<ptq, ptmaxcnt, ptstate, ptssem>>
      BY <2>1 DEF NewPort
    <3>2. QED  BY <3>1, FitsSame DEF NodesInv
  <2>2. CASE free # {}
    <3>1. Min(free) \in free
      BY <2>2, MinNat
    <3>2. PICK k \in Ports : k = search[Min(free)] /\ ptstate[k] = "free"
      BY <3>1, SearchPorts
    <3>3. /\ ptq' = [ptq EXCEPT ![k] = <<>>] /\ ptmaxcnt' = [ptmaxcnt EXCEPT ![k] = count]
          /\ ptstate' = [ptstate EXCEPT ![k] = "alloc"]
          /\ ptssem' = [ptssem EXCEPT ![k] = IF semsLeft >= 1 THEN Sem(count) ELSE NoSem]
      BY <2>2, <3>2 DEF NewPort
    <3>4. ptq[k] = <<>>
      BY <3>2 DEF NodesInv, Fits
    <3>5. ptq' = ptq
      BY <1>1, <3>2, <3>3, <3>4
    <3>6. Fits(k)'
      <4>1. Len(ptq'[k]) = 0 /\ ptq'[k] = <<>> /\ ptmaxcnt'[k] = count
        BY <1>1, <3>2, <3>3, <3>4, <3>5, EmptyList DEF PortTyped
      <4>2. QED  BY <4>1 DEF Fits
    <3>7. \A j \in Ports \ {k} : Fits(j)'
      BY <1>1, <3>2, <3>3, FitsSame DEF PortTyped, NodesInv
    <3>8. QED  BY <3>5, <3>6, <3>7
  <2>3. QED  BY <2>1, <2>2
<1>3. Queued' = Queued
  BY <1>2 DEF Queued
<1>4. Shares(Queued)' = Shares(Queued)
  BY <1>3 DEF Shares
<1>5. QED  BY <1>2, <1>4 DEF NodesInv

LEMMA MarkStepNodes ==
  ASSUME PortInv, NodesInv, MarkedAtOnce, MarkedAtOnce', ~panicked, NEW p \in Procs,
         \/ \E count \in Counts : Pcreate(p, count)
         \/ FinishMark(p) \/ FinishPinit(p) \/ MarkOther(p) \/ FinishOther(p)
  PROVE  NodesInv'
<1>1. /\ PortTyped /\ PinitFirst /\ cont \in [Procs -> Conts] /\ ptq \in [Ports -> Seq(Live)] /\ UNCHANGED panicked
  BY DEF PortInv, PoolInv, PoolTyped, Pcreate, FinishMark, FinishPinit, MarkOther, FinishOther
<1>2. ASSUME PortsAlone PROVE NodesInv'
  <2>1. UNCHANGED <<ptstate, ptmaxcnt, ptq, ptssem, ptfree, pinits>>
    BY <1>2 DEF PortsAlone, tableVars
  <2>2. \A j \in Ports : Fits(j)'
    BY <2>1, FitsSame DEF NodesInv
  <2>3. QED  BY <1>1, <2>1, <2>2, NodesKept
<1>3. ASSUME NEW count \in Nat, PinitAndNewPort(p, count) PROVE NodesInv'
  <2>1. pinits = 0 /\ ptfree' = MaxMsgs
    BY <1>1, <1>3 DEF PinitAndNewPort, MarkedAtOnce, PortTyped
  <2>2. ptstate = [id \in Ports |-> "free"]
    BY <1>1, <2>1 DEF PinitFirst, PortTyped
  <2>3. NewPort(p, count, ptstate, NPorts - 1) /\ NPorts - 1 \in Int /\ MaxMsgs \in Nat
    BY <1>3, <2>2, PortsAssumption DEF PinitAndNewPort
  <2>4. \A k \in Ports : Queued[k] = 0
    BY <2>2, EmptyList DEF NodesInv, Fits, Queued
  <2>5. Cardinality(Shares(Queued)) = 0
    BY <2>4, NumbersTyped, NoShares
  <2>6. QED  BY <1>1, <2>1, <2>3, <2>5, NewPortNodes
<1>4. cont[p].n \in Nat /\ Counts \subseteq Nat
  BY <1>1, PortsAssumption DEF Conts
<1>5. ASSUME NEW count \in Counts, Pcreate(p, count) PROVE NodesInv'
  <2>1. CASE marked
    <3>1. NewPort(p, count, ptstate, ptnextp) /\ UNCHANGED <<pinits, ptfree>> /\ ptnextp \in Int
      BY <1>1, <1>5, <2>1 DEF Pcreate, markVars, PortTyped
    <3>2. ptfree' \in Int /\ (pinits' = 1 => ptfree' + Cardinality(Shares(Queued)) = MaxMsgs)
      BY <3>1 DEF NodesInv
    <3>3. QED  BY <1>1, <1>4, <3>1, <3>2, NewPortNodes
  <2>2. CASE ~marked
    BY <1>2, <1>3, <1>4, <1>5, <2>2 DEF Pcreate
  <2>3. QED  BY <2>1, <2>2
<1>6. FinishMark(p) \/ FinishPinit(p) \/ MarkOther(p) \/ FinishOther(p) => NodesInv'
  BY <1>2, <1>3, <1>4 DEF FinishMark, FinishPinit, MarkOther, FinishOther
<1>7. QED  BY <1>5, <1>6

LEMMA InitNodes == Init => NodesInv
<1>1. SUFFICES ASSUME Init PROVE NodesInv
  OBVIOUS
<1>2. ptfree = 0 /\ panicked = FALSE /\ pinits = 0 /\ ptq = [id \in Ports |-> <<>>] /\ ptmaxcnt = [id \in Ports |-> 0]
  BY <1>1 DEF Init
<1>3. \A k \in Ports : ptq[k] = <<>> /\ Len(ptq[k]) = 0 /\ ptmaxcnt[k] = 0
  BY <1>2
<1>4. \A k \in Ports : Fits(k)
  BY <1>3 DEF Fits
<1>5. ptfree \in Int /\ pinits # 1 /\ ~panicked
  BY <1>2
<1>6. QED  BY <1>4, <1>5 DEF NodesInv

LEMMA NextNodesInv ==
  PortInv /\ PortInv' /\ NodesInv /\ MarkedAtOnce /\ MarkedAtOnce' /\ [Next]_vars => NodesInv'
<1>1. SUFFICES ASSUME PortInv, PortInv', NodesInv, MarkedAtOnce, MarkedAtOnce', [Next]_vars PROVE NodesInv'
  OBVIOUS
<1>2. CASE UNCHANGED vars
  <2>1. UNCHANGED <<ptstate, ptmaxcnt, ptq, ptssem, ptfree, pinits, panicked>>
    BY <1>2 DEF vars, tableVars, queueVars, markVars
  <2>2. \A j \in Ports : Fits(j)'
    BY <1>1, <2>1, FitsSame DEF NodesInv
  <2>3. Queued' = Queued /\ Promised' = Promised
    BY <2>1 DEF Queued, Promised
  <2>4. Shares(Queued)' = Shares(Queued) /\ Shares(Promised)' = Shares(Promised)
    BY <2>3 DEF Shares
  <2>5. QED  BY <1>1, <2>1, <2>2, <2>4 DEF NodesInv
<1>3. ASSUME ~panicked, UNCHANGED <<ptstate, ptmaxcnt, ptq, ptfree, pinits, panicked>>,
             \A j \in Ports : ptssem'[j].ok = ptssem[j].ok
      PROVE  NodesInv'
  <2>1. \A j \in Ports : Fits(j)'
    BY <1>1, <1>3, FitsSame DEF NodesInv
  <2>2. QED  BY <1>1, <1>3, <2>1, NodesKept
<1>4. ASSUME NEW p \in Procs, ~panicked, PoolAlone PROVE NodesInv'
  BY <1>3, <1>4 DEF PoolAlone, tableVars, queueVars, markVars
<1>5. ASSUME NEW p \in Procs, PortStep(p), ~panicked PROVE NodesInv'
  <2>1. (\E count \in Counts : Pcreate(p, count)) \/ FinishMark(p) \/ FinishPinit(p) \/ MarkOther(p) \/ FinishOther(p)
        => NodesInv'
    BY <1>1, <1>5, MarkStepNodes
  <2>2. ASSUME NEW k \in Ports PROVE ((\E b \in Bufs : Psend(p, k, b)) \/ Preceive(p, k)) => NodesInv'
    BY <1>1, <1>5, SendNodes
  <2>3. (\E k \in Ports : Preset(p, k) \/ Pdelete(p, k)) \/ FinishDispose(p) \/ FinishClear(p) => NodesInv'
    BY <1>1, <1>5, ClearStepNodes
  <2>4. FinishPsend(p) \/ FinishPreceive(p) => NodesInv'
    BY <1>1, <1>5, FinishSendNodes
  <2>5. ASSUME Kill(p) PROVE NodesInv'
    <3>1. UNCHANGED <<ptstate, ptmaxcnt, ptq, ptfree, pinits, panicked>>
      BY <2>5 DEF Kill, tableVars
    <3>2. \A j \in Ports : ptssem'[j].ok = ptssem[j].ok
      BY <2>5, SameOk DEF Kill
    <3>3. QED  BY <1>3, <1>5, <3>1, <3>2
  <2>6. QED  BY <1>5, <2>1, <2>2, <2>3, <2>4, <2>5 DEF PortStep
<1>6. QED  BY <1>1, <1>2, <1>4, <1>5 DEF Next

\* No node is lost or made by sends, receives, resets, deletions and kills (psend.c,
\* preceive.c, ptclear.c), and where psend runs out of them the bounds of the ports in use
\* promise more than MAXMSGS.
THEOREM NodesCorrect == Spec /\ []MarkedAtOnce => []NodesSuffice
<1>1. NodesInv => NodesSuffice
  BY DEF NodesInv, NodesSuffice
<1>2. QED  BY <1>1, PortInvKept, InitNodes, NextNodesInv, PTL DEF Spec

------------------------------------------------------------------------------
(* The buffers: each is in one place. *)

\* The entries of q from the i-th on, and that they are distinct.
Rest(q, i) == SubSeq(q, i, Len(q))
Entries(q, i, j) == {q[x] : x \in i .. j}

LEMMA RestOfList ==
  ASSUME NEW S, NEW q \in Seq(S), NEW i \in Nat \ {0}
  PROVE  /\ Rest(q, i) \in Seq(S) /\ ToSet(Rest(q, i)) = Entries(q, i, Len(q))
         /\ IsInjective(Rest(q, i)) <=> \A x, y \in i .. Len(q) : q[x] = q[y] => x = y
<1> DEFINE n == Len(q)
           r == SubSeq(q, i, n)
<1>1. n \in Nat /\ \A x \in i .. n : q[x] \in S
  OBVIOUS
<1>2. /\ r \in Seq(S) /\ Len(r) = (IF i <= n THEN n - i + 1 ELSE 0)
      /\ \A x \in 1 .. n - i + 1 : r[x] = q[i + x - 1]
  BY <1>1, SubSeqProperties
<1>3. Rest(q, i) = r
  BY DEF Rest
<1> HIDE DEF r
<1>4. \A x \in i .. n : x - i + 1 \in 1 .. Len(r) /\ r[x - i + 1] = q[x]
  <2>1. TAKE x \in i .. n
  <2>2. x - i + 1 \in 1 .. n - i + 1 /\ i + (x - i + 1) - 1 = x /\ i <= n
    BY <1>1
  <2>3. r[x - i + 1] = q[i + (x - i + 1) - 1]
    BY <1>2, <2>2
  <2>4. QED  BY <1>2, <2>2, <2>3
<1>5. \A z \in 1 .. Len(r) : z + i - 1 \in i .. n /\ r[z] = q[z + i - 1]
  <2>1. TAKE z \in 1 .. Len(r)
  <2>2. i <= n /\ z \in 1 .. n - i + 1
    BY <1>1, <1>2
  <2>3. i + z - 1 = z + i - 1 /\ z + i - 1 \in i .. n
    BY <1>1, <2>2
  <2>4. r[z] = q[i + z - 1]
    BY <1>2, <2>2
  <2>5. QED  BY <2>3, <2>4
<1> HIDE DEF n
<1>6. ToSet(r) = Entries(q, i, n)
  <2>1. ASSUME NEW b, b \in ToSet(r) PROVE b \in Entries(q, i, n)
    <3>1. PICK z \in 1 .. Len(r) : r[z] = b
      BY <1>2, <2>1, SetOfList
    <3>2. QED  BY <1>5, <3>1 DEF Entries
  <2>2. ASSUME NEW b, b \in Entries(q, i, n) PROVE b \in ToSet(r)
    <3>1. PICK x \in i .. n : q[x] = b
      BY <2>2 DEF Entries
    <3>2. QED  BY <1>2, <1>4, <3>1, SetOfList
  <2>3. QED  BY <2>1, <2>2
<1>7. ASSUME IsInjective(r), NEW x \in i .. n, NEW y \in i .. n, q[x] = q[y] PROVE x = y
  <2>1. x - i + 1 = y - i + 1
    BY <1>2, <1>4, <1>7, DistinctEntries
  <2>2. x \in Int /\ y \in Int /\ i \in Int
    BY <1>1, <1>7
  <2>3. QED  BY ONLY <2>1, <2>2
<1>8. ASSUME \A x, y \in i .. n : q[x] = q[y] => x = y PROVE IsInjective(r)
  <2>1. ASSUME NEW x \in 1 .. Len(r), NEW y \in 1 .. Len(r), r[x] = r[y] PROVE x = y
    <3>1. x + i - 1 = y + i - 1
      BY <1>5, <1>8, <2>1
    <3>2. x \in Int /\ y \in Int /\ i \in Int
      BY <2>1
    <3>3. QED  BY ONLY <3>1, <3>2
  <2>2. QED  BY <1>2, <2>1, DistinctEntries
<1>9. QED  BY <1>2, <1>3, <1>6, <1>7, <1>8 DEF n

LEMMA ConsDistinct ==
  ASSUME NEW S, NEW l \in Seq(S), IsInjective(l), NEW b \in S, b \notin ToSet(l)
  PROVE  /\ <<b>> \o l \in Seq(S) /\ IsInjective(<<b>> \o l) /\ ToSet(<<b>> \o l) = ToSet(l) \cup {b}
<1> DEFINE r == <<b>> \o l
<1>1. <<b>> \in Seq(S) /\ Len(<<b>>) = 1 /\ <<b>>[1] = b
  OBVIOUS
<1>2. /\ r \in Seq(S) /\ Len(r) = 1 + Len(l) /\ r[1] = b
      /\ \A i \in 1 .. Len(l) : r[1 + i] = l[i]
  BY <1>1, ConcatList
<1> HIDE DEF r
<1>3. \A i \in 1 .. Len(r) : i = 1 \/ (i - 1 \in 1 .. Len(l) /\ r[i] = l[i - 1])
  <2>1. TAKE i \in 1 .. Len(r)
  <2>2. CASE i # 1
    <3>1. i - 1 \in 1 .. Len(l) /\ 1 + (i - 1) = i
      BY <1>2, <2>2
    <3>2. QED  BY <1>2, <3>1
  <2>3. QED  BY <2>2
<1>4. \A i \in 1 .. Len(l) : l[i] # b
  BY SetOfList
<1>5. ASSUME NEW i \in 1 .. Len(r), NEW j \in 1 .. Len(r), r[i] = r[j] PROVE i = j
  <2>1. CASE i = 1 \/ j = 1
    BY <1>2, <1>3, <1>4, <1>5, <2>1
  <2>2. CASE i # 1 /\ j # 1
    <3>1. l[i - 1] = l[j - 1] /\ i - 1 \in 1 .. Len(l) /\ j - 1 \in 1 .. Len(l)
      BY <1>3, <1>5, <2>2
    <3>2. i - 1 = j - 1
      BY <3>1, DistinctEntries
    <3>3. i \in Int /\ j \in Int
      BY <1>5
    <3>4. QED  BY ONLY <3>2, <3>3
  <2>3. QED  BY <2>1, <2>2
<1>6. IsInjective(r)
  BY <1>2, <1>5, DistinctEntries
<1>7. ToSet(r) = ToSet(l) \cup {b}
  <2>1. ASSUME NEW x, x \in ToSet(r) PROVE x \in ToSet(l) \cup {b}
    <3>1. PICK i \in 1 .. Len(r) : r[i] = x
      BY <1>2, <2>1, SetOfList
    <3>2. QED  BY <1>2, <1>3, <3>1, SetOfList
  <2>2. ASSUME NEW x, x \in ToSet(l) PROVE x \in ToSet(r)
    <3>1. PICK i \in 1 .. Len(l) : l[i] = x
      BY <2>2, SetOfList
    <3>2. 1 + i \in 1 .. Len(r)
      BY <1>2
    <3>3. QED  BY <1>2, <3>1, <3>2, SetOfList
  <2>3. b \in ToSet(r)
    <3>1. 1 \in 1 .. Len(r)
      BY <1>2
    <3>2. QED  BY <1>2, <3>1, SetOfList
  <2>4. QED  BY <2>1, <2>2, <2>3
<1>8. QED  BY <1>2, <1>6, <1>7 DEF r

\* The places, and the buffers that each of them keeps.
Homes == ({"pool"} \X Pools) \cup ({"port"} \X Ports) \cup ({"process"} \X Procs)
Kept == [h \in Homes |-> CASE h[1] = "pool" -> ToSet(bpnext[h[2]])
                           [] h[1] = "port" -> ToSet(Undisposed(h[2]))
                           [] h[1] = "process" -> held[h[2]]]
Pool(k) == <<"pool", k>>
Port(k) == <<"port", k>>
Process(p) == <<"process", p>>

LEMMA HomesAre ==
  /\ \A k \in Pools : Pool(k) \in Homes
  /\ \A k \in Ports : Port(k) \in Homes
  /\ \A p \in Procs : Process(p) \in Homes
  /\ \A h \in Homes : \/ \E k \in Pools : h = Pool(k)
                      \/ \E k \in Ports : h = Port(k)
                      \/ \E p \in Procs : h = Process(p)
  /\ \A j, k : Pool(j) # Port(k) /\ Pool(j) # Process(k) /\ Port(j) # Process(k)
  /\ \A j, k : /\ Pool(j) = Pool(k) => j = k
               /\ Port(j) = Port(k) => j = k
               /\ Process(j) = Process(k) => j = k
BY DEF Homes, Pool, Port, Process

LEMMA KeptIs ==
  /\ \A k \in Pools : Kept[Pool(k)] = ToSet(bpnext[k])
  /\ \A k \in Ports : Kept[Port(k)] = ToSet(Undisposed(k))
  /\ \A p \in Procs : Kept[Process(p)] = held[p]
<1>1. ASSUME NEW k \in Pools PROVE Kept[Pool(k)] = ToSet(bpnext[k])
  BY DEF Kept, Homes, Pool
<1>2. ASSUME NEW k \in Ports PROVE Kept[Port(k)] = ToSet(Undisposed(k))
  BY DEF Kept, Homes, Port
<1>3. ASSUME NEW p \in Procs PROVE Kept[Process(p)] = held[p]
  BY DEF Kept, Homes, Process
<1>4. QED  BY <1>1, <1>2, <1>3

LEMMA KeptIsNext ==
  /\ \A k \in Pools : Kept'[Pool(k)] = ToSet(bpnext'[k])
  /\ \A k \in Ports : Kept'[Port(k)] = ToSet(Undisposed(k)')
  /\ \A p \in Procs : Kept'[Process(p)] = held'[p]
<1>1. ASSUME NEW k \in Pools PROVE Kept'[Pool(k)] = ToSet(bpnext'[k])
  BY DEF Kept, Homes, Pool
<1>2. ASSUME NEW k \in Ports PROVE Kept'[Port(k)] = ToSet(Undisposed(k)')
  BY DEF Kept, Homes, Port
<1>3. ASSUME NEW p \in Procs PROVE Kept'[Process(p)] = held'[p]
  BY DEF Kept, Homes, Process
<1>4. QED  BY <1>1, <1>2, <1>3

\* No buffer is kept twice, at two places or at one, and one that is nowhere is in doubt.
Apart(K) == \A g, h \in Homes : \A b : b \in K[g] /\ b \in K[h] => g = h
Once ==
  /\ \A k \in Pools : IsInjective(bpnext[k]) /\ \A b \in ToSet(bpnext[k]) : b[1] = k
  /\ \A k \in Ports : IsInjective(Undisposed(k))
Somewhere == \A b \in Live : (\E h \in Homes : b \in Kept[h]) \/ InDoubt(b)
BuffersInv == Once /\ Apart(Kept) /\ Somewhere

\* The buffers M go from g to other places.
LEMMA ApartMoves ==
  ASSUME NEW K, NEW L, Apart(K), NEW g \in Homes, NEW M, M \subseteq K[g], L[g] = K[g] \ M,
         \A h \in Homes \ {g} : K[h] \subseteq L[h] /\ L[h] \subseteq K[h] \cup M,
         \A b \in M : \E h \in Homes : b \in L[h] /\ \A f \in Homes : b \in L[f] => f = h
  PROVE  Apart(L) /\ \A b : (\E h \in Homes : b \in K[h]) => \E h \in Homes : b \in L[h]
<1>1. ASSUME NEW f \in Homes, NEW h \in Homes, NEW b, b \in L[f], b \in L[h] PROVE f = h
  <2>1. CASE b \in M
    BY <1>1, <2>1
  <2>2. CASE b \notin M
    <3>1. b \in K[f] /\ b \in K[h]
      BY <1>1, <2>2
    <3>2. QED  BY <3>1 DEF Apart
  <2>3. QED  BY <2>1, <2>2
<1>2. ASSUME NEW b, NEW h \in Homes, b \in K[h] PROVE \E f \in Homes : b \in L[f]
  BY <1>2
<1>3. QED  BY <1>1, <1>2 DEF Apart

\* What a clearing still has to dispose of.
LEMMA UndisposedIs ==
  ASSUME PortInv, NEW k \in Ports
  PROVE  /\ ptstate[k] # "limbo" => Undisposed(k) = ptq[k]
         /\ ptstate[k] = "limbo" /\ Disposing(k) = {} => Undisposed(k) = <<>>
         /\ \A p \in Disposing(k) : Undisposed(k) = Rest(ptq[k], cont[p].n)
         /\ ptq[k] = <<>> => Undisposed(k) = <<>>
         /\ Undisposed(k) \in Seq(Live) /\ ToSet(Undisposed(k)) \subseteq ToSet(ptq[k])
<1>1. PortRight(k) /\ cont \in [Procs -> Conts] /\ ptq[k] \in Seq(Live) /\ \A p \in Procs : Placed(p)
  BY DEF PortInv, PoolInv, PoolTyped
<1>2. ptstate[k] # "limbo" => Undisposed(k) = ptq[k]
  BY DEF Undisposed
<1>3. ptstate[k] = "limbo" /\ Disposing(k) = {} => Undisposed(k) = <<>>
  BY DEF Undisposed
<1>4. ASSUME NEW p \in Disposing(k)
      PROVE  /\ ptstate[k] = "limbo" /\ cont[p].n \in Nat \ {0}
             /\ Undisposed(k) = Rest(ptq[k], cont[p].n)
  <2>1. p \in Procs /\ cont[p].op = "dispose" /\ cont[p].on = k /\ Clears(cont[p], k)
    BY <1>4 DEF Disposing, At, Clears, ClearOp
  <2>2. ptstate[k] = "limbo" /\ cont[p].n \in Nat \ {0}
    BY <1>1, <2>1 DEF PortRight, RestOk, Placed, Conts
  <2>3. ASSUME NEW q \in Disposing(k) PROVE q = p
    <3>1. q \in Procs /\ Clears(cont[q], k)
      BY <2>3 DEF Disposing, At, Clears, ClearOp
    <3>2. QED  BY <1>1, <2>1, <3>1 DEF PortRight, OneClears
  <2> DEFINE x == CHOOSE y \in Disposing(k) : TRUE
  <2>4. x = p
    BY <1>4, <2>3
  <2>5. Undisposed(k) = SubSeq(ptq[k], cont[x].n, Len(ptq[k]))
    BY <1>4, <2>2 DEF Undisposed
  <2> HIDE DEF x
  <2>6. QED  BY <2>2, <2>4, <2>5 DEF Rest
<1>5. Undisposed(k) \in Seq(Live) /\ ToSet(Undisposed(k)) \subseteq ToSet(ptq[k])
  <2>1. CASE ptstate[k] # "limbo"
    BY <1>1, <1>2, <2>1
  <2>2. CASE ptstate[k] = "limbo" /\ Disposing(k) = {}
    BY <1>3, <2>2, EmptyList
  <2>3. CASE Disposing(k) # {}
    <3>1. PICK p \in Disposing(k) : TRUE
      BY <2>3
    <3> DEFINE n == cont[p].n
    <3>2. n \in Nat \ {0} /\ Undisposed(k) = Rest(ptq[k], n)
      BY <1>4
    <3> HIDE DEF n
    <3>3. Undisposed(k) \in Seq(Live) /\ ToSet(Undisposed(k)) = Entries(ptq[k], n, Len(ptq[k]))
      BY <1>1, <3>2, RestOfList
    <3>4. \A x \in n .. Len(ptq[k]) : x \in 1 .. Len(ptq[k])
      BY <1>1, <3>2
    <3>5. Entries(ptq[k], n, Len(ptq[k])) \subseteq ToSet(ptq[k])
      BY <1>1, <3>4, SetOfList DEF Entries
    <3>6. QED  BY <3>3, <3>5
  <2>4. QED  BY <2>1, <2>2, <2>3
<1>6. ptq[k] = <<>> => Undisposed(k) = <<>>
  <2>1. SUFFICES ASSUME ptq[k] = <<>> PROVE Undisposed(k) = <<>>
    OBVIOUS
  <2>2. ToSet(Undisposed(k)) = {}
    BY <1>5, <2>1, EmptyList
  <2>3. Len(Undisposed(k)) = 0
    <3>1. Undisposed(k) \in Seq(Live)
      BY <1>5
    <3>2. \A i \in 1 .. Len(Undisposed(k)) : FALSE
      BY <2>2, <3>1, SetOfList
    <3>3. QED  BY <3>1, <3>2
  <2>4. QED  BY <1>5, <2>3
<1>7. QED  BY <1>2, <1>3, <1>4, <1>5, <1>6

UndisposedRight(k) ==
  /\ ptstate[k] # "limbo" => Undisposed(k) = ptq[k]
  /\ ptstate[k] = "limbo" /\ Disposing(k) = {} => Undisposed(k) = <<>>
  /\ \A p \in Disposing(k) : Undisposed(k) = Rest(ptq[k], cont[p].n)
  /\ ptq[k] = <<>> => Undisposed(k) = <<>>
  /\ Undisposed(k) \in Seq(Live)
AllUndisposed == \A k \in Ports : UndisposedRight(k)

LEMMA UndisposedAre == PortInv => AllUndisposed
BY UndisposedIs DEF AllUndisposed, UndisposedRight

LEMMA UndisposedNext ==
  ASSUME PortInv', NEW k \in Ports
  PROVE  /\ ptstate'[k] # "limbo" => Undisposed(k)' = ptq'[k]
         /\ ptstate'[k] = "limbo" /\ Disposing(k)' = {} => Undisposed(k)' = <<>>
         /\ \A p \in Disposing(k)' : Undisposed(k)' = Rest(ptq'[k], cont'[p].n)
         /\ ptq'[k] = <<>> => Undisposed(k)' = <<>>
         /\ Undisposed(k)' \in Seq(Live')
<1>1. (PortInv => AllUndisposed)'
  BY UndisposedAre, PTL
<1>2. QED  BY <1>1 DEF AllUndisposed, UndisposedRight, Rest

\* A port that a step of p leaves alone: its messages stay where they are.
Stays(k) == ptstate'[k] = ptstate[k] /\ ptq'[k] = ptq[k]

LEMMA DisposingSame ==
  ASSUME PortInv, NEW p \in Procs, NEW c, Then(p, c), NEW k \in Ports,
         ~(cont[p].op = "dispose" /\ cont[p].on = k), ~(c.op = "dispose" /\ c.on = k)
  PROVE  Disposing(k)' = Disposing(k) /\ \A q \in Disposing(k) : cont'[q] = cont[q]
<1>1. cont \in [Procs -> Conts] /\ cont' = [cont EXCEPT ![p] = c]
  BY DEF PortInv, PoolInv, PoolTyped, Then
<1>2. cont'[p] = c /\ \A q \in Procs \ {p} : cont'[q] = cont[q]
  BY <1>1
<1>3. \A q \in Procs : q \in Disposing(k)' <=> q \in Disposing(k)
  BY <1>2 DEF Disposing, At
<1>4. Disposing(k) \subseteq Procs /\ Disposing(k)' \subseteq Procs /\ p \notin Disposing(k)
  BY DEF Disposing, At
<1>5. QED  BY <1>2, <1>3, <1>4

LEMMA UndisposedSame ==
  ASSUME PortInv, PortInv', NEW p \in Procs, NEW c, Then(p, c), NEW k \in Ports, Stays(k),
         ~(cont[p].op = "dispose" /\ cont[p].on = k), ~(c.op = "dispose" /\ c.on = k)
  PROVE  Undisposed(k)' = Undisposed(k) /\ Disposing(k)' = Disposing(k)
<1>1. Disposing(k)' = Disposing(k) /\ \A q \in Disposing(k) : cont'[q] = cont[q]
  BY DisposingSame
<1>2. CASE ptstate[k] # "limbo"
  BY <1>1, <1>2, UndisposedIs, UndisposedNext DEF Stays
<1>3. CASE ptstate[k] = "limbo" /\ Disposing(k) = {}
  BY <1>1, <1>3, UndisposedIs, UndisposedNext DEF Stays
<1>4. CASE Disposing(k) # {}
  <2>1. PICK q \in Disposing(k) : cont'[q] = cont[q]
    BY <1>1, <1>4
  <2>2. Undisposed(k) = Rest(ptq[k], cont[q].n) /\ Undisposed(k)' = Rest(ptq'[k], cont'[q].n)
    BY <1>1, <2>1, UndisposedIs, UndisposedNext
  <2>3. QED  BY <1>1, <2>1, <2>2 DEF Stays
<1>5. QED  BY <1>1, <1>2, <1>3, <1>4

\* What an abandoned clearing leaves in doubt stays so.
DoubtStays(k) ==
  ptstate[k] = "limbo" /\ Disposing(k) = {} /\ ptq[k] # <<>> => Stays(k) /\ Disposing(k)' = {}

LEMMA InDoubtStays ==
  ASSUME PortInv, \A k \in Ports : DoubtStays(k), NEW b, InDoubt(b)
  PROVE  InDoubt(b)'
<1>1. PICK k \in Ports : ptstate[k] = "limbo" /\ Disposing(k) = {} /\ Contains(ptq[k], b)
  BY DEF InDoubt
<1>2. ptq[k] # <<>>
  <2>1. ~Contains(<<>>, b)
    BY EmptyList, ContainsSet
  <2>2. QED  BY <1>1, <2>1
<1>3. ptstate'[k] = "limbo" /\ Disposing(k)' = {} /\ ptq'[k] = ptq[k]
  BY <1>1, <1>2 DEF DoubtStays, Stays
<1>4. Contains(ptq'[k], b)
  BY <1>1, <1>3
<1>5. QED  BY <1>3, <1>4 DEF InDoubt

LEMMA BuffersMove ==
  ASSUME PortInv, BuffersInv, Once', Live' = Live, \A k \in Ports : DoubtStays(k),
         NEW g \in Homes, NEW M, M \subseteq Kept[g], Kept'[g] = Kept[g] \ M,
         \A h \in Homes \ {g} : Kept[h] \subseteq Kept'[h] /\ Kept'[h] \subseteq Kept[h] \cup M,
         \A b \in M : \E h \in Homes : b \in Kept'[h] /\ \A f \in Homes : b \in Kept'[f] => f = h
  PROVE  BuffersInv'
<1>1. Apart(Kept') /\ \A b : (\E h \in Homes : b \in Kept[h]) => \E h \in Homes : b \in Kept'[h]
  BY ApartMoves DEF BuffersInv
<1>2. Somewhere'
  BY <1>1, InDoubtStays DEF BuffersInv, Somewhere
<1>3. QED  BY <1>1, <1>2 DEF BuffersInv, Apart

LEMMA BuffersInOnePlaceInv == PortInv /\ BuffersInv => BuffersInOnePlace
<1>1. SUFFICES ASSUME PortInv, BuffersInv, NEW b \in Bufs, b[1] < nbpools
               PROVE  Cardinality(Places(b)) = 1 \/ (Places(b) = {} /\ InDoubt(b))
  BY DEF BuffersInOnePlace
<1>2. b \in Live /\ b[1] \in Pools /\ bpnext \in [Pools -> Seq(Live)]
  BY <1>1 DEF Live, Bufs, PortInv, PoolInv, PoolTyped
<1>3. \A k \in Ports : Undisposed(k) \in Seq(Live) /\ IsInjective(Undisposed(k))
  BY <1>1, UndisposedIs DEF BuffersInv, Once
<1>4. \A k \in Pools : IsInjective(bpnext[k]) /\ \A x \in ToSet(bpnext[k]) : x[1] = k
  BY <1>1 DEF BuffersInv, Once
<1>5. ASSUME NEW S, NEW l \in Seq(S)
      PROVE  /\ Where(b, l) # {} <=> b \in ToSet(l)
             /\ IsInjective(l) => \A i, j \in Where(b, l) : i = j
  BY DistinctEntries, SetOfList DEF Where
<1> DEFINE A == {"pool"} \X {b[1]} \X Where(b, bpnext[b[1]])
           B == UNION {{"port"} \X {k} \X Where(b, Undisposed(k)) : k \in Ports}
           C == {"process"} \X {p \in Procs : b \in held[p]} \X {1}
           Home(x) == <<x[1], x[2]>>
<1>6. Places(b) = A \cup B \cup C
  BY DEF Places
<1>7. ASSUME NEW x \in A
      PROVE  /\ Home(x) = Pool(b[1]) /\ b \in ToSet(bpnext[b[1]])
             /\ x = <<"pool", b[1], x[3]>> /\ x[3] \in Where(b, bpnext[b[1]])
  <2>1. x = <<"pool", b[1], x[3]>> /\ x[3] \in Where(b, bpnext[b[1]])
    BY <1>7
  <2>2. b \in ToSet(bpnext[b[1]])
    BY <1>2, <1>5, <2>1
  <2>3. QED  BY <2>1, <2>2 DEF Pool
<1>8. ASSUME NEW x \in B
      PROVE  \E k \in Ports : /\ Home(x) = Port(k) /\ b \in ToSet(Undisposed(k))
                              /\ x = <<"port", k, x[3]>> /\ x[3] \in Where(b, Undisposed(k))
  <2>1. PICK k \in Ports : x \in {"port"} \X {k} \X Where(b, Undisposed(k))
    BY <1>8
  <2>2. x = <<"port", k, x[3]>> /\ x[3] \in Where(b, Undisposed(k))
    BY <2>1
  <2>3. b \in ToSet(Undisposed(k))
    BY <1>3, <1>5, <2>2
  <2>4. QED  BY <2>2, <2>3 DEF Port
<1>9. ASSUME NEW x \in C
      PROVE  \E p \in Procs : Home(x) = Process(p) /\ b \in held[p] /\ x = <<"process", p, 1>>
  <2>1. PICK p \in Procs : b \in held[p] /\ x = <<"process", p, 1>>
    BY <1>9
  <2>2. QED  BY <2>1 DEF Process
<1>10. \A x \in Places(b) : Home(x) \in Homes /\ b \in Kept[Home(x)]
  <2> HIDE DEF Home, A, B, C
  <2>1. TAKE x \in Places(b)
  <2>2. QED  BY <1>2, <1>6, <1>7, <1>8, <1>9, HomesAre, KeptIs
<1>11. ASSUME NEW x \in Places(b), NEW y \in Places(b) PROVE x = y
  <2>1. Home(x) = Home(y)
    BY <1>1, <1>10 DEF BuffersInv, Apart
  <2> HIDE DEF Home, A, B, C
  <2>2. CASE x \in A
    <3>1. y \in A
      BY <1>6, <1>7, <1>8, <1>9, <2>1, <2>2, HomesAre
    <3>2. x[3] = y[3]
      BY <1>2, <1>4, <1>5, <1>7, <2>2, <3>1
    <3>3. QED  BY <1>7, <2>2, <3>1, <3>2
  <2>3. CASE x \in B
    <3>1. PICK k \in Ports : /\ Home(x) = Port(k) /\ x = <<"port", k, x[3]>> /\ x[3] \in Where(b, Undisposed(k))
      BY <1>8, <2>3
    <3>2. y \in B
      BY <1>6, <1>7, <1>8, <1>9, <2>1, <2>3, HomesAre
    <3>3. PICK j \in Ports : /\ Home(y) = Port(j) /\ y = <<"port", j, y[3]>> /\ y[3] \in Where(b, Undisposed(j))
      BY <1>8, <3>2
    <3>4. j = k
      BY <2>1, <3>1, <3>3, HomesAre
    <3>5. x[3] = y[3]
      BY <1>3, <1>5, <3>1, <3>3, <3>4
    <3>6. QED  BY <3>1, <3>3, <3>4, <3>5
  <2>4. CASE x \in C
    <3>1. PICK p \in Procs : Home(x) = Process(p) /\ x = <<"process", p, 1>>
      BY <1>9, <2>4
    <3>2. y \notin A
      <4>1. SUFFICES ASSUME y \in A PROVE FALSE
        OBVIOUS
      <4>2. Home(y) = Pool(b[1])
        BY <1>7, <4>1
      <4>3. Pool(b[1]) # Process(p)
        BY ONLY HomesAre
      <4>4. QED  BY <2>1, <3>1, <4>2, <4>3
    <3>3. ASSUME y \in B PROVE FALSE
      <4>1. PICK k \in Ports : Home(y) = Port(k)
        BY <1>8, <3>3
      <4>2. QED  BY <2>1, <3>1, <4>1, HomesAre
    <3>4. y \in C
      BY <1>6, <3>2, <3>3
    <3>5. PICK q \in Procs : Home(y) = Process(q) /\ y = <<"process", q, 1>>
      BY <1>9, <3>4
    <3>6. QED  BY <2>1, <3>1, <3>5, HomesAre
  <2>5. QED  BY <1>6, <2>2, <2>3, <2>4
<1>12. ASSUME NEW h \in Homes, b \in Kept[h] PROVE Places(b) # {}
  <2>1. CASE \E k \in Pools : h = Pool(k)
    <3>1. PICK k \in Pools : h = Pool(k)
      BY <2>1
    <3>2. b \in ToSet(bpnext[k]) /\ k = b[1]
      BY <1>4, <1>12, <3>1, KeptIs
    <3>3. PICK i \in Where(b, bpnext[b[1]]) : TRUE
      BY <1>2, <1>5, <3>2
    <3>4. <<"pool", b[1], i>> \in A
      OBVIOUS
    <3>5. QED  BY <1>6, <3>4
  <2>2. CASE \E k \in Ports : h = Port(k)
    <3>1. PICK k \in Ports : h = Port(k)
      BY <2>2
    <3>2. b \in ToSet(Undisposed(k))
      BY <1>12, <3>1, KeptIs
    <3>3. PICK i \in Where(b, Undisposed(k)) : TRUE
      BY <1>3, <1>5, <3>2
    <3>4. <<"port", k, i>> \in {"port"} \X {k} \X Where(b, Undisposed(k))
      OBVIOUS
    <3>5. <<"port", k, i>> \in B
      BY <3>4
    <3>6. QED  BY <1>6, <3>5
  <2>3. CASE \E p \in Procs : h = Process(p)
    <3>1. PICK p \in Procs : h = Process(p)
      BY <2>3
    <3>2. b \in held[p]
      BY <1>12, <3>1, KeptIs
    <3>3. <<"process", p, 1>> \in C
      BY <3>2
    <3>4. QED  BY <1>6, <3>3
  <2>4. QED  BY <2>1, <2>2, <2>3, HomesAre
<1>13. CASE Places(b) = {}
  <2>1. InDoubt(b)
    BY <1>1, <1>2, <1>12, <1>13 DEF BuffersInv, Somewhere
  <2>2. QED  BY <1>13, <2>1
<1>14. CASE Places(b) # {}
  <2>1. PICK x : Places(b) = {x}
    BY <1>11, <1>14
  <2>2. Cardinality({x}) = 1
    BY FS_Singleton
  <2>3. Cardinality(Places(b)) = 1
    BY ONLY <2>1, <2>2, Zenon
  <2>4. QED  BY <2>3
<1>15. QED  BY <1>13, <1>14

LEMMA KeptSame ==
  ASSUME NEW h \in Homes,
         \A k \in Pools : h = Pool(k) => bpnext'[k] = bpnext[k],
         \A k \in Ports : h = Port(k) => Undisposed(k)' = Undisposed(k),
         \A p \in Procs : h = Process(p) => held'[p] = held[p]
  PROVE  Kept'[h] = Kept[h]
<1>1. CASE \E k \in Pools : h = Pool(k)
  BY <1>1, KeptIs, KeptIsNext
<1>2. CASE \E k \in Ports : h = Port(k)
  BY <1>2, KeptIs, KeptIsNext
<1>3. CASE \E p \in Procs : h = Process(p)
  BY <1>3, KeptIs, KeptIsNext
<1>4. QED  BY <1>1, <1>2, <1>3, HomesAre

PoolOnce(l, k) == IsInjective(l) /\ \A b \in ToSet(l) : b[1] = k

LEMMA OnceMoves ==
  ASSUME BuffersInv, \A k \in Pools : bpnext'[k] = bpnext[k] \/ PoolOnce(bpnext'[k], k),
         \A k \in Ports : Undisposed(k)' = Undisposed(k) \/ IsInjective(Undisposed(k)')
  PROVE  Once'
<1>1. \A k \in Pools : IsInjective(bpnext'[k]) /\ \A b \in ToSet(bpnext'[k]) : b[1] = k
  BY DEF BuffersInv, Once, PoolOnce
<1>2. \A k \in Ports : IsInjective(Undisposed(k)')
  BY DEF BuffersInv, Once
<1>3. QED  BY <1>1, <1>2 DEF Once

LEMMA BuffersQuiet ==
  ASSUME PortInv, BuffersInv, Live' = Live, \A k \in Pools : bpnext'[k] = bpnext[k],
         \A p \in Procs : held'[p] = held[p],
         \A k \in Ports : Undisposed(k)' = Undisposed(k) /\ DoubtStays(k)
  PROVE  BuffersInv'
<1>1. \A h \in Homes : Kept'[h] = Kept[h]
  BY KeptSame
<1>2. Once'
  BY OnceMoves
<1>3. 0 \in Pools
  BY PoolAssumption DEF Pools
<1>4. PICK g \in Homes : TRUE
  BY <1>3, HomesAre
<1> DEFINE M == {}
<1>5. M \subseteq Kept[g] /\ Kept'[g] = Kept[g] \ M
  BY <1>1
<1>6. \A h \in Homes \ {g} : Kept[h] \subseteq Kept'[h] /\ Kept'[h] \subseteq Kept[h] \cup M
  BY <1>1
<1>7. \A b \in M : \E h \in Homes : b \in Kept'[h] /\ \A f \in Homes : b \in Kept'[f] => f = h
  OBVIOUS
<1> HIDE DEF M
<1>8. QED  BY <1>2, <1>5, <1>6, <1>7, BuffersMove

\* One buffer goes from g to h.
LEMMA BufferMoves ==
  ASSUME PortInv, BuffersInv, Once', Live' = Live, \A k \in Ports : DoubtStays(k),
         NEW g \in Homes, NEW h \in Homes, g # h, NEW b, b \in Kept[g],
         Kept'[g] = Kept[g] \ {b}, Kept'[h] = Kept[h] \cup {b}, \A f \in Homes \ {g, h} : Kept'[f] = Kept[f]
  PROVE  BuffersInv'
<1> DEFINE M == {b}
<1>1. \A f \in Homes \ {g} : Kept[f] \subseteq Kept'[f] /\ Kept'[f] \subseteq Kept[f] \cup M
  <2>1. TAKE f \in Homes \ {g}
  <2>2. CASE f = h
    BY <2>2
  <2>3. CASE f # h
    <3>1. Kept'[f] = Kept[f]
      BY <2>3
    <3>2. QED  BY <3>1
  <2>4. QED  BY <2>2, <2>3
<1>2. \A f \in Homes : b \in Kept[f] => f = g
  BY DEF BuffersInv, Apart
<1>3. \A f \in Homes : b \in Kept'[f] => f = h
  BY <1>2
<1>4. b \in Kept'[h]
  OBVIOUS
<1>5. \A x \in M : \E y \in Homes : x \in Kept'[y] /\ \A f \in Homes : x \in Kept'[f] => f = y
  BY <1>3, <1>4
<1>6. M \subseteq Kept[g] /\ Kept'[g] = Kept[g] \ M
  OBVIOUS
<1> HIDE DEF M
<1>7. QED  BY <1>1, <1>5, <1>6, BuffersMove

LEMMA PortStays ==
  ASSUME PortInv, PortInv', NEW p \in Procs, NEW c, Then(p, c), NEW k \in Ports, Stays(k),
         ~(cont[p].op = "dispose" /\ cont[p].on = k), ~(c.op = "dispose" /\ c.on = k)
  PROVE  Undisposed(k)' = Undisposed(k) /\ DoubtStays(k)
BY UndisposedSame DEF DoubtStays

\* A port that is in use before and after, and has the messages it had.
LEMMA OpenStays ==
  ASSUME PortInv, PortInv', NEW k \in Ports, ptstate[k] # "limbo", ptstate'[k] # "limbo", ptq'[k] = ptq[k]
  PROVE  Undisposed(k)' = Undisposed(k) /\ DoubtStays(k)
BY UndisposedIs, UndisposedNext DEF DoubtStays

LEMMA PoolsFacts ==
  ASSUME PortInv, BuffersInv
  PROVE  /\ bpnext \in [Pools -> Seq(Live)] /\ held \in [Procs -> SUBSET Live] /\ cont \in [Procs -> Conts]
         /\ ptq \in [Ports -> Seq(Live)]
         /\ \A k \in Pools : PoolOnce(bpnext[k], k)
         /\ \A b \in Live : b[1] \in Pools /\ b[1] < nbpools
         /\ \A k \in Ports : IsInjective(Undisposed(k)) /\ Undisposed(k) \in Seq(Live)
<1>1. \A k \in Pools : PoolOnce(bpnext[k], k)
  BY DEF BuffersInv, Once, PoolOnce
<1>2. \A b \in Live : b[1] \in Pools /\ b[1] < nbpools
  BY DEF Live, Bufs
<1>3. \A k \in Ports : IsInjective(Undisposed(k)) /\ Undisposed(k) \in Seq(Live)
  BY UndisposedIs DEF BuffersInv, Once
<1>4. QED  BY <1>1, <1>2, <1>3 DEF PortInv, PoolInv, PoolTyped

LEMMA FinishGetbufBuffers ==
  ASSUME PortInv, PortInv', BuffersInv, NEW p \in Procs, FinishGetbuf(p), \A k \in Ports : Stays(k)
  PROVE  BuffersInv'
<1>1. /\ cont[p].op = "getbuf" /\ bpnext[cont[p].on] # <<>> /\ Then(p, Idle) /\ UNCHANGED nbpools /\ Placed(p)
      /\ held' = [held EXCEPT ![p] = @ \cup {Head(bpnext[cont[p].on])}]
      /\ bpnext' = [bpnext EXCEPT ![cont[p].on] = Tail(@)]
  BY DEF FinishGetbuf, At, PortInv, PoolInv
<1>2. PICK k \in Pools : k = cont[p].on
  <2>1. cont[p].on \in Nat /\ cont[p].on < nbpools /\ nbpools \in 0 .. NBPools
    BY <1>1, PoolsFacts DEF Placed, Conts, PortInv, PoolInv, PoolTyped
  <2>2. QED  BY <2>1, PoolAssumption DEF Pools
<1> DEFINE l == bpnext[k]
           b == Head(l)
<1>3. l \in Seq(Live) /\ IsInjective(l) /\ l # <<>> /\ PoolOnce(l, k)
  BY <1>1, <1>2, PoolsFacts DEF PoolOnce
<1>4. /\ Tail(l) \in Seq(Live) /\ IsInjective(Tail(l)) /\ b \in ToSet(l) /\ ToSet(Tail(l)) = ToSet(l) \ {b}
  BY <1>3, HeadTailDistinct
<1>5. /\ bpnext'[k] = Tail(l) /\ \A j \in Pools \ {k} : bpnext'[j] = bpnext[j]
      /\ held'[p] = held[p] \cup {b} /\ \A q \in Procs \ {p} : held'[q] = held[q]
  BY <1>1, <1>2, PoolsFacts
<1>6. PoolOnce(bpnext'[k], k)
  BY <1>3, <1>4, <1>5 DEF PoolOnce
<1> HIDE DEF b, l
<1>7. Idle.op # "dispose" /\ cont[p].op # "dispose"
  BY <1>1, ContTypes
<1>8. \A j \in Ports : Undisposed(j)' = Undisposed(j) /\ DoubtStays(j)
  BY <1>1, <1>7, PortStays
<1>9. Once'
  BY <1>5, <1>6, <1>8, OnceMoves
<1>10. Pool(k) \in Homes /\ Process(p) \in Homes /\ Pool(k) # Process(p)
  BY HomesAre
<1>11. b \in Kept[Pool(k)] /\ Kept'[Pool(k)] = Kept[Pool(k)] \ {b}
  BY <1>4, <1>5, KeptIs, KeptIsNext DEF l
<1>12. Kept'[Process(p)] = Kept[Process(p)] \cup {b}
  BY <1>5, KeptIs, KeptIsNext
<1>13. ASSUME NEW f \in Homes \ {Pool(k), Process(p)} PROVE Kept'[f] = Kept[f]
  <2>1. \A j \in Pools : f = Pool(j) => bpnext'[j] = bpnext[j]
    BY <1>5
  <2>2. \A q \in Procs : f = Process(q) => held'[q] = held[q]
    BY <1>5
  <2>3. QED  BY <1>8, <2>1, <2>2, KeptSame
<1>14. Live' = Live
  BY <1>1 DEF Live
<1>15. QED  BY <1>8, <1>9, <1>10, <1>11, <1>12, <1>13, <1>14, BufferMoves

LEMMA FreebufBuffers ==
  ASSUME PortInv, PortInv', BuffersInv, NEW p \in Procs, NEW b \in Bufs, Freebuf(p, b), \A k \in Ports : Stays(k)
  PROVE  BuffersInv'
<1> DEFINE c == Do("freebuf", b[1], <<>>, 0)
<1>1. /\ cont[p] = Idle /\ b \in held[p] /\ Then(p, c) /\ UNCHANGED nbpools
      /\ held' = [held EXCEPT ![p] = @ \ {b}] /\ bpnext' = [bpnext EXCEPT ![b[1]] = <<b>> \o @]
  BY DEF Freebuf, Call
<1>2. c.op = "freebuf" /\ cont[p].op = "user"
  BY <1>1, ContTypes DEF Do
<1> HIDE DEF c
<1>3. PICK k \in Pools : k = b[1]
  BY DEF Bufs
<1> DEFINE l == bpnext[k]
<1>4. l \in Seq(Live) /\ IsInjective(l) /\ PoolOnce(l, k) /\ b \in Live
  BY <1>1, PoolsFacts DEF PoolOnce
<1>5. Pool(k) \in Homes /\ Process(p) \in Homes /\ Pool(k) # Process(p)
  BY HomesAre
<1>6. b \in Kept[Process(p)] /\ b \notin ToSet(l)
  <2>1. b \in Kept[Process(p)]
    BY <1>1, KeptIs
  <2>2. b \notin Kept[Pool(k)]
    BY <1>5, <2>1 DEF BuffersInv, Apart
  <2>3. QED  BY <2>1, <2>2, KeptIs
<1>7. IsInjective(<<b>> \o l) /\ ToSet(<<b>> \o l) = ToSet(l) \cup {b}
  BY <1>4, <1>6, ConsDistinct
<1>8. /\ bpnext'[k] = <<b>> \o l /\ \A j \in Pools \ {k} : bpnext'[j] = bpnext[j]
      /\ held'[p] = held[p] \ {b} /\ \A q \in Procs \ {p} : held'[q] = held[q]
  BY <1>1, <1>3, PoolsFacts
<1>9. PoolOnce(bpnext'[k], k)
  BY <1>3, <1>4, <1>7, <1>8 DEF PoolOnce
<1>10. Kept'[Pool(k)] = Kept[Pool(k)] \cup {b} /\ Kept'[Process(p)] = Kept[Process(p)] \ {b}
  BY <1>7, <1>8, KeptIs, KeptIsNext
<1> HIDE DEF l
<1>11. \A j \in Ports : Undisposed(j)' = Undisposed(j) /\ DoubtStays(j)
  BY <1>1, <1>2, PortStays
<1>12. Once'
  BY <1>8, <1>9, <1>11, OnceMoves
<1>13. ASSUME NEW f \in Homes \ {Pool(k), Process(p)} PROVE Kept'[f] = Kept[f]
  <2>1. \A j \in Pools : f = Pool(j) => bpnext'[j] = bpnext[j]
    BY <1>8
  <2>2. \A q \in Procs : f = Process(q) => held'[q] = held[q]
    BY <1>8
  <2>3. QED  BY <1>11, <2>1, <2>2, KeptSame
<1>14. Live' = Live
  BY <1>1 DEF Live
<1>15. QED  BY <1>5, <1>6, <1>10, <1>11, <1>12, <1>13, <1>14, BufferMoves

LEMMA NewBufs ==
  ASSUME NEW k \in Pools
  PROVE  PoolOnce(BufsOf(k), k) /\ ToSet(BufsOf(k)) = {b \in Bufs : b[1] = k}
<1>1. BufsOf(k) = [i \in 1 .. NBufs |-> <<k, i>>] /\ NBufs \in Nat
  BY PoolAssumption DEF BufsOf
<1>2. \A i \in 1 .. NBufs : <<k, i>> \in Bufs /\ <<k, i>>[1] = k
  BY DEF Bufs
<1>3. BufsOf(k) \in Seq(Bufs) /\ Len(BufsOf(k)) = NBufs /\ \A i \in 1 .. NBufs : BufsOf(k)[i] = <<k, i>>
  BY <1>1, <1>2
<1>4. IsInjective(BufsOf(k))
  BY <1>3, DistinctEntries
<1>5. ASSUME NEW b PROVE b \in ToSet(BufsOf(k)) <=> b \in Bufs /\ b[1] = k
  <2>1. b \in ToSet(BufsOf(k)) <=> \E i \in 1 .. NBufs : b = <<k, i>>
    <3> DEFINE l == BufsOf(k)
    <3>1. l \in Seq(Bufs) /\ Len(l) = NBufs /\ \A i \in 1 .. NBufs : l[i] = <<k, i>>
      BY <1>3
    <3> HIDE DEF l
    <3>2. b \in ToSet(l) <=> \E i \in 1 .. Len(l) : l[i] = b
      BY <3>1, SetOfList
    <3>3. b \in ToSet(l) <=> \E i \in 1 .. NBufs : b = <<k, i>>
      BY <3>1, <3>2
    <3>4. QED  BY <3>3 DEF l
  <2>2. b \in Bufs /\ b[1] = k => \E i \in 1 .. NBufs : b = <<k, i>>
    BY DEF Bufs
  <2>3. QED  BY <1>2, <2>1, <2>2
<1>6. QED  BY <1>4, <1>5 DEF PoolOnce

LEMMA KeptLive ==
  ASSUME PortInv, BuffersInv, NEW h \in Homes
  PROVE  Kept[h] \subseteq Live
<1>1. CASE \E k \in Pools : h = Pool(k)
  BY <1>1, KeptIs, PoolsFacts, SetOfList
<1>2. CASE \E k \in Ports : h = Port(k)
  BY <1>2, KeptIs, PoolsFacts, SetOfList
<1>3. CASE \E p \in Procs : h = Process(p)
  BY <1>3, KeptIs, PoolsFacts
<1>4. QED  BY <1>1, <1>2, <1>3, HomesAre

LEMMA MkpoolBuffers ==
  ASSUME PortInv, PortInv', BuffersInv, NEW p \in Procs, Mkpool(p), \A k \in Ports : Stays(k)
  PROVE  BuffersInv'
<1>1. /\ nbpools < NBPools /\ nbpools \in Nat /\ cont[p] = Idle /\ cont' = cont
      /\ nbpools' = nbpools + 1 /\ UNCHANGED held
      /\ bpnext' = [bpnext EXCEPT ![nbpools] = BufsOf(nbpools)]
  BY DEF PortInv, PoolInv, PoolTyped, Mkpool, Call
<1>2. PICK k \in Pools : k = nbpools
  BY <1>1, PoolAssumption DEF Pools
<1>3. bpnext[k] = <<>> /\ bpnext'[k] = BufsOf(k) /\ \A j \in Pools \ {k} : bpnext'[j] = bpnext[j]
  <2>1. PoolRight(k)
    BY DEF PortInv, PoolInv
  <2>2. k >= nbpools
    BY <1>1, <1>2
  <2>3. QED  BY <1>1, <1>2, <2>1, <2>2, PoolsFacts DEF PoolRight
<1>4. Then(p, Idle) /\ Idle.op # "dispose" /\ cont[p].op # "dispose"
  BY <1>1, ContTypes, PoolsFacts DEF Then
<1>5. \A j \in Ports : Undisposed(j)' = Undisposed(j) /\ DoubtStays(j)
  BY <1>4, PortStays
<1>6. Once'
  BY <1>3, <1>5, NewBufs, OnceMoves
<1>7. Kept[Pool(k)] = {} /\ Kept'[Pool(k)] = {b \in Bufs : b[1] = k}
  BY <1>3, EmptyList, KeptIs, KeptIsNext, NewBufs
<1>8. ASSUME NEW f \in Homes \ {Pool(k)} PROVE Kept'[f] = Kept[f]
  <2>1. \A j \in Pools : f = Pool(j) => bpnext'[j] = bpnext[j]
    BY <1>3
  <2>2. QED  BY <1>1, <1>5, <2>1, KeptSame
<1>9. \A b \in Live : b[1] # k
  BY <1>1, <1>2 DEF Live, Bufs, Pools
<1>10. Pool(k) \in Homes
  BY HomesAre
<1>11. ASSUME NEW g \in Homes, NEW h \in Homes, NEW b, b \in Kept'[g], b \in Kept'[h] PROVE g = h
  <2>1. CASE g # Pool(k) /\ h # Pool(k)
    BY <1>8, <1>11, <2>1 DEF BuffersInv, Apart
  <2>2. ASSUME NEW f \in Homes \ {Pool(k)}, b \in Kept'[f] PROVE b[1] # k
    BY <1>8, <1>9, <2>2, KeptLive
  <2>3. QED  BY <1>7, <1>11, <2>1, <2>2
<1>12. ASSUME NEW b \in Live' PROVE (\E h \in Homes : b \in Kept'[h]) \/ InDoubt(b)'
  <2>1. CASE b \in Live
    <3>1. CASE InDoubt(b)
      BY <1>5, <3>1, InDoubtStays
    <3>2. CASE \E h \in Homes : b \in Kept[h]
      <4>1. PICK h \in Homes : b \in Kept[h]
        BY <3>2
      <4>2. b \in Kept'[h]
        BY <1>7, <1>8, <4>1
      <4>3. QED  BY <4>2
    <3>3. QED  BY <2>1, <3>1, <3>2 DEF BuffersInv, Somewhere
  <2>2. CASE b \notin Live
    <3>1. b \in Bufs /\ b[1] < nbpools' /\ b[1] \in Nat
      BY DEF Live, Bufs, Pools
    <3>2. b[1] = k
      BY <1>1, <1>2, <2>2, <3>1 DEF Live
    <3>3. QED  BY <1>7, <1>10, <3>1, <3>2
  <2>3. QED  BY <2>1, <2>2
<1>13. Apart(Kept')
  BY <1>11 DEF Apart
<1>14. Somewhere'
  BY <1>12 DEF Somewhere
<1>15. QED  BY <1>6, <1>13, <1>14 DEF BuffersInv, Apart

\* The loop over messages i to j gives each back to its pool.
Gained(d, q, i, m) ==
  \A k \in Pools : /\ PoolOnce(d.next[k], k)
                   /\ ToSet(d.next[k]) = ToSet(bpnext[k]) \cup {b \in Entries(q, i, m) : b[1] = k}

LEMMA FreeingGains ==
  ASSUME NEW d, d.next \in [Pools -> Seq(Live)], NEW q, NEW i \in Nat \ {0}, NEW m \in Nat, m >= i,
         Gained(d, q, i, m - 1), q[m] \in Live, \A x \in i .. m : q[x] = q[m] => x = m,
         \A k \in Pools : q[m] \notin ToSet(bpnext[k])
  PROVE  Freeing(d, q[m]).next \in [Pools -> Seq(Live)] /\ Gained(Freeing(d, q[m]), q, i, m)
<1> DEFINE b == q[m]
           e == Freeing(d, b)
<1>1. PICK k \in Pools : k = b[1]
  BY DEF Live, Bufs
<1> DEFINE l == d.next[k]
<1>2. l \in Seq(Live) /\ PoolOnce(l, k) /\ ToSet(l) = ToSet(bpnext[k]) \cup {x \in Entries(q, i, m - 1) : x[1] = k}
  BY DEF Gained
<1>3. b \notin Entries(q, i, m - 1)
  <2>1. \A x \in i .. m - 1 : x \in i .. m /\ x # m
    OBVIOUS
  <2>2. QED  BY <2>1 DEF Entries
<1>4. Entries(q, i, m) = Entries(q, i, m - 1) \cup {b}
  <2>1. \A x : x \in i .. m <=> x \in i .. m - 1 \/ x = m
    OBVIOUS
  <2>2. QED  BY <2>1 DEF Entries
<1>5. b \notin ToSet(l) /\ b \in Live
  BY <1>2, <1>3
<1>6. /\ <<b>> \o l \in Seq(Live) /\ IsInjective(<<b>> \o l) /\ ToSet(<<b>> \o l) = ToSet(l) \cup {b}
  BY <1>2, <1>5, ConsDistinct DEF PoolOnce
<1>7. e.next = [d.next EXCEPT ![k] = <<b>> \o l]
  BY <1>1 DEF Freeing
<1>8. e.next[k] = <<b>> \o l /\ (\A j \in Pools \ {k} : e.next[j] = d.next[j]) /\ e.next \in [Pools -> Seq(Live)]
  BY <1>6, <1>7
<1> HIDE DEF e, l
<1>9. PoolOnce(e.next[k], k) /\ ToSet(e.next[k]) = ToSet(bpnext[k]) \cup {x \in Entries(q, i, m) : x[1] = k}
  BY <1>1, <1>2, <1>4, <1>6, <1>8 DEF PoolOnce
<1>10. ASSUME NEW j \in Pools \ {k}
       PROVE  PoolOnce(e.next[j], j) /\ ToSet(e.next[j]) = ToSet(bpnext[j]) \cup {x \in Entries(q, i, m) : x[1] = j}
  BY <1>1, <1>4, <1>8 DEF Gained
<1>11. Gained(e, q, i, m)
  BY <1>9, <1>10 DEF Gained
<1>12. QED  BY <1>8, <1>11 DEF e

LEMMA DisposeGains ==
  ASSUME NEW q \in Seq(Live), NEW i \in Nat \ {0}, NEW j \in 0 .. Len(q), bpnext \in [Pools -> Seq(Live)],
         \A k \in Pools : PoolOnce(bpnext[k], k),
         \A x, y \in i .. j : q[x] = q[y] => x = y, \A x \in i .. j, k \in Pools : q[x] \notin ToSet(bpnext[k])
  PROVE  Gained(DisposeAll(q, i, j), q, i, j)
<1>0. PICK f : DisposedBy(q, i, j, f)
  <2>1. j \in Nat /\ i \in Nat \ {0}
    OBVIOUS
  <2>2. QED  BY ONLY <2>1, DisposeDef
<1>1. /\ DisposeAll(q, i, j) = f[j]
      /\ f = [m \in 0 .. j |-> IF m < i THEN [next |-> bpnext, sem |-> bpsem]
                               ELSE Freeing(f[m-1], q[m])]
  BY <1>0 DEF DisposedBy
<1> DEFINE Ok(m) == f[m].next \in [Pools -> Seq(Live)] /\ Gained(f[m], q, i, m)
           T == {m \in 0 .. j : ~Ok(m)}
<1>2. \A m \in 0 .. j : f[m] = IF m < i THEN [next |-> bpnext, sem |-> bpsem] ELSE Freeing(f[m-1], q[m])
  BY <1>1
<1>3. ASSUME NEW m \in 0 .. j, m < i PROVE Ok(m)
  <2>1. f[m].next = bpnext
    BY <1>2, <1>3
  <2>2. Entries(q, i, m) = {}
    BY <1>3 DEF Entries
  <2>3. QED  BY <2>1, <2>2 DEF Gained
<1>4. ASSUME NEW m \in 0 .. j, m >= i, Ok(m - 1) PROVE Ok(m)
  <2>1. f[m] = Freeing(f[m-1], q[m]) /\ m \in Nat /\ m \in i .. j
    BY <1>2, <1>4
  <2>2. q[m] \in Live
    BY <1>4
  <2>3. \A x \in i .. m : q[x] = q[m] => x = m
    BY <2>1
  <2>4. \A k \in Pools : q[m] \notin ToSet(bpnext[k])
    BY <2>1
  <2>5. PICK d : d = f[m-1]
    OBVIOUS
  <2>6. d.next \in [Pools -> Seq(Live)] /\ Gained(d, q, i, m - 1)
    BY <1>4, <2>5
  <2>7. i \in Nat \ {0} /\ m >= i
    BY <1>4
  <2>8. Freeing(d, q[m]).next \in [Pools -> Seq(Live)] /\ Gained(Freeing(d, q[m]), q, i, m)
    BY ONLY <2>1, <2>2, <2>3, <2>4, <2>6, <2>7, FreeingGains
  <2>9. QED  BY <2>1, <2>5, <2>8
<1> HIDE DEF Ok
<1>5. T = {}
  <2>1. SUFFICES ASSUME T # {} PROVE FALSE
    OBVIOUS
  <2>2. PICK m \in T : \A x \in T : m <= x
    <3>1. T \subseteq Nat
      OBVIOUS
    <3>2. Min(T) \in T /\ \A x \in T : Min(T) <= x
      BY <2>1, <3>1, MinNat
    <3>3. QED  BY <3>2
  <2>3. m \in 0 .. j /\ ~Ok(m)
    BY <2>2
  <2>4. CASE m < i
    BY <1>3, <2>3, <2>4
  <2>5. CASE m >= i
    <3>1. m - 1 \in 0 .. j /\ ~(m <= m - 1)
      BY <2>3, <2>5
    <3>2. Ok(m - 1)
      BY <2>2, <3>1
    <3>3. QED  BY <1>4, <2>3, <2>5, <3>2
  <2>6. QED  BY <2>3, <2>4, <2>5
<1>6. Ok(j)
  BY <1>5
<1>7. QED  BY <1>1, <1>6 DEF Ok

\* What a step of a clearing does to its port: of the messages from i on it has disposed
\* of those up to j.
LEMMA DisposedBuffers ==
  ASSUME PortInv, PortInv', BuffersInv, NEW k \in Ports, NEW i \in Nat \ {0}, NEW j \in 0 .. Len(ptq[k]),
         ToSet(Undisposed(k)) = Entries(ptq[k], i, Len(ptq[k])),
         \A x, y \in i .. Len(ptq[k]) : ptq[k][x] = ptq[k][y] => x = y,
         Disposed(ptq[k], i, j), UNCHANGED <<nbpools, held>>,
         IsInjective(Undisposed(k)'), ToSet(Undisposed(k)') = ToSet(Undisposed(k)) \ Entries(ptq[k], i, j),
         DoubtStays(k), \A h \in Ports \ {k} : Undisposed(h)' = Undisposed(h) /\ DoubtStays(h)
  PROVE  BuffersInv'
<1> DEFINE q == ptq[k]
           M == Entries(q, i, j)
           g == Port(k)
<1>1. /\ q \in Seq(Live) /\ bpnext \in [Pools -> Seq(Live)] /\ \A f \in Pools : PoolOnce(bpnext[f], f)
      /\ \A b \in Live : b[1] \in Pools
  BY PoolsFacts
<1>2. i .. j \subseteq i .. Len(q)
  BY <1>1
<1>3. Kept[g] = Entries(q, i, Len(q)) /\ M \subseteq Kept[g] /\ g \in Homes /\ Kept'[g] = Kept[g] \ M
  BY <1>2, HomesAre, KeptIs, KeptIsNext DEF Entries
<1>4. ASSUME NEW x \in i .. j, NEW f \in Pools PROVE q[x] \notin ToSet(bpnext[f])
  <2>1. q[x] \in Kept[g]
    BY <1>3 DEF Entries
  <2>2. Pool(f) \in Homes /\ Pool(f) # g
    BY HomesAre
  <2>3. q[x] \notin Kept[Pool(f)]
    BY <1>3, <2>1, <2>2 DEF BuffersInv, Apart
  <2>4. QED  BY <2>3, KeptIs
<1>5. Gained(DisposeAll(q, i, j), q, i, j)
  BY <1>1, <1>2, <1>4, DisposeGains
<1>6. \A f \in Pools : /\ PoolOnce(bpnext'[f], f)
                       /\ Kept'[Pool(f)] = Kept[Pool(f)] \cup {b \in M : b[1] = f}
  <2>1. bpnext' = DisposeAll(q, i, j).next
    BY DEF Disposed
  <2>2. \A f \in Pools : /\ PoolOnce(bpnext'[f], f)
                         /\ ToSet(bpnext'[f]) = ToSet(bpnext[f]) \cup {b \in M : b[1] = f}
    BY <1>5, <2>1 DEF Gained
  <2>3. QED  BY <2>2, KeptIs, KeptIsNext
<1>7. Once'
  BY <1>6, OnceMoves
<1> HIDE DEF M, g
<1>8. ASSUME NEW f \in Homes \ {g} PROVE \/ \E n \in Pools : f = Pool(n)
                                         \/ Kept'[f] = Kept[f] /\ \A n \in Pools : f # Pool(n)
  <2>1. CASE \E n \in Pools : f = Pool(n)
    BY <2>1
  <2>2. CASE \A n \in Pools : f # Pool(n)
    <3>1. \A h \in Ports : f = Port(h) => h # k
      BY DEF g
    <3>2. QED  BY <2>2, <3>1, KeptSame
  <2>3. QED  BY <2>1, <2>2
<1>9. \A f \in Homes \ {g} : Kept[f] \subseteq Kept'[f] /\ Kept'[f] \subseteq Kept[f] \cup M
  BY <1>6, <1>8
<1>10. ASSUME NEW b \in M PROVE \E h \in Homes : b \in Kept'[h] /\ \A f \in Homes : b \in Kept'[f] => f = h
  <2>1. b \in Kept[g] /\ b \notin Kept'[g]
    BY <1>3
  <2>2. PICK n \in Pools : n = b[1]
    <3>1. b \in Live
      BY <1>3, <2>1, KeptLive
    <3>2. QED  BY <1>1, <3>1
  <2>3. b \in Kept'[Pool(n)] /\ Pool(n) \in Homes
    BY <1>6, <2>2, HomesAre
  <2>4. ASSUME NEW f \in Homes, b \in Kept'[f] PROVE f = Pool(n)
    <3>1. (f # g /\ b \notin Kept[f]) \/ f = g
      BY <1>3, <2>1 DEF BuffersInv, Apart
    <3>2. PICK m \in Pools : f = Pool(m)
      BY <1>8, <2>1, <2>4, <3>1
    <3>3. b \in ToSet(bpnext'[m])
      BY <2>4, <3>2, KeptIsNext
    <3>4. b[1] = m
      BY <1>6, <3>3 DEF PoolOnce
    <3>5. QED  BY <2>2, <3>2, <3>4
  <2>5. QED  BY <2>3, <2>4
<1>11. Live' = Live /\ \A h \in Ports : DoubtStays(h)
  BY DEF Live
<1>12. QED  BY <1>3, <1>7, <1>9, <1>10, <1>11, BuffersMove

LEMMA StepQuiet ==
  ASSUME PortInv, PortInv', BuffersInv, NEW p \in Procs, NEW c, Then(p, c), cont[p].op # "dispose", c.op # "dispose",
         UNCHANGED <<nbpools, bpnext, held>>,
         \A k \in Ports : ptq'[k] = ptq[k] /\ (ptstate'[k] = ptstate[k] \/ (ptstate[k] # "limbo" /\ ptstate'[k] # "limbo"))
  PROVE  BuffersInv'
<1>1. \A k \in Ports : Undisposed(k)' = Undisposed(k) /\ DoubtStays(k)
  BY PortStays, OpenStays DEF Stays
<1>2. Live' = Live
  BY DEF Live
<1>3. QED  BY <1>1, <1>2, BuffersQuiet

LEMMA PutBuffers ==
  ASSUME PortInv, PortInv', BuffersInv, NEW p \in Procs, NEW k \in Ports, NEW b \in held[p], Put(p, k, b),
         ptstate[k] = "alloc", cont[p].op # "dispose", UNCHANGED <<ptstate, nbpools, bpnext>>
  PROVE  BuffersInv'
<1>1. CASE ptfree = 0
  <2>1. UNCHANGED <<ptq, held, cont>>
    BY <1>1 DEF Put
  <2>2. Then(p, cont[p])
    BY <2>1, PoolsFacts DEF Then
  <2>3. QED  BY <2>1, <2>2, StepQuiet
<1>2. CASE ptfree # 0
  <2>1. /\ Then(p, Idle) /\ ptq' = [ptq EXCEPT ![k] = Append(@, b)] /\ held' = [held EXCEPT ![p] = @ \ {b}]
        /\ Idle.op # "dispose"
    BY <1>2, ContTypes DEF Put
  <2> DEFINE q == ptq[k]
  <2>2. /\ ptq'[k] = Append(q, b) /\ \A j \in Ports \ {k} : ptq'[j] = ptq[j]
        /\ held'[p] = held[p] \ {b} /\ \A r \in Procs \ {p} : held'[r] = held[r]
    BY <2>1, PoolsFacts
  <2>3. Undisposed(k) = q /\ Undisposed(k)' = Append(q, b) /\ DoubtStays(k)
    BY <2>2, UndisposedIs, UndisposedNext DEF DoubtStays
  <2>4. q \in Seq(Live) /\ IsInjective(q) /\ b \in Live
    BY <2>3, PoolsFacts
  <2>5. Process(p) \in Homes /\ Port(k) \in Homes /\ Process(p) # Port(k)
    BY HomesAre
  <2>6. b \in Kept[Process(p)] /\ b \notin ToSet(q)
    <3>1. b \in Kept[Process(p)]
      BY KeptIs
    <3>2. b \notin Kept[Port(k)]
      BY <2>5, <3>1 DEF BuffersInv, Apart
    <3>3. QED  BY <2>3, <3>1, <3>2, KeptIs
  <2>7. IsInjective(Append(q, b)) /\ ToSet(Append(q, b)) = ToSet(q) \cup {b}
    BY <2>4, <2>6, AppendDistinct
  <2>8. Kept'[Process(p)] = Kept[Process(p)] \ {b} /\ Kept'[Port(k)] = Kept[Port(k)] \cup {b}
    <3>1. Kept'[Port(k)] = ToSet(Undisposed(k)') /\ Kept[Port(k)] = ToSet(Undisposed(k))
      BY KeptIs, KeptIsNext
    <3>2. Kept'[Process(p)] = held'[p] /\ Kept[Process(p)] = held[p]
      BY KeptIs, KeptIsNext
    <3>3. QED  BY <2>2, <2>3, <2>7, <3>1, <3>2
  <2>9. ASSUME NEW j \in Ports \ {k} PROVE Undisposed(j)' = Undisposed(j) /\ DoubtStays(j)
    BY <2>1, <2>2, PortStays DEF Stays
  <2>10. \A j \in Ports : Undisposed(j)' = Undisposed(j) \/ IsInjective(Undisposed(j)')
    BY <2>3, <2>7, <2>9
  <2>11. Once'
    BY <2>10, OnceMoves
  <2>12. ASSUME NEW f \in Homes \ {Process(p), Port(k)} PROVE Kept'[f] = Kept[f]
    <3>1. \A j \in Ports : f = Port(j) => Undisposed(j)' = Undisposed(j)
      BY <2>9
    <3>2. \A r \in Procs : f = Process(r) => held'[r] = held[r]
      BY <2>2
    <3>3. QED  BY <3>1, <3>2, KeptSame
  <2>13. Live' = Live /\ \A j \in Ports : DoubtStays(j)
    BY <2>3, <2>9 DEF Live
  <2>14. QED  BY <2>5, <2>6, <2>8, <2>11, <2>12, <2>13, BufferMoves
<1>3. QED  BY <1>1, <1>2

LEMMA TakeBuffers ==
  ASSUME PortInv, PortInv', BuffersInv, NEW p \in Procs, NEW k \in Ports, Take(p, k), Then(p, Idle), ptq[k] # <<>>,
         ptstate[k] = "alloc", cont[p].op # "dispose", UNCHANGED <<ptstate, nbpools, bpnext>>
  PROVE  BuffersInv'
<1> DEFINE q == ptq[k]
           b == Head(q)
<1>1. /\ ptq' = [ptq EXCEPT ![k] = Tail(@)] /\ held' = [held EXCEPT ![p] = @ \cup {b}]
      /\ Idle.op # "dispose"
  BY ContTypes DEF Take
<1>2. /\ ptq'[k] = Tail(q) /\ \A j \in Ports \ {k} : ptq'[j] = ptq[j]
      /\ held'[p] = held[p] \cup {b} /\ \A r \in Procs \ {p} : held'[r] = held[r]
  BY <1>1, PoolsFacts
<1>3. Undisposed(k) = q /\ Undisposed(k)' = Tail(q) /\ DoubtStays(k)
  BY <1>2, UndisposedIs, UndisposedNext DEF DoubtStays
<1>4. q \in Seq(Live) /\ IsInjective(q) /\ q # <<>>
  BY <1>3, PoolsFacts
<1>5. IsInjective(Tail(q)) /\ b \in ToSet(q) /\ ToSet(Tail(q)) = ToSet(q) \ {b}
  BY <1>4, HeadTailDistinct
<1> HIDE DEF b
<1>6. Process(p) \in Homes /\ Port(k) \in Homes /\ Process(p) # Port(k)
  BY HomesAre
<1>7. b \in Kept[Port(k)] /\ Kept'[Process(p)] = Kept[Process(p)] \cup {b} /\ Kept'[Port(k)] = Kept[Port(k)] \ {b}
  <2>1. Kept'[Port(k)] = ToSet(Undisposed(k)') /\ Kept[Port(k)] = ToSet(Undisposed(k))
    BY KeptIs, KeptIsNext
  <2>2. Kept'[Process(p)] = held'[p] /\ Kept[Process(p)] = held[p]
    BY KeptIs, KeptIsNext
  <2>3. QED  BY <1>2, <1>3, <1>5, <2>1, <2>2
<1>8. ASSUME NEW j \in Ports \ {k} PROVE Undisposed(j)' = Undisposed(j) /\ DoubtStays(j)
  BY <1>1, <1>2, PortStays DEF Stays
<1>9. \A j \in Ports : Undisposed(j)' = Undisposed(j) \/ IsInjective(Undisposed(j)')
  BY <1>3, <1>5, <1>8
<1>10. Once'
  BY <1>9, OnceMoves
<1>11. ASSUME NEW f \in Homes \ {Port(k), Process(p)} PROVE Kept'[f] = Kept[f]
  <2>1. \A j \in Ports : f = Port(j) => Undisposed(j)' = Undisposed(j)
    BY <1>8
  <2>2. \A r \in Procs : f = Process(r) => held'[r] = held[r]
    BY <1>2
  <2>3. QED  BY <2>1, <2>2, KeptSame
<1>12. Live' = Live /\ \A j \in Ports : DoubtStays(j)
  BY <1>3, <1>8 DEF Live
<1>13. QED  BY <1>6, <1>7, <1>10, <1>11, <1>12, BufferMoves

LEMMA SendBuffers ==
  ASSUME PortInv, PortInv', BuffersInv, NEW p \in Procs,
         \/ \E k \in Ports : (\E b \in Bufs : Psend(p, k, b)) \/ Preceive(p, k)
         \/ FinishPsend(p) \/ FinishPreceive(p)
  PROVE  BuffersInv'
<1>1. UNCHANGED <<ptstate, nbpools, bpnext>>
  BY DEF Psend, Preceive, FinishPsend, FinishPreceive, SendUnchanged, tableVars
<1>2. ASSUME NEW c, Then(p, c), c.op # "dispose", cont[p].op # "dispose", UNCHANGED <<ptq, held>> PROVE BuffersInv'
  BY <1>1, <1>2, StepQuiet
<1>3. ASSUME NEW k \in Ports, NEW b \in Bufs, Psend(p, k, b) PROVE BuffersInv'
  <2>1. cont[p].op # "dispose" /\ b \in held[p] /\ ptstate[k] = "alloc"
    BY <1>3, ContTypes DEF Psend, Call
  <2>2. CASE Blocks(ptssem[k])
    <3>1. Then(p, Do("psend", k, b, ptseq[k])) /\ UNCHANGED <<ptq, held>> /\ Do("psend", k, b, ptseq[k]).op # "dispose"
      BY <1>3, <2>2 DEF Psend, Do
    <3>2. QED  BY <1>2, <2>1, <3>1
  <2>3. CASE ~Blocks(ptssem[k])
    <3>1. Put(p, k, b)
      BY <1>3, <2>3 DEF Psend
    <3>2. QED  BY <1>1, <2>1, <3>1, PutBuffers
  <2>4. QED  BY <2>2, <2>3
<1>4. ASSUME NEW k \in Ports, Preceive(p, k) PROVE BuffersInv'
  <2>1. cont[p].op # "dispose" /\ ptstate[k] = "alloc"
    BY <1>4, ContTypes DEF Preceive, Call
  <2>2. CASE Blocks(ptrsem[k])
    <3>1. /\ Then(p, Do("preceive", k, <<>>, ptseq[k])) /\ UNCHANGED <<ptq, held>>
          /\ Do("preceive", k, <<>>, ptseq[k]).op # "dispose"
      BY <1>4, <2>2 DEF Preceive, Do
    <3>2. QED  BY <1>2, <2>1, <3>1
  <2>3. CASE ~Blocks(ptrsem[k])
    <3>1. Then(p, Idle) /\ ptq[k] # <<>> /\ Take(p, k)
      BY <1>4, <2>3 DEF Preceive
    <3>2. QED  BY <1>1, <2>1, <3>1, TakeBuffers
  <2>4. QED  BY <2>2, <2>3
<1>5. Placed(p) /\ Idle.op # "dispose"
  BY ContTypes DEF PortInv, PoolInv
<1>6. CASE FinishPsend(p)
  <2>1. PICK k \in Ports : k = cont[p].on
    BY <1>5, <1>6 DEF FinishPsend, At, Placed
  <2>2. cont[p].op = "psend" /\ cont[p].buf \in held[p]
    BY <1>5, <1>6 DEF FinishPsend, At, Placed
  <2>3. CASE Still(p)
    <3>1. Put(p, k, cont[p].buf) /\ ptstate[k] = "alloc"
      BY <1>6, <2>1, <2>3 DEF FinishPsend, Still
    <3>2. QED  BY <1>1, <2>2, <3>1, PutBuffers
  <2>4. CASE ~Still(p)
    <3>1. Then(p, Idle) /\ UNCHANGED <<ptq, held>>
      BY <1>6, <2>4 DEF FinishPsend
    <3>2. QED  BY <1>2, <1>5, <2>2, <3>1
  <2>5. QED  BY <2>3, <2>4
<1>7. CASE FinishPreceive(p)
  <2>1. PICK k \in Ports : k = cont[p].on
    BY <1>5, <1>7 DEF FinishPreceive, At, Placed
  <2>2. cont[p].op = "preceive" /\ Then(p, Idle)
    BY <1>7 DEF FinishPreceive, At
  <2>3. CASE Still(p)
    <3>1. Take(p, k) /\ ptq[k] # <<>> /\ ptstate[k] = "alloc"
      BY <1>7, <2>1, <2>3 DEF FinishPreceive, Still
    <3>2. QED  BY <1>1, <2>2, <3>1, TakeBuffers
  <2>4. CASE ~Still(p)
    <3>1. UNCHANGED <<ptq, held>>
      BY <1>7, <2>4 DEF FinishPreceive
    <3>2. QED  BY <1>2, <1>5, <2>2, <3>1
  <2>5. QED  BY <2>3, <2>4
<1>8. QED  BY <1>3, <1>4, <1>6, <1>7

LEMMA EntriesFacts ==
  ASSUME NEW S, NEW q \in Seq(S), NEW i \in Nat \ {0}, NEW j \in 0 .. Len(q),
         \A x, y \in i .. Len(q) : q[x] = q[y] => x = y
  PROVE  i <= j => /\ Entries(q, j + 1, Len(q)) = Entries(q, i, Len(q)) \ Entries(q, i, j)
                   /\ \A x, y \in j + 1 .. Len(q) : q[x] = q[y] => x = y
<1>1. SUFFICES ASSUME i <= j
               PROVE  /\ Entries(q, j + 1, Len(q)) = Entries(q, i, Len(q)) \ Entries(q, i, j)
                      /\ \A x, y \in j + 1 .. Len(q) : q[x] = q[y] => x = y
  OBVIOUS
<1> DEFINE n == Len(q)
<1>2. n \in Nat /\ j \in Nat /\ j <= n
  OBVIOUS
<1> HIDE DEF n
<1>3. /\ \A x \in j + 1 .. n : x \in i .. n /\ x \notin i .. j
      /\ \A x \in i .. j : x \in i .. n
      /\ \A x \in i .. n : x \in i .. j \/ x \in j + 1 .. n
  BY <1>1, <1>2
<1>4. \A x, y \in i .. n : q[x] = q[y] => x = y
  BY DEF n
<1>5. ASSUME NEW b \in Entries(q, j + 1, n) PROVE b \in Entries(q, i, n) /\ b \notin Entries(q, i, j)
  <2>1. PICK x \in j + 1 .. n : b = q[x]
    BY DEF Entries
  <2>2. ASSUME NEW y \in i .. j, q[y] = b PROVE FALSE
    BY <1>3, <1>4, <2>1, <2>2
  <2>3. QED  BY <1>3, <2>1, <2>2 DEF Entries
<1>6. ASSUME NEW b \in Entries(q, i, n), b \notin Entries(q, i, j) PROVE b \in Entries(q, j + 1, n)
  BY <1>3, <1>6 DEF Entries
<1>7. QED  BY <1>3, <1>4, <1>5, <1>6 DEF n

LEMMA ClearFromBuffers ==
  ASSUME PortInv, PortInv', BuffersInv, NEW p \in Procs, NEW k \in Ports, NEW i \in Nat \ {0},
         NEW to \in {"free", "alloc"}, ClearFrom(p, k, i, to), ClearUnchanged, AloneClears(p, k), DoubtStays(k),
         ToSet(Undisposed(k)) = Entries(ptq[k], i, Len(ptq[k])),
         \A x, y \in i .. Len(ptq[k]) : ptq[k][x] = ptq[k][y] => x = y
  PROVE  BuffersInv'
<1> DEFINE q == ptq[k]
           frees == {j \in i .. Len(q) : Frees(bpsem[q[j][1]])}
<1>1. /\ q \in Seq(Live) /\ ptq \in [Ports -> Seq(Live)] /\ ptstate \in [Ports -> {"free", "alloc", "limbo"}]
      /\ cont \in [Procs -> Conts] /\ UNCHANGED <<nbpools, held>>
  BY PoolsFacts DEF PortInv, PortTyped, ClearUnchanged
<1>2. ASSUME NEW j \in 0 .. Len(q), Disposed(q, i, j), NEW c, Then(p, c), c.op = "dispose" => c.on = k,
             \A h \in Ports \ {k} : Stays(h), IsInjective(Undisposed(k)'),
             ToSet(Undisposed(k)') = ToSet(Undisposed(k)) \ Entries(q, i, j)
      PROVE  BuffersInv'
  <2>1. ASSUME NEW h \in Ports \ {k} PROVE Undisposed(h)' = Undisposed(h) /\ DoubtStays(h)
    <3>1. ~(cont[p].op = "dispose" /\ cont[p].on = h)
      BY DEF AloneClears, Clears
    <3>2. QED  BY <1>2, <3>1, PortStays
  <2>2. QED  BY <1>1, <1>2, <2>1, DisposedBuffers
<1>3. CASE frees # {}
  <2> DEFINE j == Min(frees)
  <2>1. j \in frees
    <3>1. frees \subseteq Nat
      BY <1>1
    <3>2. QED  BY <1>3, <3>1, MinNat
  <2>2. j \in i .. Len(q) /\ j \in 0 .. Len(q) /\ j + 1 \in Nat \ {0} /\ i <= j
    <3>1. Len(q) \in Nat /\ i \in Nat /\ j \in i .. Len(q)
      <4>1. Len(q) \in Nat /\ i \in Nat
        <5> HIDE DEF q
        <5>1. QED  BY <1>1
      <4> HIDE DEF j, q
      <4>2. j \in i .. Len(q)
        BY <2>1
      <4>3. QED  BY <4>1, <4>2
    <3> HIDE DEF j
    <3>2. QED  BY ONLY <3>1
  <2>3. /\ Disposed(q, i, j) /\ StopAt(p, "dispose", k, j + 1, to) /\ ptq' = ptq
        /\ ptstate' = [ptstate EXCEPT ![k] = "limbo"]
    BY <1>3 DEF ClearFrom
  <2> HIDE DEF j, frees
  <2>4. PICK c \in Conts : Then(p, c) /\ c.op = "dispose" /\ c.on = k /\ c.n = j + 1
    BY <2>2, <2>3, StopAtCont
  <2>5. cont'[p] = c
    BY <1>1, <2>4 DEF Then
  <2>6. p \in Disposing(k)'
    BY <2>4, <2>5 DEF Disposing, At
  <2>7. Undisposed(k)' = Rest(q, j + 1)
    BY <2>3, <2>4, <2>5, <2>6, UndisposedNext
  <2>8. /\ ToSet(Rest(q, j + 1)) = Entries(q, j + 1, Len(q))
        /\ IsInjective(Rest(q, j + 1)) <=> \A x, y \in j + 1 .. Len(q) : q[x] = q[y] => x = y
    BY <1>1, <2>2, RestOfList
  <2>9. /\ Entries(q, j + 1, Len(q)) = Entries(q, i, Len(q)) \ Entries(q, i, j)
        /\ \A x, y \in j + 1 .. Len(q) : q[x] = q[y] => x = y
    BY <1>1, <2>2, EntriesFacts
  <2>10. \A h \in Ports \ {k} : Stays(h)
    BY <1>1, <2>3 DEF Stays
  <2>11. IsInjective(Undisposed(k)') /\ ToSet(Undisposed(k)') = ToSet(Undisposed(k)) \ Entries(q, i, j)
    BY <2>7, <2>8, <2>9
  <2>12. QED  BY <1>2, <2>2, <2>3, <2>4, <2>10, <2>11
<1>4. CASE frees = {}
  <2> DEFINE d == SClear(Clearing(k), to, ptmaxcnt[k])
  <2>1. Disposed(q, i, Len(q)) /\ ptq' = [ptq EXCEPT ![k] = <<>>] /\ SetPort(p, k, to, d)
    BY <1>4 DEF ClearFrom
  <2>2. d.op \in {"user", "clearR", "clearEnd"}
    BY ClearOps
  <2> HIDE DEF d, frees
  <2>3. StopAt(p, d.op, k, 0, to) /\ ptstate' = [ptstate EXCEPT ![k] = d.state]
    BY <2>1 DEF SetPort
  <2>4. PICK c \in Conts : Then(p, c) /\ c.op = d.op
    BY <2>2, <2>3, StopAtCont
  <2>5. ptq'[k] = <<>> /\ \A h \in Ports \ {k} : Stays(h)
    BY <1>1, <2>1, <2>3 DEF Stays
  <2>6. Undisposed(k)' = <<>>
    BY <2>5, UndisposedNext
  <2>7. IsInjective(Undisposed(k)') /\ ToSet(Undisposed(k)') = {}
    BY <2>6, EmptyList
  <2>8. Len(q) \in 0 .. Len(q)
    BY <1>1
  <2>9. c.op # "dispose"
    BY <2>2, <2>4
  <2>10. ToSet(Undisposed(k)') = ToSet(Undisposed(k)) \ Entries(q, i, Len(q))
    BY <2>7
  <2>11. QED  BY <1>2, <2>1, <2>4, <2>5, <2>7, <2>8, <2>9, <2>10
<1>5. QED  BY <1>3, <1>4

LEMMA ClearBuffers ==
  ASSUME PortInv, PortInv', BuffersInv, NEW p \in Procs,
         \/ \E k \in Ports : Preset(p, k) \/ Pdelete(p, k)
         \/ FinishDispose(p) \/ FinishClear(p)
  PROVE  BuffersInv'
<1>1. PortTyped /\ cont \in [Procs -> Conts] /\ Placed(p) /\ ptq \in [Ports -> Seq(Live)]
  BY PoolsFacts DEF PortInv, PoolInv
<1>2. ASSUME NEW k \in Ports, Preset(p, k) \/ Pdelete(p, k) PROVE BuffersInv'
  <2>1. PICK to \in {"free", "alloc"} : ClearFrom(p, k, 1, to)
    BY <1>2 DEF Preset, Pdelete, Ptclear
  <2>2. ptstate[k] = "alloc" /\ ClearUnchanged /\ cont[p].op = "user"
    BY <1>2, ContTypes DEF Preset, Pdelete, Ptclear, Call
  <2>3. AloneClears(p, k) /\ DoubtStays(k)
    <3>1. \A q \in Procs : RestOk(cont[q], k)
      BY DEF PortInv, PortRight
    <3>2. QED  BY <2>2, <3>1 DEF AloneClears, RestOk, DoubtStays
  <2> DEFINE q == ptq[k]
  <2>4. Undisposed(k) = q /\ q \in Seq(Live) /\ IsInjective(q)
    BY <2>2, UndisposedIs, PoolsFacts
  <2>5. ToSet(q) = Entries(q, 1, Len(q)) /\ \A x, y \in 1 .. Len(q) : q[x] = q[y] => x = y
    <3>1. \A b : b \in ToSet(q) <=> \E x \in 1 .. Len(q) : q[x] = b
      BY <2>4, SetOfList
    <3>2. QED  BY <2>4, <3>1, DistinctEntries DEF Entries
  <2>6. QED  BY <2>1, <2>2, <2>3, <2>4, <2>5, ClearFromBuffers
<1>3. CASE FinishDispose(p)
  <2>1. PICK k \in Ports : k = cont[p].on
    BY <1>1, <1>3 DEF Placed, FinishDispose, At
  <2>2. /\ Clears(cont[p], k) /\ p \in Disposing(k)
    BY <1>3, <2>1 DEF FinishDispose, At, Clears, ClearOp, Disposing
  <2>3. PICK i \in Nat \ {0} : i = cont[p].n
    BY <1>1, <1>3 DEF Placed, FinishDispose, At, Conts
  <2>4. PICK to \in {"free", "alloc"} : to = cont[p].to
    BY <1>1 DEF Conts
  <2>5. ClearFrom(p, k, i, to) /\ ClearUnchanged /\ UNCHANGED <<ptseq, lostVars>>
    BY <1>3, <2>1, <2>3, <2>4 DEF FinishDispose
  <2>6. AloneClears(p, k)
    BY <2>2, <2>5, ClearFound
  <2>7. DoubtStays(k)
    BY <2>2 DEF DoubtStays
  <2> DEFINE q == ptq[k]
  <2>8. Undisposed(k) = Rest(q, i) /\ q \in Seq(Live) /\ IsInjective(Undisposed(k))
    BY <2>2, <2>3, UndisposedIs, PoolsFacts
  <2>9. ToSet(Rest(q, i)) = Entries(q, i, Len(q)) /\ \A x, y \in i .. Len(q) : q[x] = q[y] => x = y
    <3>1. /\ ToSet(Rest(q, i)) = Entries(q, i, Len(q))
          /\ IsInjective(Rest(q, i)) <=> \A x, y \in i .. Len(q) : q[x] = q[y] => x = y
      BY <2>8, RestOfList
    <3>2. QED  BY <2>8, <3>1
  <2>10. QED  BY <2>5, <2>6, <2>7, <2>8, <2>9, ClearFromBuffers
<1>4. CASE FinishClear(p)
  <2>1. PICK k \in Ports : k = cont[p].on
    BY <1>1, <1>4 DEF Placed, FinishClear, At
  <2>2. cont[p].op # "dispose" /\ RestOk(cont[p], k) /\ Clears(cont[p], k)
    BY <1>4, <2>1 DEF PortInv, PortRight, FinishClear, At, Clears, ClearOp
  <2>3. ptq[k] = <<>> /\ UNCHANGED <<ptq, bpnext, nbpools, held>>
    BY <1>4, <2>2 DEF RestOk, FinishClear, ClearUnchanged
  <2>4. PICK to \in {"free", "alloc"} : to = cont[p].to
    BY <1>1 DEF Conts
  <2>5. PICK d : SetPort(p, k, to, d) /\ d.op \in {"user", "clearEnd"}
    <3>1. SetPort(p, k, to, IF At(p, "clearR") THEN RClear(Clearing(k), to) ELSE Reopened(Clearing(k), to))
      BY <1>4, <2>1, <2>4 DEF FinishClear
    <3>2. CASE At(p, "clearR")
      BY <3>1, <3>2, ClearOps
    <3>3. CASE ~At(p, "clearR")
      BY <3>1, <3>3, ClearOps
    <3>4. QED  BY <3>2, <3>3
  <2>6. StopAt(p, d.op, k, 0, to) /\ ptstate' = [ptstate EXCEPT ![k] = d.state]
    BY <2>5 DEF SetPort
  <2>7. PICK c \in Conts : Then(p, c) /\ c.op = d.op
    BY <2>5, <2>6, StopAtCont
  <2>8. c.op # "dispose"
    BY <2>5, <2>7
  <2>9. \A h \in Ports \ {k} : Stays(h)
    BY <1>1, <2>3, <2>6 DEF Stays, PortTyped
  <2>10. Undisposed(k)' = Undisposed(k) /\ DoubtStays(k)
    BY <2>3, UndisposedIs, UndisposedNext DEF DoubtStays
  <2>11. \A h \in Ports : Undisposed(h)' = Undisposed(h) /\ DoubtStays(h)
    BY <2>2, <2>7, <2>8, <2>9, <2>10, PortStays
  <2>12. Live' = Live
    BY <2>3 DEF Live
  <2>13. QED  BY <2>3, <2>11, <2>12, BuffersQuiet
<1>5. QED  BY <1>2, <1>3, <1>4

LEMMA NewPortBuffers ==
  ASSUME PortInv, PortInv', NodesInv, BuffersInv, NEW p \in Procs, NEW count, NEW next \in Int,
         NewPort(p, count, ptstate, next), cont[p].op # "dispose", UNCHANGED poolVars
  PROVE  BuffersInv'
<1> DEFINE search == PortSearch(next)
           free == {i \in 1 .. NPorts : ptstate[search[i]] = "free"}
<1>1. PortTyped /\ ptq \in [Ports -> Seq(Live)]
  BY PoolsFacts DEF PortInv
<1>2. Then(p, Idle) /\ Idle.op # "dispose"
  BY ContTypes DEF NewPort
<1>3. \A k \in Ports : ptq'[k] = ptq[k] /\ (ptstate'[k] = ptstate[k] \/ (ptstate[k] # "limbo" /\ ptstate'[k] # "limbo"))
  <2>1. CASE free = {}
    BY <2>1 DEF NewPort
  <2>2. CASE free # {}
    <3>1. Min(free) \in free
      BY <2>2, MinNat
    <3>2. PICK k \in Ports : k = search[Min(free)] /\ ptstate[k] = "free"
      BY <3>1, SearchPorts
    <3>3. ptq' = [ptq EXCEPT ![k] = <<>>] /\ ptstate' = [ptstate EXCEPT ![k] = "alloc"]
      BY <2>2, <3>2 DEF NewPort
    <3>4. ptq[k] = <<>>
      BY <3>2 DEF NodesInv, Fits
    <3>5. QED  BY <1>1, <3>2, <3>3, <3>4 DEF PortTyped
  <2>3. QED  BY <2>1, <2>2
<1>4. QED  BY <1>2, <1>3, StepQuiet DEF poolVars

LEMMA MarkBuffers ==
  ASSUME PortInv, PortInv', NodesInv, BuffersInv, MarkedAtOnce, MarkedAtOnce', NEW p \in Procs,
         \/ \E count \in Counts : Pcreate(p, count)
         \/ FinishMark(p) \/ FinishPinit(p) \/ MarkOther(p) \/ FinishOther(p)
  PROVE  BuffersInv'
<1>1. /\ PortTyped /\ PinitFirst /\ UNCHANGED poolVars /\ cont[p].op # "dispose"
  <2>1. UNCHANGED poolVars
    BY DEF Pcreate, FinishMark, FinishPinit, MarkOther, FinishOther
  <2>2. cont[p].op # "dispose"
    BY ContTypes DEF Pcreate, FinishMark, FinishPinit, MarkOther, FinishOther, Call, At
  <2>3. QED  BY <2>1, <2>2 DEF PortInv
<1>2. ASSUME PortsAlone, NEW c, Then(p, c), c.op # "dispose" PROVE BuffersInv'
  BY <1>1, <1>2, StepQuiet DEF PortsAlone, tableVars, poolVars
<1>3. ASSUME NEW count, PinitAndNewPort(p, count) PROVE BuffersInv'
  <2>1. pinits = 0
    BY <1>1, <1>3 DEF PinitAndNewPort, MarkedAtOnce, PortTyped
  <2>2. ptstate = [id \in Ports |-> "free"]
    BY <1>1, <2>1 DEF PinitFirst, PortTyped
  <2>3. NewPort(p, count, ptstate, NPorts - 1) /\ NPorts - 1 \in Int
    BY <1>3, <2>2, PortsAssumption DEF PinitAndNewPort
  <2>4. QED  BY <1>1, <2>3, NewPortBuffers
<1>4. Idle.op # "dispose"
  BY ContTypes
<1>5. ASSUME NEW count \in Counts, Pcreate(p, count) PROVE BuffersInv'
  <2>1. CASE marked
    <3>1. NewPort(p, count, ptstate, ptnextp) /\ ptnextp \in Int
      BY <1>1, <1>5, <2>1 DEF Pcreate, PortTyped
    <3>2. QED  BY <1>1, <3>1, NewPortBuffers
  <2>2. CASE ~marked /\ ~Blocks(mkmutex)
    BY <1>3, <1>5, <2>2 DEF Pcreate
  <2>3. CASE ~marked /\ Blocks(mkmutex)
    <3>1. Then(p, Do("mark", 0, <<>>, count)) /\ PortsAlone /\ Do("mark", 0, <<>>, count).op # "dispose"
      BY <1>5, <2>3 DEF Pcreate, Do
    <3>2. QED  BY <1>2, <3>1
  <2>4. QED  BY <2>1, <2>2, <2>3
<1>6. CASE FinishMark(p)
  <2>1. CASE Frees(mkmutex)
    <3>1. /\ Then(p, Do("pinit", 0, <<>>, cont[p].n)) /\ PortsAlone
          /\ Do("pinit", 0, <<>>, cont[p].n).op # "dispose"
      BY <1>6, <2>1 DEF FinishMark, Do
    <3>2. QED  BY <1>2, <3>1
  <2>2. CASE ~Frees(mkmutex)
    BY <1>3, <1>6, <2>2 DEF FinishMark
  <2>3. QED  BY <2>1, <2>2
<1>7. CASE FinishPinit(p)
  BY <1>3, <1>7 DEF FinishPinit
<1>8. CASE MarkOther(p)
  <2>1. Then(p, Do("other", 0, <<>>, 0)) /\ PortsAlone /\ Do("other", 0, <<>>, 0).op # "dispose"
    BY <1>8 DEF MarkOther, Do
  <2>2. QED  BY <1>2, <2>1
<1>9. CASE FinishOther(p)
  BY <1>2, <1>4, <1>9 DEF FinishOther
<1>10. QED  BY <1>5, <1>6, <1>7, <1>8, <1>9

\* kill: what a clearing had still to dispose of is in doubt from then on.
LEMMA KillBuffers ==
  ASSUME PortInv, PortInv', BuffersInv, NEW p \in Procs, Kill(p)
  PROVE  BuffersInv'
<1> DEFINE c == Do("dead", 0, <<>>, 0)
<1>1. Then(p, c) /\ UNCHANGED <<ptstate, ptq, nbpools, bpnext, held>> /\ c.op # "dispose"
  BY DEF Kill, tableVars, Do
<1> HIDE DEF c
<1>2. CASE cont[p].op # "dispose"
  BY <1>1, <1>2, StepQuiet
<1>3. CASE cont[p].op = "dispose"
  <2>1. PICK k \in Ports : k = cont[p].on
    BY <1>3 DEF PortInv, PoolInv, Placed
  <2>2. Clears(cont[p], k) /\ p \in Disposing(k) /\ cont \in [Procs -> Conts]
    BY <1>3, <2>1, PoolsFacts DEF Clears, ClearOp, Disposing, At
  <2>3. ptstate[k] = "limbo" /\ OneClears(k)
    BY <2>2 DEF PortInv, PortRight, RestOk
  <2>4. Disposing(k)' = {}
    <3>1. cont'[p] = c /\ \A r \in Procs \ {p} : cont'[r] = cont[r]
      BY <1>1, <2>2 DEF Then
    <3>2. ASSUME NEW r \in Procs, cont'[r].op = "dispose", cont'[r].on = k PROVE FALSE
      <4>1. r # p /\ cont'[r] = cont[r]
        BY <1>1, <3>1, <3>2
      <4>2. Clears(cont[r], k)
        BY <3>2, <4>1 DEF Clears, ClearOp
      <4>3. QED  BY <2>2, <2>3, <4>1, <4>2 DEF OneClears
    <3>3. QED  BY <3>2 DEF Disposing, At
  <2>5. Undisposed(k)' = <<>>
    BY <1>1, <2>3, <2>4, UndisposedNext
  <2>6. IsInjective(Undisposed(k)') /\ ToSet(Undisposed(k)') = {}
    BY <2>5, EmptyList
  <2>7. DoubtStays(k)
    BY <2>2 DEF DoubtStays
  <2>8. ASSUME NEW h \in Ports \ {k} PROVE Undisposed(h)' = Undisposed(h) /\ DoubtStays(h)
    BY <1>1, <2>1, PortStays DEF Stays
  <2>9. Once'
    BY <1>1, <2>6, <2>8, OnceMoves
  <2>10. Kept'[Port(k)] = {}
    BY <2>6, KeptIsNext
  <2>11. ASSUME NEW f \in Homes, f # Port(k) PROVE Kept'[f] = Kept[f]
    BY <1>1, <2>8, <2>11, KeptSame
  <2>12. Apart(Kept')
    <3>1. ASSUME NEW f \in Homes, NEW h \in Homes, NEW b, b \in Kept'[f], b \in Kept'[h] PROVE f = h
      BY <2>10, <2>11, <3>1 DEF BuffersInv, Apart
    <3>2. QED  BY <3>1 DEF Apart
  <2>13. ASSUME NEW b \in Live PROVE (\E h \in Homes : b \in Kept'[h]) \/ InDoubt(b)'
    <3>1. CASE InDoubt(b)
      BY <2>7, <2>8, <3>1, InDoubtStays
    <3>2. ASSUME NEW h \in Homes, b \in Kept[h] PROVE (\E f \in Homes : b \in Kept'[f]) \/ InDoubt(b)'
      <4>1. CASE h # Port(k)
        BY <2>11, <3>2, <4>1
      <4>2. CASE h = Port(k)
        <5>1. b \in ToSet(ptq[k]) /\ ptq[k] \in Seq(Live)
          BY <3>2, <4>2, KeptIs, UndisposedIs, PoolsFacts
        <5>2. Contains(ptq[k], b)
          BY <5>1, ContainsSet
        <5>3. Contains(ptq'[k], b) /\ ptstate'[k] = "limbo"
          BY <1>1, <2>3, <5>2
        <5>4. QED  BY <2>4, <5>3 DEF InDoubt
      <4>3. QED  BY <4>1, <4>2
    <3>3. QED  BY <3>1, <3>2 DEF BuffersInv, Somewhere
  <2>14. Live' = Live
    BY <1>1 DEF Live
  <2>15. Somewhere'
    BY <2>13, <2>14 DEF Somewhere
  <2>16. QED  BY <2>9, <2>12, <2>15 DEF BuffersInv, Apart
<1>4. QED  BY <1>2, <1>3

LEMMA InitBuffers == Init => BuffersInv
<1>1. SUFFICES ASSUME Init PROVE BuffersInv
  OBVIOUS
<1>2. /\ PortInv /\ nbpools = 1 /\ bpnext = [k \in Pools |-> IF k = 0 THEN BufsOf(0) ELSE <<>>]
      /\ held = [p \in Procs |-> {}] /\ ptstate = [k \in Ports |-> "free"] /\ ptq = [k \in Ports |-> <<>>]
  BY <1>1, InitPort DEF Init, PoolInit
<1>3. 0 \in Pools
  BY PoolAssumption DEF Pools
<1>4. \A k \in Ports : Undisposed(k) = <<>>
  BY <1>2, UndisposedIs
<1>5. bpnext[0] = BufsOf(0) /\ \A k \in Pools \ {0} : bpnext[k] = <<>>
  BY <1>2, <1>3
<1>6. Once
  <2>1. \A k \in Pools : PoolOnce(bpnext[k], k)
    BY <1>3, <1>5, NewBufs, EmptyList DEF PoolOnce
  <2>2. QED  BY <1>4, <2>1, EmptyList DEF Once, PoolOnce
<1>7. Kept[Pool(0)] = {b \in Bufs : b[1] = 0} /\ Pool(0) \in Homes
  BY <1>3, <1>5, KeptIs, NewBufs, HomesAre
<1>8. ASSUME NEW h \in Homes, h # Pool(0) PROVE Kept[h] = {}
  <2>1. CASE \E k \in Pools : h = Pool(k)
    BY <1>5, <1>8, <2>1, KeptIs, EmptyList
  <2>2. CASE \E k \in Ports : h = Port(k)
    BY <1>4, <2>2, KeptIs, EmptyList
  <2>3. CASE \E p \in Procs : h = Process(p)
    BY <1>2, <2>3, KeptIs
  <2>4. QED  BY <2>1, <2>2, <2>3, HomesAre
<1>9. Apart(Kept)
  BY <1>8 DEF Apart
<1>10. Somewhere
  <2>1. \A b \in Live : b \in Bufs /\ b[1] = 0
    BY <1>2 DEF Live, Bufs, Pools
  <2>2. QED  BY <1>7, <2>1 DEF Somewhere
<1>11. QED  BY <1>6, <1>9, <1>10 DEF BuffersInv

LEMMA NextBuffersInv ==
  PortInv /\ PortInv' /\ NodesInv /\ BuffersInv /\ MarkedAtOnce /\ MarkedAtOnce' /\ [Next]_vars => BuffersInv'
<1>1. SUFFICES ASSUME PortInv, PortInv', NodesInv, BuffersInv, MarkedAtOnce, MarkedAtOnce', [Next]_vars
               PROVE  BuffersInv'
  OBVIOUS
<1>2. CASE UNCHANGED vars
  <2>1. UNCHANGED <<cont, ptstate, ptq, nbpools, bpnext, held>>
    BY <1>2 DEF vars, clientVars, poolVars, tableVars, queueVars
  <2>2. \A k \in Ports : Disposing(k)' = Disposing(k)
    BY <2>1 DEF Disposing, At
  <2>3. \A k \in Ports : Undisposed(k)' = Undisposed(k) /\ DoubtStays(k)
    <3>1. TAKE k \in Ports
    <3>2. DoubtStays(k)
      BY <2>1, <2>2 DEF DoubtStays, Stays
    <3>3. CASE ptstate[k] # "limbo" \/ Disposing(k) = {}
      <4>1. /\ ptstate[k] # "limbo" => Undisposed(k) = ptq[k]
            /\ ptstate[k] = "limbo" /\ Disposing(k) = {} => Undisposed(k) = <<>>
        BY <1>1, UndisposedIs
      <4>2. /\ ptstate'[k] # "limbo" => Undisposed(k)' = ptq'[k]
            /\ ptstate'[k] = "limbo" /\ Disposing(k)' = {} => Undisposed(k)' = <<>>
        BY <1>1, UndisposedNext
      <4>3. Disposing(k)' = Disposing(k) /\ ptstate'[k] = ptstate[k] /\ ptq'[k] = ptq[k]
        BY <2>1, <2>2
      <4>4. Undisposed(k)' = Undisposed(k)
        BY <3>3, <4>1, <4>2, <4>3
      <4>5. QED  BY <3>2, <4>4
    <3>4. CASE Disposing(k) # {}
      <4>1. PICK q \in Disposing(k) : TRUE
        BY <3>4
      <4>2. q \in Disposing(k)'
        BY <2>2, <4>1
      <4>3. Undisposed(k) = Rest(ptq[k], cont[q].n) /\ Undisposed(k)' = Rest(ptq'[k], cont'[q].n)
        BY <1>1, <4>1, <4>2, UndisposedIs, UndisposedNext
      <4>4. QED  BY <2>1, <3>2, <4>3
    <3>5. QED  BY <3>2, <3>3, <3>4
  <2>4. Live' = Live
    BY <2>1 DEF Live
  <2>5. QED  BY <1>1, <2>1, <2>3, <2>4, BuffersQuiet
<1>3. ASSUME NEW p \in Procs, PoolStep(p), PoolAlone PROVE BuffersInv'
  <2>1. \A k \in Ports : Stays(k)
    BY <1>3 DEF PoolAlone, tableVars, queueVars, Stays
  <2>2. ASSUME NEW k \in Pools, Getbuf(p, k) PROVE BuffersInv'
    <3>1. /\ Then(p, Do("getbuf", k, <<>>, 0)) /\ UNCHANGED <<nbpools, bpnext, held>> /\ cont[p].op # "dispose"
          /\ Do("getbuf", k, <<>>, 0).op # "dispose"
      BY <2>2, ContTypes DEF Getbuf, Call, Do
    <3>2. QED  BY <1>1, <2>1, <3>1, StepQuiet DEF Stays
  <2>3. ASSUME FinishFreebuf(p) PROVE BuffersInv'
    <3>1. Then(p, Idle) /\ UNCHANGED <<nbpools, bpnext, held>> /\ cont[p].op # "dispose" /\ Idle.op # "dispose"
      BY <2>3, ContTypes DEF FinishFreebuf, At
    <3>2. QED  BY <1>1, <2>1, <3>1, StepQuiet DEF Stays
  <2>4. Mkpool(p) \/ FinishGetbuf(p) \/ (\E b \in Bufs : Freebuf(p, b)) => BuffersInv'
    BY <1>1, <2>1, MkpoolBuffers, FinishGetbufBuffers, FreebufBuffers
  <2>5. QED  BY <1>3, <2>2, <2>3, <2>4 DEF PoolStep
<1>4. ASSUME NEW p \in Procs, PortStep(p) PROVE BuffersInv'
  <2>1. (\E count \in Counts : Pcreate(p, count)) \/ FinishMark(p) \/ FinishPinit(p) \/ MarkOther(p) \/ FinishOther(p)
        => BuffersInv'
    BY <1>1, MarkBuffers
  <2>2. \/ \E k \in Ports : (\E b \in Bufs : Psend(p, k, b)) \/ Preceive(p, k)
        \/ FinishPsend(p) \/ FinishPreceive(p)
        => BuffersInv'
    BY <1>1, SendBuffers
  <2>3. (\E k \in Ports : Preset(p, k) \/ Pdelete(p, k)) \/ FinishDispose(p) \/ FinishClear(p) => BuffersInv'
    BY <1>1, ClearBuffers
  <2>4. Kill(p) => BuffersInv'
    BY <1>1, KillBuffers
  <2>5. QED  BY <1>4, <2>1, <2>2, <2>3, <2>4 DEF PortStep
<1>5. QED  BY <1>1, <1>2, <1>3, <1>4 DEF Next

\* A buffer is on its pool's list, in one port's queue or with one process, and there once
\* (getbuf.c, freebuf.c, psend.c, preceive.c, ptclear.c); only what a clearing whose
\* process was killed had still to dispose of may be nowhere.
THEOREM BuffersCorrect == Spec /\ []MarkedAtOnce => []BuffersInOnePlace
<1>1. BuffersInv /\ PortInv => BuffersInOnePlace
  BY BuffersInOnePlaceInv
<1>2. QED  BY <1>1, PortInvKept, InitNodes, NextNodesInv, InitBuffers, NextBuffersInv, PTL DEF Spec

===============================================================================
