------------------------------- MODULE NetProofs -------------------------------
(*************************************************************************)
(* The network, for every number of buffers, frames, hosts, devices,     *)
(* queues, ports, files and processes: frames are read in the order they *)
(* come, nobody sleeps over a packet, packets go to the right host, open *)
(* devices are apart, who waits for an answer can get it, no network     *)
(* buffer is lost, what a remote file operation reports done was done,   *)
(* and mounts leave other names alone.  Each part has its own inductive  *)
(* invariant; the typing of the places the calls are at (ContTyped) is   *)
(* common to all but the last.                                           *)
(*************************************************************************)
EXTENDS Net, ListLemmas, FiniteSetTheorems

\* The chip puts the frame that arrives as the f-th into this buffer.
Slot(f) == (f - 1) % ENUMRCV

\* The frames from lastread + 1 to x are in the queue, those from x + 1 to arrived in the
\* ring, not yet examined; every other buffer is the chip's.
Outstanding == lastread + 1 .. arrived
Counts(x) ==
  /\ arrived \in Nat /\ lastread \in Nat /\ x \in lastread .. arrived
  /\ arrived - lastread <= ENUMRCV
  /\ chipnext = arrived % ENUMRCV /\ etnextbuf = x % ENUMRCV
  /\ rint \/ x = arrived
Buffers(x) ==
  /\ \A f \in Outstanding : /\ frame[Slot(f)] = f /\ ~own[Slot(f)]
                            /\ flags[Slot(f)] <=> f <= x
  /\ \A i \in Ring : (\A f \in Outstanding : i # Slot(f)) => own[i] /\ ~flags[i]
Queued(x) ==
  /\ etrqhead = IF lastread = x THEN EMPTY ELSE Slot(lastread + 1)
  /\ lastread < x => etrqtail = Slot(x) /\ etrqnext[Slot(x)] = EMPTY
  /\ \A f \in lastread + 1 .. x - 1 : etrqnext[Slot(f)] = Slot(f + 1)

RingTyped ==
  /\ own \in [Ring -> BOOLEAN] /\ flags \in [Ring -> BOOLEAN] /\ frame \in [Ring -> Nat]
  /\ etrqnext \in [Ring -> Ring \cup {EMPTY}]

RingInv ==
  ~skewed => RingTyped /\ \E x \in Nat : Counts(x) /\ Buffers(x) /\ Queued(x)

------------------------------------------------------------------------------
(* Going round the ring. *)

LEMMA Division ==
  ASSUME NEW a \in Nat, NEW n \in Nat \ {0}
  PROVE  a % n \in 0 .. n - 1 /\ a \div n \in Int /\ a = n * (a \div n) + (a % n)
OBVIOUS

LEMMA Remainder ==
  ASSUME NEW q \in Int, NEW r \in Int, NEW n \in Nat \ {0}, 0 <= r, r < n
  PROVE  (n * q + r) % n = r
OBVIOUS

LEMMA StepsAdd ==
  ASSUME NEW a \in Nat, NEW b \in Nat, NEW n \in Nat \ {0}
  PROVE  ((a % n) + b) % n = (a + b) % n
<1> DEFINE r == (a % n) + b
<1>1. a % n \in 0 .. n - 1 /\ a \div n \in Int /\ a = n * (a \div n) + (a % n)
  BY Division
<1>2. r \in Nat
  BY <1>1
<1>3. r % n \in 0 .. n - 1 /\ r \div n \in Int /\ r = n * (r \div n) + (r % n)
  BY <1>2, Division
<1> DEFINE p == a \div n
           q == r \div n
           t == r % n
<1>4. /\ p \in Int /\ q \in Int /\ t \in 0 .. n - 1
      /\ a + b = n * p + r /\ r = n * q + t
  BY <1>1, <1>3
<1> HIDE DEF p, q, t, r
<1>5. a + b = n * (p + q) + t
  BY ONLY <1>4, n \in Nat \ {0}, <1>2
<1>6. (n * (p + q) + t) % n = t
  <2>1. p + q \in Int /\ t \in Int /\ 0 <= t /\ t < n
    BY <1>4
  <2>2. QED  BY <2>1, Remainder
<1>7. QED  BY <1>5, <1>6 DEF t, r

LEMMA RoundApart ==
  ASSUME NEW a \in Nat, NEW b \in Nat, NEW n \in Nat \ {0}, a < b, a % n = b % n
  PROVE  b - a >= n
<1>1. /\ a \div n \in Int /\ a = n * (a \div n) + (a % n)
      /\ b \div n \in Int /\ b = n * (b \div n) + (b % n)
  BY Division
<1> DEFINE p == a \div n
           q == b \div n
<1> HIDE DEF p, q
<1>2. b - a = n * (q - p)
  BY <1>1 DEF p, q
<1>3. q - p >= 1
  BY <1>1, <1>2 DEF p, q
<1>4. QED  BY <1>1, <1>2, <1>3 DEF p, q

LEMMA SlotInRing ==
  ASSUME NEW f \in Nat \ {0}
  PROVE  Slot(f) \in Ring
BY Division, f - 1 \in Nat, EtherAssumption DEF Slot, Ring

\* Frames less than a round apart are in different buffers; a round on it is the same one.
LEMMA SlotsApart ==
  ASSUME NEW f \in Nat \ {0}, NEW g \in Nat \ {0}, f # g, f - g < ENUMRCV, g - f < ENUMRCV
  PROVE  Slot(f) # Slot(g)
<1>1. SUFFICES ASSUME Slot(f) = Slot(g) PROVE FALSE
  OBVIOUS
<1>2. f - 1 \in Nat /\ g - 1 \in Nat /\ ENUMRCV \in Nat \ {0}
  BY EtherAssumption
<1>3. CASE f < g
  <2>1. (f - 1) % ENUMRCV = (g - 1) % ENUMRCV /\ f - 1 < g - 1
    BY <1>1, <1>3 DEF Slot
  <2>2. g - 1 - (f - 1) >= ENUMRCV
    BY ONLY <2>1, <1>2, RoundApart
  <2>3. QED  BY <2>2, <1>2
<1>4. CASE g < f
  <2>1. (g - 1) % ENUMRCV = (f - 1) % ENUMRCV /\ g - 1 < f - 1
    BY <1>1, <1>4 DEF Slot
  <2>2. f - 1 - (g - 1) >= ENUMRCV
    BY ONLY <2>1, <1>2, RoundApart
  <2>3. QED  BY <2>2, <1>2
<1>5. QED  BY <1>3, <1>4

LEMMA SlotAgain ==
  ASSUME NEW f \in Nat \ {0}
  PROVE  Slot(f + ENUMRCV) = Slot(f)
<1>1. f - 1 \in Nat /\ ENUMRCV \in Nat \ {0}
  BY EtherAssumption
<1> DEFINE q == (f - 1) \div ENUMRCV
           r == (f - 1) % ENUMRCV
<1>2. q \in Int /\ r \in 0 .. ENUMRCV - 1 /\ f - 1 = ENUMRCV * q + r
  BY <1>1, Division
<1> HIDE DEF q, r
<1>3. (f + ENUMRCV) - 1 = ENUMRCV * (q + 1) + r
  BY <1>1, <1>2
<1>4. (ENUMRCV * (q + 1) + r) % ENUMRCV = r
  <2>1. q + 1 \in Int /\ r \in Int /\ 0 <= r /\ r < ENUMRCV
    BY <1>1, <1>2
  <2>2. QED  BY <1>1, <2>1, Remainder
<1>5. ((f + ENUMRCV) - 1) % ENUMRCV = r
  BY ONLY <1>3, <1>4, Zenon
<1>6. Slot(f + ENUMRCV) = r /\ Slot(f) = r
  BY ONLY <1>5, Zenon DEF Slot, r
<1>7. QED  BY ONLY <1>6

------------------------------------------------------------------------------
(* What the interrupt examines. *)

LEMMA MaxInterval ==
  ASSUME NEW m \in Nat
  PROVE  Max(0 .. m) = m
<1>1. Max(0 .. m) \in 0 .. m /\ \A y \in 0 .. m : Max(0 .. m) >= y
  <2>1. \E z \in 0 .. m : \A y \in 0 .. m : z >= y
    OBVIOUS
  <2>2. QED  BY <2>1 DEF Max
<1>2. Max(0 .. m) >= m
  BY <1>1
<1>3. QED  BY <1>1, <1>2

\* The buffer the interrupt looks at first, second and so on.
LEMMA NextBuffers ==
  ASSUME NEW x \in Nat, etnextbuf = x % ENUMRCV, NEW i \in Nat \ {0}
  PROVE  (etnextbuf + i - 1) % ENUMRCV = Slot(x + i)
<1>1. ((x % ENUMRCV) + (i - 1)) % ENUMRCV = (x + (i - 1)) % ENUMRCV
  <2>1. i - 1 \in Nat /\ ENUMRCV \in Nat \ {0}
    BY EtherAssumption
  <2>2. QED  BY <2>1, StepsAdd
<1>2. x % ENUMRCV \in Int
  BY Division, EtherAssumption
<1>3. /\ (x % ENUMRCV) + (i - 1) = etnextbuf + i - 1
      /\ x + (i - 1) = x + i - 1
  BY <1>2
<1>4. QED  BY <1>1, <1>3 DEF Slot

\* Beyond the frames that arrived there is a buffer of the chip, or the head of a full queue.
LEMMA BeyondArrived ==
  ASSUME NEW x \in Nat, Counts(x), Buffers(x), arrived - x < ENUMRCV
  PROVE  own[Slot(arrived + 1)] \/ flags[Slot(arrived + 1)]
<1>1. /\ ENUMRCV \in Nat \ {0} /\ arrived \in Nat /\ lastread \in Nat /\ x \in lastread .. arrived
      /\ arrived - lastread <= ENUMRCV /\ arrived - x < ENUMRCV
  BY EtherAssumption DEF Counts
<1>2. Slot(arrived + 1) \in Ring
  BY <1>1, SlotInRing, arrived + 1 \in Nat \ {0}
<1>3. CASE \A f \in Outstanding : Slot(arrived + 1) # Slot(f)
  BY <1>2, <1>3 DEF Buffers
<1>4. CASE \E f \in Outstanding : Slot(arrived + 1) = Slot(f)
  <2>1. PICK f \in Outstanding : Slot(arrived + 1) = Slot(f)
    BY <1>4
  <2>2. f \in Nat \ {0} /\ arrived + 1 \in Nat \ {0} /\ f # arrived + 1 /\ f - (arrived + 1) < ENUMRCV
    BY <1>1, <2>1 DEF Outstanding
  <2>3. ~ ((arrived + 1) - f < ENUMRCV)
    BY <2>1, <2>2, SlotsApart
  <2>4. f <= x
    BY <1>1, <2>1, <2>3 DEF Outstanding
  <2>5. QED  BY <2>1, <2>4 DEF Buffers
<1>5. QED  BY <1>3, <1>4

\* It examines the frames from x + 1 to the last that arrived.
LEMMA ExaminedFrames ==
  ASSUME NEW x \in Nat, Counts(x), Buffers(x)
  PROVE  /\ Examined \in Seq(Ring) /\ Len(Examined) = arrived - x
         /\ \A i \in 1 .. arrived - x : Examined[i] = Slot(x + i)
<1> DEFINE nth(i) == (etnextbuf + i - 1) % ENUMRCV
           K == {k \in 0 .. ENUMRCV : \A i \in 1 .. k : ~own[nth(i)] /\ ~flags[nth(i)]}
           m == arrived - x
<1>1. /\ ENUMRCV \in Nat \ {0} /\ arrived \in Nat /\ lastread \in Nat /\ x \in lastread .. arrived
      /\ arrived - lastread <= ENUMRCV /\ m \in Nat /\ m <= ENUMRCV
  BY EtherAssumption DEF Counts
<1>2. \A i \in Nat \ {0} : nth(i) = Slot(x + i)
  BY NextBuffers DEF Counts
<1>3. Examined = [i \in 1 .. Max(K) |-> nth(i)]
  BY DEF Examined
<1> HIDE DEF nth
<1>4. \A i \in 1 .. m : ~own[nth(i)] /\ ~flags[nth(i)]
  <2>1. TAKE i \in 1 .. m
  <2>2. x + i \in Outstanding /\ ~ (x + i <= x) /\ i \in Nat \ {0}
    BY <1>1 DEF Outstanding
  <2>3. QED  BY <1>2, <2>2 DEF Buffers
<1>5. ASSUME NEW k \in 0 .. ENUMRCV, k > m PROVE k \notin K
  <2>1. m + 1 \in 1 .. k /\ m + 1 \in Nat \ {0} /\ x + (m + 1) = arrived + 1 /\ m < ENUMRCV
    BY <1>1, <1>5
  <2>2. nth(m + 1) = Slot(arrived + 1)
    BY <1>2, <2>1
  <2>3. own[nth(m + 1)] \/ flags[nth(m + 1)]
    BY <2>1, <2>2, BeyondArrived
  <2>4. QED  BY <2>1, <2>3
<1>6. K = 0 .. m
  <2>1. \A k \in 0 .. m : k \in K
    BY <1>1, <1>4
  <2>2. \A k \in K : k \in 0 .. m
    BY <1>1, <1>5
  <2>3. QED  BY <2>1, <2>2
<1>7. Examined = [i \in 1 .. m |-> nth(i)]
  BY <1>1, <1>3, <1>6, MaxInterval
<1> HIDE DEF K
<1>8. \A i \in 1 .. m : nth(i) = Slot(x + i) /\ nth(i) \in Ring
  <2>1. TAKE i \in 1 .. m
  <2>2. i \in Nat \ {0} /\ x + i \in Nat \ {0}
    BY <1>1
  <2>3. QED  BY <1>2, <2>2, SlotInRing
<1>9. QED  BY <1>1, <1>7, <1>8

------------------------------------------------------------------------------
(* The ring through every step. *)

LEMMA RingInit ==
  ASSUME EtherInit
  PROVE  RingInv
<1>1. ENUMRCV \in Nat \ {0}
  BY EtherAssumption
<1>2. RingTyped
  BY DEF EtherInit, RingTyped
<1>3. 0 % ENUMRCV = 0
  BY <1>1, Remainder, 0 \in Int, ENUMRCV * 0 + 0 = 0
<1>4. Counts(0)
  BY <1>1, <1>3 DEF EtherInit, Counts
<1>5. Outstanding = {}
  BY DEF EtherInit, Outstanding
<1>6. Buffers(0)
  BY <1>5 DEF EtherInit, Buffers
<1>7. Queued(0)
  BY DEF EtherInit, Queued
<1>8. QED  BY <1>2, <1>4, <1>6, <1>7 DEF RingInv

\* The chip fills the buffer it owns, which is that of no frame still to be read.
LEMMA FrameArrivesRing ==
  ASSUME RingInv, FrameArrives
  PROVE  RingInv'
<1>1. SUFFICES ASSUME ~skewed, NEW x \in Nat, RingTyped, Counts(x), Buffers(x), Queued(x)
               PROVE  RingTyped' /\ Counts(x)' /\ Buffers(x)' /\ Queued(x)'
  BY DEF RingInv, FrameArrives
<1> DEFINE a == arrived + 1
<1>2. /\ ENUMRCV \in Nat \ {0} /\ arrived \in Nat /\ lastread \in Nat /\ x \in lastread .. arrived
      /\ arrived - lastread <= ENUMRCV /\ a \in Nat \ {0}
  BY <1>1, EtherAssumption DEF Counts
<1>3. chipnext = Slot(a) /\ Slot(a) \in Ring
  <2>1. a - 1 = arrived
    BY <1>2
  <2>2. QED  BY <1>1, <1>2, <2>1, SlotInRing DEF Counts, Slot
<1>4. arrived - lastread < ENUMRCV
  <2>1. SUFFICES ASSUME arrived - lastread = ENUMRCV PROVE FALSE
    BY <1>2
  <2>2. a = (lastread + 1) + ENUMRCV /\ lastread + 1 \in Nat \ {0} /\ lastread + 1 \in Outstanding
    BY <1>2, <2>1 DEF Outstanding
  <2>3. Slot(a) = Slot(lastread + 1)
    BY <2>2, SlotAgain
  <2>4. QED  BY <1>1, <1>3, <2>2, <2>3 DEF Buffers, FrameArrives
<1>5. \A f \in Outstanding : Slot(f) # Slot(a) /\ Slot(f) \in Ring
  <2>1. TAKE f \in Outstanding
  <2>2. f \in Nat \ {0} /\ f # a /\ f - a < ENUMRCV /\ a - f < ENUMRCV
    BY <1>2, <1>4 DEF Outstanding
  <2>3. QED  BY <1>2, <2>2, SlotsApart, SlotInRing
<1>6. own[Slot(a)] /\ ~flags[Slot(a)]
  BY <1>1, <1>3, <1>5 DEF Buffers
<1>7. Outstanding' = Outstanding \cup {a}
  BY <1>2 DEF Outstanding, FrameArrives
<1>8. RingTyped'
  BY <1>1, <1>2, <1>3 DEF RingTyped, FrameArrives
<1>9. Counts(x)'
  <2>1. ((arrived % ENUMRCV) + 1) % ENUMRCV = a % ENUMRCV
    BY <1>2, StepsAdd
  <2>2. QED  BY <1>1, <1>2, <1>4, <2>1 DEF Counts, FrameArrives
<1>10. Buffers(x)'
  <2>1. /\ own' = [own EXCEPT ![Slot(a)] = FALSE] /\ frame' = [frame EXCEPT ![Slot(a)] = a]
        /\ flags' = flags
    BY <1>3 DEF FrameArrives
  <2>2. ~(a <= x)
    BY <1>2
  <2> HIDE DEF a
  <2>3. \A f \in Outstanding' : /\ frame'[Slot(f)] = f /\ ~own'[Slot(f)]
                                /\ flags'[Slot(f)] <=> f <= x
    BY <1>1, <1>3, <1>5, <1>6, <1>7, <2>1, <2>2 DEF Buffers, RingTyped
  <2>4. \A i \in Ring : (\A f \in Outstanding' : i # Slot(f)) => own'[i] /\ ~flags'[i]
    BY <1>1, <1>3, <1>7, <2>1 DEF Buffers, RingTyped
  <2>5. QED  BY <2>3, <2>4 DEF Buffers, Slot
<1>11. Queued(x)'
  BY <1>1 DEF Queued, Slot, FrameArrives
<1>12. QED  BY <1>8, <1>9, <1>10, <1>11

\* The reader takes the frame at the head, the next one in order, and gives its buffer back.
LEMMA EthreadOnRing ==
  ASSUME RingInv, NEW p \in Procs, EthreadOn(p)
  PROVE  RingInv'
<1>1. SUFFICES ASSUME ~skewed, NEW x \in Nat, RingTyped, Counts(x), Buffers(x), Queued(x)
               PROVE  RingTyped' /\ Counts(x)' /\ Buffers(x)' /\ Queued(x)'
  BY DEF RingInv, EthreadOn
<1>2. /\ ENUMRCV \in Nat \ {0} /\ arrived \in Nat /\ lastread \in Nat /\ x \in lastread .. arrived
      /\ arrived - lastread <= ENUMRCV
  BY <1>1, EtherAssumption DEF Counts
<1>3. UNCHANGED <<frame, etnextbuf, etrqtail, etrqnext, chipnext, rint, arrived>>
  BY DEF EthreadOn, chipVars
<1>4. CASE etrqhead = EMPTY
  <2>1. UNCHANGED <<own, flags, etrqhead, lastread>>
    BY <1>4 DEF EthreadOn
  <2>2. QED
    BY <1>1, <1>3, <2>1 DEF RingTyped, Counts, Buffers, Queued, Outstanding, Slot
<1>5. CASE etrqhead # EMPTY
  <2> DEFINE h == lastread + 1
  <2>1. lastread < x /\ etrqhead = Slot(h)
    BY <1>1, <1>2, <1>5 DEF Queued
  <2>2. h \in Outstanding /\ h \in Nat \ {0} /\ h <= x /\ Slot(h) \in Ring
    BY <1>2, <2>1, SlotInRing DEF Outstanding
  <2>3. /\ lastread' = h /\ etrqhead' = etrqnext[Slot(h)]
        /\ own' = [own EXCEPT ![Slot(h)] = TRUE] /\ flags' = [flags EXCEPT ![Slot(h)] = FALSE]
    BY <1>1, <1>5, <2>1, <2>2 DEF EthreadOn, Buffers
  <2>4. Outstanding' = Outstanding \ {h}
    BY <1>2, <1>3, <2>3 DEF Outstanding
  <2>5. \A f \in Outstanding \ {h} : Slot(f) # Slot(h) /\ Slot(f) \in Ring
    <3>1. TAKE f \in Outstanding \ {h}
    <3>2. f \in Nat \ {0} /\ f # h /\ f - h < ENUMRCV /\ h - f < ENUMRCV
      BY <1>2 DEF Outstanding
    <3>3. QED  BY <2>2, <3>2, SlotsApart, SlotInRing
  <2>6. RingTyped'
    BY <1>1, <1>3, <2>2, <2>3 DEF RingTyped
  <2>7. Counts(x)'
    BY <1>1, <1>2, <1>3, <2>1, <2>3 DEF Counts
  <2>8. Buffers(x)'
    <3> HIDE DEF h
    <3>1. \A f \in Outstanding' : /\ frame'[Slot(f)] = f /\ ~own'[Slot(f)]
                                  /\ flags'[Slot(f)] <=> f <= x
      BY <1>1, <1>3, <2>2, <2>3, <2>4, <2>5 DEF Buffers, RingTyped
    <3>2. \A i \in Ring : (\A f \in Outstanding' : i # Slot(f)) => own'[i] /\ ~flags'[i]
      BY <1>1, <2>2, <2>3, <2>4 DEF Buffers, RingTyped
    <3>3. QED  BY <3>1, <3>2 DEF Buffers, Slot
  <2>9. Queued(x)'
    <3>1. etrqhead' = IF h = x THEN EMPTY ELSE Slot(h + 1)
      <4>1. CASE h = x
        BY <1>1, <2>1, <2>3, <4>1 DEF Queued
      <4>2. CASE h # x
        <5>1. h \in lastread + 1 .. x - 1
          BY <1>2, <2>2, <4>2
        <5>2. QED  BY <1>1, <2>3, <4>2, <5>1 DEF Queued
      <4>3. QED  BY <4>1, <4>2
    <3>2. etrqtail' = Slot(x) /\ etrqnext'[Slot(x)] = EMPTY
      BY <1>1, <1>3, <2>1 DEF Queued
    <3>3. \A f \in h + 1 .. x - 1 : etrqnext'[Slot(f)] = Slot(f + 1)
      <4>1. TAKE f \in h + 1 .. x - 1
      <4>2. f \in lastread + 1 .. x - 1
        BY <1>2
      <4>3. QED  BY <1>1, <1>3, <4>2 DEF Queued
    <3>4. QED  BY <2>3, <3>1, <3>2, <3>3 DEF Queued, Slot
  <2>10. QED  BY <2>6, <2>7, <2>8, <2>9
<1>6. QED  BY <1>4, <1>5

\* Joined to the queue from x = lastread or from the tail on, the chain that the interrupt
\* links holds the frames in order.
LEMMA LinkedFrames ==
  ASSUME NEW x \in Nat, RingTyped, Counts(x), Buffers(x), Queued(x), Linked(Examined), x < arrived
  PROVE  /\ etrqhead' = Slot(lastread + 1)
         /\ etrqtail' = Slot(arrived) /\ etrqnext'[Slot(arrived)] = EMPTY
         /\ \A f \in lastread + 1 .. arrived - 1 : etrqnext'[Slot(f)] = Slot(f + 1)
         /\ etrqnext' \in [Ring -> Ring \cup {EMPTY}]
<1> DEFINE taken == Examined
           m == arrived - x
           before == IF etrqhead = EMPTY THEN <<>> ELSE <<etrqtail>>
           chain == before \o taken
           c == IF lastread = x THEN x ELSE x - 1
<1>1. /\ ENUMRCV \in Nat \ {0} /\ arrived \in Nat /\ lastread \in Nat /\ x \in lastread .. arrived
      /\ arrived - lastread <= ENUMRCV /\ m \in Nat \ {0}
      /\ c \in Nat /\ c \in lastread .. x /\ arrived - c \in Nat \ {0}
  BY EtherAssumption DEF Counts
<1>2. /\ taken \in Seq(Ring) /\ Len(taken) = m
      /\ \A i \in 1 .. m : taken[i] = Slot(x + i)
  BY ExaminedFrames
<1>3. \A f \in lastread + 1 .. arrived : f \in Nat \ {0} /\ Slot(f) \in Ring
  <2>1. TAKE f \in lastread + 1 .. arrived
  <2>2. f \in Nat \ {0}
    BY <1>1
  <2>3. QED  BY <2>2, SlotInRing
<1>4. \A f, g \in lastread + 1 .. arrived : Slot(f) = Slot(g) => f = g
  <2>1. TAKE f, g \in lastread + 1 .. arrived
  <2>2. f \in Nat \ {0} /\ g \in Nat \ {0} /\ f - g < ENUMRCV /\ g - f < ENUMRCV
    BY <1>1
  <2>3. QED  BY <2>2, SlotsApart
<1>5. etrqhead = EMPTY <=> lastread = x
  <2>1. lastread # x => Slot(lastread + 1) \in Ring
    BY <1>1, <1>3
  <2>2. EMPTY \notin Ring
    BY <1>1 DEF EMPTY, Ring
  <2>3. QED  BY <2>1, <2>2 DEF Queued
<1>6. /\ etrqhead' = IF etrqhead = EMPTY /\ taken # <<>> THEN Head(taken) ELSE etrqhead
      /\ etrqtail' = IF taken = <<>> THEN etrqtail ELSE Last(taken)
      /\ etrqnext' = [i \in Ring |->
           IF Contains(taken, i) /\ i = Last(taken) THEN EMPTY
           ELSE IF \E k \in 1 .. Len(chain) - 1 : chain[k] = i
           THEN chain[1 + CHOOSE k \in 1 .. Len(chain) - 1 : chain[k] = i]
           ELSE etrqnext[i]]
  BY DEF Linked
<1> HIDE DEF taken
<1>7. taken # <<>> /\ Head(taken) = taken[1] /\ Last(taken) = taken[m]
  BY <1>1, <1>2 DEF Last
<1>8. /\ chain \in Seq(Ring) /\ Len(chain) = arrived - c
      /\ \A k \in 1 .. arrived - c : chain[k] = Slot(c + k)
  <2>1. CASE lastread = x
    <3>1. before = <<>>
      BY <1>5, <2>1
    <3>2. chain = taken
      BY <1>2, <3>1
    <3>3. QED  BY <1>1, <1>2, <2>1, <3>2
  <2>2. CASE lastread # x
    <3>1. lastread < x /\ c = x - 1 /\ x \in lastread + 1 .. arrived
      BY <1>1, <2>2
    <3>2. before = <<Slot(x)>> /\ Slot(x) \in Ring
      BY <1>3, <1>5, <2>2, <3>1 DEF Queued
    <3>3. before \in Seq(Ring) /\ Len(before) = 1 /\ before[1] = Slot(x)
      BY <3>2
    <3> HIDE DEF before
    <3>4. /\ chain \in Seq(Ring) /\ Len(chain) = 1 + m /\ chain[1] = Slot(x)
          /\ \A i \in 1 .. m : chain[1 + i] = taken[i]
      BY <1>2, <3>3, ConcatList
    <3> HIDE DEF chain
    <3>5. 1 + m = arrived - c
      BY <1>1, <3>1
    <3>6. \A k \in 1 .. arrived - c : chain[k] = Slot(c + k)
      <4>1. TAKE k \in 1 .. arrived - c
      <4>2. CASE k = 1
        <5>1. c + 1 = x
          BY <1>1, <3>1
        <5>2. QED  BY <3>4, <4>2, <5>1
      <4>3. CASE k # 1
        <5>1. k - 1 \in 1 .. m /\ 1 + (k - 1) = k /\ x + (k - 1) = c + k
          BY <1>1, <3>1, <3>5, <4>3
        <5>2. QED  BY <1>2, <3>4, <5>1
      <4>4. QED  BY <4>2, <4>3
    <3>7. QED  BY <3>4, <3>5, <3>6
  <2>3. QED  BY <2>1, <2>2
<1> HIDE DEF chain, before
<1>9. Last(taken) = Slot(arrived) /\ Contains(taken, Slot(arrived))
  <2>1. m \in 1 .. m /\ x + m = arrived
    BY <1>1
  <2>2. QED  BY <1>2, <1>7, <2>1 DEF Contains
<1>10. etrqhead' = Slot(lastread + 1)
  <2>1. CASE lastread = x
    BY <1>1, <1>2, <1>5, <1>6, <1>7, <2>1
  <2>2. CASE lastread # x
    BY <1>5, <1>6, <2>2 DEF Queued
  <2>3. QED  BY <2>1, <2>2
<1>11. etrqtail' = Slot(arrived)
  BY <1>6, <1>7, <1>9
<1>12. arrived \in lastread + 1 .. arrived
  BY <1>1
<1>13. etrqnext'[Slot(arrived)] = EMPTY
  BY <1>3, <1>6, <1>9, <1>12
<1>14. \A f \in lastread + 1 .. arrived - 1 : etrqnext'[Slot(f)] = Slot(f + 1)
  <2>1. TAKE f \in lastread + 1 .. arrived - 1
  <2>2. f \in lastread + 1 .. arrived /\ f # arrived /\ Slot(f) \in Ring
    BY <1>1, <1>3
  <2>3. Slot(f) # Last(taken)
    BY <1>4, <1>9, <1>12, <2>2
  <2>4. CASE f > c
    <3> DEFINE at(k) == k \in 1 .. Len(chain) - 1 /\ chain[k] = Slot(f)
    <3>1. f - c \in 1 .. Len(chain) - 1 /\ c + (f - c) = f /\ c + (1 + (f - c)) = f + 1
      BY <1>1, <1>8, <2>1, <2>4
    <3>2. at(f - c)
      BY <1>8, <3>1
    <3>3. \A k : at(k) => k = f - c
      <4>1. SUFFICES ASSUME NEW k \in 1 .. Len(chain) - 1, chain[k] = Slot(f) PROVE k = f - c
        OBVIOUS
      <4>2. k \in 1 .. arrived - c /\ c + k \in lastread + 1 .. arrived
        BY <1>1, <1>8, <4>1
      <4>3. c + k = f
        BY <1>4, <1>8, <2>2, <4>1, <4>2
      <4>4. QED  BY <1>1, <4>1, <4>3
    <3>4. (CHOOSE k \in 1 .. Len(chain) - 1 : chain[k] = Slot(f)) = f - c
      BY <3>2, <3>3
    <3>5. etrqnext'[Slot(f)] = chain[1 + (f - c)]
      BY <1>6, <2>2, <2>3, <3>2, <3>4
    <3>6. 1 + (f - c) \in 1 .. arrived - c
      BY <1>1, <1>8, <3>1
    <3>7. QED  BY <1>8, <3>1, <3>5, <3>6
  <2>5. CASE f <= c
    <3>1. ~ \E k \in 1 .. Len(chain) - 1 : chain[k] = Slot(f)
      <4>1. SUFFICES ASSUME NEW k \in 1 .. Len(chain) - 1, chain[k] = Slot(f) PROVE FALSE
        OBVIOUS
      <4>2. k \in 1 .. arrived - c /\ c + k \in lastread + 1 .. arrived
        BY <1>1, <1>8, <4>1
      <4>3. c + k = f
        BY <1>4, <1>8, <2>2, <4>1, <4>2
      <4>4. QED  BY <1>1, <2>5, <4>1, <4>3
    <3>2. f \in lastread + 1 .. x - 1
      BY <1>1, <2>1, <2>5
    <3>3. etrqnext[Slot(f)] = Slot(f + 1)
      BY <3>2 DEF Queued
    <3>4. QED  BY <1>6, <2>2, <2>3, <3>1, <3>3
  <2>6. QED  BY <1>1, <2>4, <2>5
<1>15. etrqnext' \in [Ring -> Ring \cup {EMPTY}]
  <2>1. SUFFICES ASSUME NEW i \in Ring PROVE etrqnext'[i] \in Ring \cup {EMPTY}
    BY <1>6
  <2>2. CASE \E k \in 1 .. Len(chain) - 1 : chain[k] = i
    <3> DEFINE k == CHOOSE k \in 1 .. Len(chain) - 1 : chain[k] = i
    <3>1. k \in 1 .. Len(chain) - 1
      BY <2>2
    <3>2. chain[1 + k] \in Ring
      <4> HIDE DEF k
      <4>1. 1 + k \in 1 .. Len(chain)
        BY <1>1, <1>8, <3>1
      <4>2. QED  BY <1>8, <4>1
    <3>3. QED  BY <1>6, <2>1, <2>2, <3>2
  <2>3. CASE ~ \E k \in 1 .. Len(chain) - 1 : chain[k] = i
    BY <1>6, <2>1, <2>3 DEF RingTyped
  <2>4. QED  BY <2>2, <2>3
<1>16. QED  BY <1>10, <1>11, <1>13, <1>14, <1>15

\* The interrupt moves every frame that arrived to the queue.
LEMMA ReceiveInterruptRing ==
  ASSUME RingInv, ReceiveInterrupt
  PROVE  RingInv'
<1> DEFINE seen == Examined
           taken == Taken(seen)
<1>1. /\ Linked(taken) /\ skewed' = (skewed \/ taken # seen)
      /\ flags' = [i \in Ring |-> flags[i] \/ Contains(taken, i)]
      /\ own' = [i \in Ring |-> own[i] \/ (taken # seen /\ i = seen[Len(taken) + 1])]
      /\ etnextbuf' = (etnextbuf + Len(taken)) % ENUMRCV
      /\ UNCHANGED <<frame, chipnext, arrived, lastread>>
  BY DEF ReceiveInterrupt
<1> HIDE DEF taken, seen
<1>2. SUFFICES ASSUME ~skewed, taken = Examined,
                      NEW x \in Nat, RingTyped, Counts(x), Buffers(x), Queued(x)
               PROVE  RingTyped' /\ Counts(arrived)' /\ Buffers(arrived)' /\ Queued(arrived)'
  <2>1. SUFFICES ASSUME ~skewed' PROVE RingTyped' /\ \E y \in Nat : (Counts(y) /\ Buffers(y) /\ Queued(y))'
    BY DEF RingInv
  <2>2. ~skewed /\ taken = Examined
    BY <1>1, <2>1 DEF seen
  <2>3. PICK x \in Nat : Counts(x) /\ Buffers(x) /\ Queued(x)
    BY <2>2 DEF RingInv
  <2>4. RingTyped
    BY <2>2 DEF RingInv
  <2>5. RingTyped' /\ Counts(arrived)' /\ Buffers(arrived)' /\ Queued(arrived)'
    BY <1>2, <2>2, <2>3, <2>4
  <2>6. PICK y \in Nat : y = arrived
    BY <2>3 DEF Counts
  <2>7. y = arrived'
    BY <1>1, <2>6
  <2>8. Counts(y)' /\ Buffers(y)' /\ Queued(y)'
    BY <2>5, <2>7 DEF Counts, Buffers, Queued
  <2>9. QED  BY <2>5, <2>8
<1>3. /\ ENUMRCV \in Nat \ {0} /\ arrived \in Nat /\ lastread \in Nat /\ x \in lastread .. arrived
      /\ arrived - lastread <= ENUMRCV /\ etnextbuf = x % ENUMRCV
  BY <1>2, EtherAssumption DEF Counts
<1>4. /\ taken \in Seq(Ring) /\ Len(taken) = arrived - x
      /\ \A i \in 1 .. arrived - x : taken[i] = Slot(x + i)
  BY <1>2, ExaminedFrames
<1>5. own' = own
  BY <1>1, <1>2 DEF RingTyped, seen
<1>6. Outstanding' = Outstanding
  BY <1>1 DEF Outstanding
<1>7. \A f \in Outstanding : f \in Nat \ {0} /\ Slot(f) \in Ring
  <2>1. TAKE f \in Outstanding
  <2>2. f \in Nat \ {0}
    BY <1>3 DEF Outstanding
  <2>3. QED  BY <2>2, SlotInRing
<1>8. Counts(arrived)'
  <2>1. ((x % ENUMRCV) + (arrived - x)) % ENUMRCV = (x + (arrived - x)) % ENUMRCV
    BY <1>3, StepsAdd, arrived - x \in Nat
  <2>2. x + (arrived - x) = arrived
    BY <1>3
  <2>3. etnextbuf' = arrived % ENUMRCV
    BY <1>1, <1>3, <1>4, <2>1, <2>2
  <2>4. QED  BY <1>1, <1>2, <1>3, <2>3 DEF Counts
<1>9. Buffers(arrived)'
  <2>1. ASSUME NEW f \in Outstanding PROVE flags'[Slot(f)]
    <3>1. CASE f <= x
      BY <1>1, <1>2, <1>7, <3>1 DEF Buffers
    <3>2. CASE ~ (f <= x)
      <4>1. f - x \in 1 .. arrived - x /\ x + (f - x) = f
        BY <1>3, <3>2 DEF Outstanding
      <4>2. Contains(taken, Slot(f))
        BY <1>4, <4>1 DEF Contains
      <4>3. QED  BY <1>1, <1>7, <4>2
    <3>3. QED  BY <3>1, <3>2
  <2>2. \A f \in Outstanding : frame[Slot(f)] = f /\ ~own[Slot(f)] /\ f <= arrived
    BY <1>2, <1>3 DEF Buffers, Outstanding
  <2>3. ASSUME NEW i \in Ring, \A f \in Outstanding : i # Slot(f)
        PROVE  own[i] /\ ~flags'[i]
    <3>1. ~Contains(taken, i)
      <4>1. SUFFICES ASSUME NEW k \in 1 .. arrived - x, taken[k] = i PROVE FALSE
        BY <1>4 DEF Contains
      <4>2. x + k \in Outstanding
        BY <1>3, <4>1 DEF Outstanding
      <4>3. QED  BY <1>4, <2>3, <4>1, <4>2
    <3>2. QED  BY <1>1, <1>2, <2>3, <3>1 DEF Buffers
  <2>4. QED  BY <1>1, <1>5, <1>6, <2>1, <2>2, <2>3 DEF Buffers, Slot
<1>10. RingTyped' /\ Queued(arrived)'
  <2>1. own' \in [Ring -> BOOLEAN] /\ flags' \in [Ring -> BOOLEAN] /\ frame' \in [Ring -> Nat]
    <3>1. \A i \in Ring : Contains(taken, i) \in BOOLEAN
      BY DEF Contains
    <3>2. QED  BY <1>1, <1>2, <1>5, <3>1 DEF RingTyped
  <2>2. CASE x = arrived
    <3>1. taken = <<>>
      BY <1>3, <1>4, <2>2
    <3>2. /\ etrqhead' = etrqhead /\ etrqtail' = etrqtail
          /\ \A i \in Ring : etrqnext'[i] = etrqnext[i]
          /\ etrqnext' = [i \in Ring |-> etrqnext'[i]]
      BY <1>1, <3>1 DEF Linked, Contains
    <3>3. etrqnext' = etrqnext
      BY <1>2, <3>2 DEF RingTyped
    <3>4. QED  BY <1>1, <1>2, <2>1, <2>2, <3>2, <3>3 DEF RingTyped, Queued, Slot
  <2>3. CASE x # arrived
    <3>1. Linked(Examined) /\ x < arrived
      BY <1>1, <1>2, <1>3, <2>3
    <3>2. /\ etrqhead' = Slot(lastread + 1)
          /\ etrqtail' = Slot(arrived) /\ etrqnext'[Slot(arrived)] = EMPTY
          /\ \A f \in lastread + 1 .. arrived - 1 : etrqnext'[Slot(f)] = Slot(f + 1)
          /\ etrqnext' \in [Ring -> Ring \cup {EMPTY}]
      BY <1>2, <3>1, LinkedFrames
    <3>3. lastread # arrived
      BY <1>3, <2>3
    <3>4. QED  BY <1>1, <2>1, <3>2, <3>3 DEF RingTyped, Queued, Slot
  <2>4. QED  BY <2>2, <2>3
<1>11. QED  BY <1>8, <1>9, <1>10

LEMMA RingUntouched ==
  ASSUME RingInv, UNCHANGED <<ringVars, chipnext, rint, arrived, lastread, skewed>>
  PROVE  RingInv'
BY DEF RingInv, ringVars, RingTyped, Counts, Buffers, Queued, Outstanding, Slot

LEMMA RingStep ==
  ASSUME RingInv, [NetNext]_netVars
  PROVE  RingInv'
<1>1. CASE part = "ether" /\ EtherNext
  <2>1. CASE FrameArrives
    BY <2>1, FrameArrivesRing
  <2>2. CASE PacketSent
    BY <2>2, RingUntouched DEF PacketSent
  <2>3. CASE ReceiveInterrupt
    BY <2>3, ReceiveInterruptRing
  <2>4. CASE TransmitInterrupt
    BY <2>4, RingUntouched DEF TransmitInterrupt
  <2>5. CASE \E p \in Procs : Ethread(p) \/ Resumed(p)
    BY <2>5, RingUntouched DEF Ethread, Resumed, chipVars
  <2>6. CASE \E p \in Procs : EthreadOn(p)
    BY <2>6, EthreadOnRing
  <2>7. CASE \E p \in Procs : Ethwrite(p) \/ EthwriteOn(p)
    BY <2>7, RingUntouched DEF Ethwrite, EthwriteOn
  <2>8. QED  BY <1>1, <2>1, <2>2, <2>3, <2>4, <2>5, <2>6, <2>7 DEF EtherNext
<1>2. CASE UNCHANGED etherOwn
  BY <1>2, RingUntouched DEF etherOwn, chipVars
<1>3. QED  BY <1>1, <1>2 DEF NetNext, netVars

LEMMA RingHolds == NetSpec => []RingInv
<1>1. NetInit => RingInv
  BY RingInit DEF NetInit
<1>2. RingInv /\ [NetNext]_netVars => RingInv'
  BY RingStep
<1>3. QED  BY <1>1, <1>2, PTL DEF NetSpec

------------------------------------------------------------------------------
(* What is read. *)

\* The chain of the queue, from its head on: the frames lastread + 1 to x.
Chain == CHOOSE chain : chain = [k \in Nat |->
  IF k = 0 THEN etrqhead ELSE IF chain[k - 1] = EMPTY THEN EMPTY ELSE etrqnext[chain[k - 1]]]

LEMMA ChainFrames ==
  ASSUME NEW x \in Nat, Counts(x), Queued(x)
  PROVE  \A k \in Nat : Chain[k] = IF k < x - lastread THEN Slot(lastread + 1 + k) ELSE EMPTY
<1> DEFINE g == [k \in Nat |-> IF k < x - lastread THEN Slot(lastread + 1 + k) ELSE EMPTY]
           next(c, k) == IF k = 0 THEN etrqhead
                         ELSE IF c[k - 1] = EMPTY THEN EMPTY ELSE etrqnext[c[k - 1]]
<1>1. /\ ENUMRCV \in Nat \ {0} /\ arrived \in Nat /\ lastread \in Nat /\ x \in lastread .. arrived
  BY EtherAssumption DEF Counts
<1>2. \A f \in lastread + 1 .. x : Slot(f) # EMPTY
  <2>1. TAKE f \in lastread + 1 .. x
  <2>2. f \in Nat \ {0}
    BY <1>1
  <2>3. Slot(f) \in Ring
    BY <2>2, SlotInRing
  <2>4. QED  BY <1>1, <2>3 DEF Ring, EMPTY
<1>3. ASSUME NEW k \in Nat PROVE g[k] = next(g, k)
  <2>1. CASE k = 0
    BY <1>1, <2>1 DEF Queued
  <2>2. CASE k # 0 /\ k < x - lastread
    <3>1. /\ k - 1 \in Nat /\ k - 1 < x - lastread
          /\ lastread + 1 + (k - 1) = lastread + k /\ lastread + 1 + k = (lastread + k) + 1
          /\ lastread + k \in lastread + 1 .. x - 1 /\ lastread + k \in lastread + 1 .. x
      BY <1>1, <2>2
    <3>2. g[k] = Slot((lastread + k) + 1) /\ g[k - 1] = Slot(lastread + k)
      BY <2>2, <3>1
    <3>3. g[k - 1] # EMPTY /\ etrqnext[Slot(lastread + k)] = Slot((lastread + k) + 1)
      BY <1>2, <3>1, <3>2 DEF Queued
    <3> HIDE DEF g
    <3>4. QED  BY <2>2, <3>2, <3>3
  <2>3. CASE k # 0 /\ k = x - lastread
    <3>1. /\ k - 1 \in Nat /\ k - 1 < x - lastread /\ lastread + 1 + (k - 1) = x
          /\ lastread < x /\ x \in lastread + 1 .. x /\ ~ (k < x - lastread)
      BY <1>1, <2>3
    <3>2. g[k] = EMPTY /\ g[k - 1] = Slot(x)
      BY <3>1
    <3>3. etrqnext[Slot(x)] = EMPTY
      BY <3>1 DEF Queued
    <3> HIDE DEF g
    <3>4. QED  BY <2>3, <3>2, <3>3
  <2>4. CASE k # 0 /\ k > x - lastread
    <3>1. k - 1 \in Nat /\ ~ (k - 1 < x - lastread) /\ ~ (k < x - lastread)
      BY <1>1, <2>4
    <3>2. g[k] = EMPTY /\ g[k - 1] = EMPTY
      BY <3>1
    <3> HIDE DEF g
    <3>3. QED  BY <2>4, <3>2
  <2>5. QED  BY <1>1, <2>1, <2>2, <2>3, <2>4
<1>4. g = [k \in Nat |-> next(g, k)]
  BY <1>3
<1> HIDE DEF g
<1>5. Chain = [k \in Nat |-> next(Chain, k)]
  BY <1>4 DEF Chain
<1> DEFINE Differ == {k \in Nat : Chain[k] # g[k]}
<1>6. Differ = {}
  <2>1. SUFFICES ASSUME Differ # {} PROVE FALSE
    OBVIOUS
  <2>2. PICK k \in Differ : \A y \in Differ : k <= y
    <3>1. Differ \subseteq Nat
      OBVIOUS
    <3> HIDE DEF Differ
    <3>2. QED  BY <2>1, <3>1, MinNat
  <2>3. Chain[k] = next(Chain, k) /\ g[k] = next(g, k) /\ Chain[k] # g[k] /\ k \in Nat
    BY <1>3, <1>5, <2>2
  <2>4. k # 0
    BY <2>3
  <2>5. k - 1 \in Nat /\ k - 1 \notin Differ
    BY <2>2, <2>3, <2>4
  <2>6. Chain[k - 1] = g[k - 1]
    BY <2>5
  <2>7. QED  BY <2>3, <2>6
<1>7. QED  BY <1>6 DEF g

LEMMA ReceivedFrames ==
  ASSUME NEW x \in Nat, Counts(x), Buffers(x), Queued(x)
  PROVE  Received = [k \in 1 .. x - lastread |-> lastread + k]
<1> DEFINE L == {k \in 0 .. ENUMRCV - 1 : Chain[k] # EMPTY}
           m == x - lastread
<1>1. /\ ENUMRCV \in Nat \ {0} /\ arrived \in Nat /\ lastread \in Nat /\ x \in lastread .. arrived
      /\ arrived - lastread <= ENUMRCV /\ m \in Nat /\ m <= ENUMRCV
  BY EtherAssumption DEF Counts
<1>2. \A k \in Nat : Chain[k] = IF k < m THEN Slot(lastread + 1 + k) ELSE EMPTY
  BY ChainFrames
<1>3. \A k \in 0 .. m - 1 : Slot(lastread + 1 + k) # EMPTY
  <2>1. TAKE k \in 0 .. m - 1
  <2>2. lastread + 1 + k \in Nat \ {0}
    BY <1>1
  <2>3. Slot(lastread + 1 + k) \in Ring
    BY <2>2, SlotInRing
  <2>4. QED  BY <1>1, <2>3 DEF Ring, EMPTY
<1>4. L = 0 .. m - 1
  BY <1>1, <1>2, <1>3
<1>5. Cardinality(L) = m
  <2>1. 0 \in Int /\ m - 1 \in Int
    BY <1>1
  <2>2. Cardinality(0 .. m - 1) = IF 0 > m - 1 THEN 0 ELSE (m - 1) - 0 + 1
    BY <2>1, FS_Interval
  <2>3. Cardinality(0 .. m - 1) = m
    BY <1>1, <2>2
  <2>4. QED  BY <1>4, <2>3
<1>6. Received = [k \in 1 .. Cardinality(L) |-> frame[Chain[k - 1]]]
  BY DEF Received, Chain
<1> HIDE DEF L
<1>7. \A k \in 1 .. m : frame[Chain[k - 1]] = lastread + k
  <2>1. TAKE k \in 1 .. m
  <2>2. k - 1 \in Nat /\ k - 1 < m /\ lastread + 1 + (k - 1) = lastread + k /\ lastread + k \in Outstanding
    BY <1>1 DEF Outstanding
  <2>3. QED  BY <1>2, <2>2 DEF Buffers
<1>8. QED  BY <1>5, <1>6, <1>7

LEMMA UnexaminedFrames ==
  ASSUME NEW x \in Nat, Counts(x), Buffers(x)
  PROVE  Unexamined = [i \in 1 .. arrived - x |-> x + i]
<1>1. /\ Len(Examined) = arrived - x
      /\ \A i \in 1 .. arrived - x : Examined[i] = Slot(x + i)
  BY ExaminedFrames
<1>2. \A i \in 1 .. arrived - x : frame[Slot(x + i)] = x + i
  <2>1. TAKE i \in 1 .. arrived - x
  <2>2. x + i \in Outstanding
    BY DEF Counts, Outstanding
  <2>3. QED  BY <2>2 DEF Buffers
<1>3. QED  BY <1>1, <1>2 DEF Unexamined

LEMMA RingInOrder ==
  ASSUME RingInv
  PROVE  FramesInOrder
<1>1. SUFFICES ASSUME ~skewed, NEW x \in Nat, Counts(x), Buffers(x), Queued(x)
               PROVE  /\ Received \o Unexamined = [i \in 1 .. arrived - lastread |-> lastread + i]
                      /\ chipnext = (etnextbuf + Len(Unexamined)) % ENUMRCV
  BY DEF RingInv, FramesInOrder
<1> DEFINE R == [k \in 1 .. x - lastread |-> lastread + k]
           U == [i \in 1 .. arrived - x |-> x + i]
           A == [i \in 1 .. arrived - lastread |-> lastread + i]
<1>2. /\ ENUMRCV \in Nat \ {0} /\ arrived \in Nat /\ lastread \in Nat /\ x \in lastread .. arrived
  BY <1>1, EtherAssumption DEF Counts
<1>3. Received = R /\ Unexamined = U
  BY <1>1, ReceivedFrames, UnexaminedFrames
<1>4. /\ R \in Seq(Nat) /\ Len(R) = x - lastread
      /\ U \in Seq(Nat) /\ Len(U) = arrived - x
      /\ A \in Seq(Nat) /\ Len(A) = arrived - lastread
  BY <1>2
<1>5. R \o U = A
  <2>1. /\ R \o U \in Seq(Nat) /\ Len(R \o U) = Len(R) + Len(U)
        /\ \A i \in 1 .. Len(R) : (R \o U)[i] = R[i]
        /\ \A i \in 1 .. Len(U) : (R \o U)[Len(R) + i] = U[i]
    <3> HIDE DEF R, U
    <3>1. R \in Seq(Nat) /\ U \in Seq(Nat)
      BY <1>4
    <3>2. QED  BY ONLY <3>1, ConcatList
  <2> DEFINE RU == R \o U
  <2>2. Len(RU) = Len(A)
    BY <1>2, <1>4, <2>1
  <2>3. ASSUME NEW i \in 1 .. Len(A) PROVE RU[i] = A[i]
    <3>1. A[i] = lastread + i
      BY <1>4
    <3>2. CASE i <= x - lastread
      <4>1. i \in 1 .. Len(R) /\ R[i] = lastread + i
        BY <1>2, <1>4, <3>2
      <4>2. RU[i] = R[i]
        <5> HIDE DEF R, U
        <5>1. QED  BY <2>1, <4>1
      <4> HIDE DEF RU, R, A
      <4>3. QED  BY <3>1, <4>1, <4>2
    <3>3. CASE ~ (i <= x - lastread)
      <4> DEFINE j == i - (x - lastread)
      <4>1. j \in 1 .. arrived - x /\ (x - lastread) + j = i /\ x + j = lastread + i
        BY <1>2, <1>4, <3>3
      <4>2. U[j] = x + j
        BY <4>1
      <4>3. RU[i] = U[j]
        <5> HIDE DEF R, U, j
        <5>1. QED  BY <1>4, <2>1, <4>1
      <4> HIDE DEF RU, U, j
      <4>4. QED  BY <3>1, <4>1, <4>2, <4>3
    <3>4. QED  BY <3>2, <3>3
  <2> HIDE DEF R, U, A
  <2>4. RU \in Seq(Nat)
    BY <2>1
  <2> HIDE DEF RU
  <2>5. RU = A
    BY <1>4, <2>2, <2>3, <2>4, SeqEqual
  <2>6. QED  BY <2>5 DEF RU
<1>6. chipnext = (etnextbuf + Len(Unexamined)) % ENUMRCV
  <2>1. ((x % ENUMRCV) + (arrived - x)) % ENUMRCV = (x + (arrived - x)) % ENUMRCV
    BY <1>2, StepsAdd, arrived - x \in Nat
  <2>2. x + (arrived - x) = arrived
    BY <1>2
  <2>3. Len(Unexamined) = arrived - x
    BY <1>3, <1>4
  <2>4. QED  BY <1>1, <2>1, <2>2, <2>3 DEF Counts
<1>7. QED  BY <1>3, <1>5, <1>6

\* As long as no frame came damaged, what is in the queue and in the ring are the frames that
\* arrived after the last one read, each once and in order, and the driver will look for the
\* next frame where the chip will put it: for every number of buffers, frames and readers
\* (ethinter, ethread and the chip).
THEOREM FramesInOrderCorrect == NetSpec => []FramesInOrder
<1>1. RingInv => FramesInOrder
  BY RingInOrder
<1>2. QED  BY RingHolds, <1>1, PTL

------------------------------------------------------------------------------
(* Where the processes are. *)

\* The places in the calls of each part.
Labels(pt) ==
  IF pt = "ether" THEN {"user", "rcvturn", "read", "asleep", "awake", "xmtturn"}
  ELSE IF pt = "internet"
  THEN {"boot", "unborn", "rarp", "user", "serve", "route", "turn", "insert", "advance", "rewind",
        "mark", "name", "zero", "found", "request", "ask", "await", "answered", "test", "gate", "echo",
        "clear", "receive", "timed", "write"}
  ELSE {"user", "file", "packet", "unopen", "rfturn", "reply"}
Conts(L) == [at : L, to : Hosts \cup {Broadcast, Nobody}, ix : Nat, try : Nat, via : BOOLEAN]

TableTyped ==
  /\ atabsiz \in 0 .. AR_TAB /\ atabnxt \in Nat /\ icmpq \in Seq(Hosts)
  /\ part \in {"ether", "internet", "files", "names"}
ContTyped == cont \in [Procs -> Conts(Labels(part))]

LEMMA WhereTyped ==
  ASSUME NEW L, NEW l \in L
  PROVE  /\ Where(l) \in Conts(L) /\ Where(l).at = l /\ Where(l).try = 0
         /\ \A a \in Hosts \cup {Broadcast, Nobody} :
              /\ [Where(l) EXCEPT !.to = a] \in Conts(L)
              /\ [Where(l) EXCEPT !.to = a].at = l /\ [Where(l) EXCEPT !.to = a].to = a
              /\ [Where(l) EXCEPT !.to = a, !.via = TRUE] \in Conts(L)
              /\ [Where(l) EXCEPT !.to = a, !.via = TRUE].at = l
              /\ [Where(l) EXCEPT !.to = a, !.via = TRUE].to = a
         /\ \A i \in Nat : /\ [Where(l) EXCEPT !.ix = i] \in Conts(L)
                           /\ [Where(l) EXCEPT !.ix = i].at = l /\ [Where(l) EXCEPT !.ix = i].ix = i
BY DEF Where, Conts

LEMMA ThenTyped ==
  ASSUME NEW L, cont \in [Procs -> Conts(L)], NEW p \in Procs, NEW c \in Conts(L), Then(p, c)
  PROVE  /\ cont' \in [Procs -> Conts(L)] /\ cont'[p] = c
         /\ \A q \in Procs \ {p} : cont'[q] = cont[q]
BY DEF Then

LEMMA GoesTyped ==
  ASSUME NEW L, cont \in [Procs -> Conts(L)], NEW p \in Procs, NEW l \in L, Goes(p, l)
  PROVE  /\ cont' \in [Procs -> Conts(L)]
         /\ cont'[p].at = l /\ cont'[p].to = cont[p].to /\ cont'[p].ix = cont[p].ix
         /\ \A q \in Procs \ {p} : cont'[q] = cont[q]
<1>1. cont' = [cont EXCEPT ![p] = [cont[p] EXCEPT !.at = l]]
  BY DEF Goes
<1> DEFINE c == [cont[p] EXCEPT !.at = l]
<1>2. c \in Conts(L) /\ c.at = l /\ c.to = cont[p].to /\ c.ix = cont[p].ix
  BY cont[p] \in Conts(L) DEF Conts
<1> HIDE DEF c
<1>3. cont' = [cont EXCEPT ![p] = c]
  BY <1>1 DEF c
<1>4. QED  BY <1>2, <1>3

LEMMA EtherTyped ==
  ASSUME ContTyped, part = "ether", part' = part, EtherNext
  PROVE  ContTyped'
<1> DEFINE L == Labels("ether")
<1>1. /\ {"user", "rcvturn", "read", "asleep", "awake", "xmtturn"} \subseteq L
      /\ cont \in [Procs -> Conts(L)]
  BY DEF ContTyped, Labels
<1> HIDE DEF L
<1>2. SUFFICES cont' \in [Procs -> Conts(L)]
  BY DEF ContTyped, L
<1>3. CASE FrameArrives \/ PacketSent \/ TransmitInterrupt
  BY <1>1, <1>3 DEF FrameArrives, PacketSent, TransmitInterrupt
<1>4. CASE ReceiveInterrupt
  <2>1. CASE UNCHANGED cont
    BY <1>1, <2>1
  <2>2. CASE At(etrpid, "asleep") /\ Goes(etrpid, "awake") /\ etrpid # Nobody
    <3>1. CASE etrpid \in Procs
      BY <1>1, <2>2, <3>1, GoesTyped
    <3>2. CASE etrpid \notin Procs
      BY <1>1, <2>2, <3>2 DEF Goes
    <3>3. QED  BY <3>1, <3>2
  <2>3. QED  BY <1>4, <2>1, <2>2 DEF ReceiveInterrupt
<1>5. ASSUME NEW p \in Procs, Ethread(p) \/ EthreadOn(p) \/ Resumed(p) \/ Ethwrite(p) \/ EthwriteOn(p)
      PROVE  cont' \in [Procs -> Conts(L)]
  <2>1. \/ UNCHANGED cont
        \/ \E l \in {"user", "rcvturn", "read", "asleep", "awake", "xmtturn"} : Goes(p, l)
    BY <1>5 DEF Ethread, EthreadOn, Resumed, Ethwrite, EthwriteOn
  <2>2. QED  BY <1>1, <2>1, GoesTyped
<1>6. QED  BY <1>3, <1>4, <1>5 DEF EtherNext

LEMMA FilesTyped ==
  ASSUME ContTyped, part = "files", part' = part, RemoteNext
  PROVE  ContTyped'
<1> DEFINE L == Labels("files")
<1>1. /\ {"user", "file", "packet", "unopen", "rfturn", "reply"} \subseteq L
      /\ cont \in [Procs -> Conts(L)]
  BY DEF ContTyped, Labels
<1> HIDE DEF L
<1>2. SUFFICES cont' \in [Procs -> Conts(L)]
  BY DEF ContTyped, L
<1>3. ASSUME NEW m \in flying, Lost(m) \/ Serves(m) \/ ReplyArrives(m)
      PROVE  cont' \in [Procs -> Conts(L)]
  BY <1>1, <1>3 DEF Lost, Serves, ReplyArrives
<1>4. ASSUME NEW p \in Users, RemoteStep(p)
      PROVE  cont' \in [Procs -> Conts(L)]
  <2>1. p \in Procs /\ "reply" \in L /\ cont[p] \in Conts(L)
    BY <1>1 DEF Users
  <2>2. \/ UNCHANGED cont
        \/ \E l \in {"user", "packet", "unopen", "rfturn"} : Goes(p, l)
        \/ Then(p, Where("user"))
        \/ \E l \in {"file", "packet"}, i \in Nat : Places(p, l, i)
        \/ cont' = [cont EXCEPT ![p].at = "reply", ![p].try = 1]
        \/ cont' = [cont EXCEPT ![p].try = @ + 1]
    <3>1. Nrf \in Nat /\ Slots \subseteq Nat
      BY RemoteAssumption DEF Slots
    <3>2. CASE \E name \in Files : Rfopen(p, name)
      <4>1. CASE UNCHANGED cont
        BY <4>1
      <4>2. CASE ~UNCHANGED cont
        <5> DEFINE free == {i \in Slots : ~rftab[i].used}
        <5>1. free # {} /\ Places(p, "file", Min(free))
          BY <3>2, <4>2 DEF Rfopen
        <5>2. Min(free) \in Nat
          BY <3>1, <5>1, MinNat
        <5>3. QED  BY <5>1, <5>2
      <4>3. QED  BY <4>1, <4>2
    <3>3. CASE \E name \in Files : Rfcntl(p, name)
      BY <3>1, <3>3 DEF Rfcntl
    <3>4. CASE \E i \in Slots : \/ Rfio(p, i) \/ (\E pos \in 0 .. MaxPos : Rfseek(p, i, pos))
                                \/ Rfclose(p, i)
      BY <3>1, <3>4 DEF Rfio, Rfseek, Rfclose
    <3>5. CASE RfcntlClear(p) \/ Locked(p) \/ RmutexTurn(p) \/ Unopens(p)
      BY <3>5 DEF RfcntlClear, Locked, RmutexTurn, Unopens
    <3>6. CASE Rfsend(p)
      BY <3>6 DEF Rfsend
    <3>7. CASE TooLong(p) \/ RfsendFails(p) \/ WriteFails(p) \/ GivesUp(p) \/ TakesReply(p)
      BY <3>7 DEF TooLong, RfsendFails, WriteFails, GivesUp, TakesReply, Finishes
    <3>8. CASE Retry(p)
      BY <3>8 DEF Retry
    <3>9. QED  BY <1>4, <3>2, <3>3, <3>4, <3>5, <3>6, <3>7, <3>8 DEF RemoteStep
  <2>3. CASE \E l \in {"user", "packet", "unopen", "rfturn"} : Goes(p, l)
    BY <1>1, <2>1, <2>3, GoesTyped
  <2>4. CASE Then(p, Where("user"))
    BY <1>1, <2>1, <2>4, ThenTyped, WhereTyped
  <2>5. CASE \E l \in {"file", "packet"}, i \in Nat : Places(p, l, i)
    BY <1>1, <2>1, <2>5, ThenTyped, WhereTyped DEF Places
  <2>6. CASE cont' = [cont EXCEPT ![p].at = "reply", ![p].try = 1]
    <3> DEFINE c == [cont[p] EXCEPT !.at = "reply", !.try = 1]
    <3>1. c \in Conts(L)
      BY <2>1 DEF Conts
    <3> HIDE DEF c
    <3>2. cont' = [cont EXCEPT ![p] = c]
      BY <2>6 DEF c
    <3>3. QED  BY <1>1, <2>1, <3>1, <3>2
  <2>7. CASE cont' = [cont EXCEPT ![p].try = @ + 1]
    <3> DEFINE t == cont[p].try + 1
               c == [cont[p] EXCEPT !.try = t]
    <3>1. t \in Nat
      BY <2>1 DEF Conts
    <3>2. c \in Conts(L)
      <4> HIDE DEF t
      <4>1. QED  BY <2>1, <3>1 DEF Conts
    <3> HIDE DEF c
    <3>3. cont' = [cont EXCEPT ![p] = c]
      BY <2>7 DEF c
    <3>4. QED  BY <1>1, <2>1, <3>2, <3>3
  <2>8. QED  BY <1>1, <2>2, <2>3, <2>4, <2>5, <2>6, <2>7
<1>5. QED  BY <1>3, <1>4 DEF RemoteNext

LEMMA CountTyped ==
  ASSUME TableTyped
  PROVE  Min({atabsiz + 1, AR_TAB}) \in 0 .. AR_TAB
<1> DEFINE T == {atabsiz + 1, AR_TAB}
<1>1. T \subseteq Nat /\ T # {} /\ AR_TAB \in Nat \ {0}
  BY RouteAssumption DEF TableTyped
<1>2. Min(T) \in T /\ \A y \in T : Min(T) <= y
  <2> HIDE DEF T
  <2>1. QED  BY <1>1, MinNat
<1> DEFINE m == Min(T)
<1>3. m \in Nat /\ m <= AR_TAB
  BY <1>1, <1>2
<1>4. QED  BY <1>1, <1>3

LEMMA EnteredTyped ==
  ASSUME TableTyped, NEW a, Entered(a)
  PROVE  atabsiz' \in 0 .. AR_TAB /\ atabnxt' \in Nat
<1>1. (atabnxt + 1) % AR_TAB \in 0 .. AR_TAB - 1
  BY RouteAssumption, Division DEF TableTyped
<1>2. QED  BY <1>1, CountTyped DEF Entered

LEMMA KnownEntry ==
  ASSUME NEW a, Known(a) # {}
  PROVE  Min(Known(a)) \in Known(a) /\ Min(Known(a)) \in Entries /\ Min(Known(a)) \in Nat
<1>1. Known(a) \subseteq Entries /\ Entries \subseteq Nat
  BY RouteAssumption DEF Known, Entries
<1>2. Min(Known(a)) \in Known(a)
  BY <1>1, MinNat
<1>3. QED  BY <1>1, <1>2

\* A step of the internet part moves one process, or none, or all of them from the boot on.
OneMoves(L) ==
  \/ UNCHANGED cont
  \/ \E p \in Procs, l \in L : Goes(p, l)
  \/ \E p \in Procs, c \in Conts(L) : Then(p, c)

LEMMA OneMovesTyped ==
  ASSUME NEW L, cont \in [Procs -> Conts(L)], OneMoves(L)
  PROVE  cont' \in [Procs -> Conts(L)]
<1>1. CASE \E p \in Procs, l \in L : Goes(p, l)
  BY <1>1, GoesTyped
<1>2. CASE \E p \in Procs, c \in Conts(L) : Then(p, c)
  BY <1>2, ThenTyped
<1>3. QED  BY <1>1, <1>2 DEF OneMoves

LEMMA RouteStepTyped ==
  ASSUME ContTyped, TableTyped, part = "internet", NEW p \in Procs, RouteStep(p)
  PROVE  /\ cont' \in [Procs -> Conts(Labels("internet"))]
         /\ atabsiz' \in 0 .. AR_TAB /\ atabnxt' \in Nat
<1> DEFINE L == Labels("internet")
<1>1. /\ {"user", "serve", "route", "turn", "insert", "advance", "rewind", "mark", "name", "zero", "found",
          "request", "ask", "await", "answered", "test", "gate"} \subseteq L
      /\ cont \in [Procs -> Conts(L)] /\ cont[p] \in Conts(L) /\ cont[p].try \in Nat
  BY DEF ContTyped, Labels, Conts
<1>2. Where(Home(p)) \in Conts(L)
  BY <1>1, WhereTyped DEF Home
<1>3. \A i, t \in Nat, l \in L :
        [cont EXCEPT ![p].ix = i, ![p].try = t, ![p].at = l] \in [Procs -> Conts(L)]
  BY <1>1 DEF Conts
<1>4. \A t \in Nat, l \in L : [cont EXCEPT ![p].try = t, ![p].at = l] \in [Procs -> Conts(L)]
  BY <1>1 DEF Conts
<1> HIDE DEF L
<1>5. CASE RouteTurn(p) \/ Found(p) \/ Mkarp(p) \/ Ask(p) \/ Answered(p) \/ Asked(p)
  <2>1. OneMoves(L)
    BY <1>1, <1>5 DEF RouteTurn, Found, Mkarp, Ask, Answered, Asked, OneMoves
  <2>2. UNCHANGED tableVars
    BY <1>5 DEF RouteTurn, Found, Mkarp, Ask, Answered, Asked
  <2>3. QED  BY <1>1, <2>1, <2>2, OneMovesTyped DEF L, TableTyped, tableVars
<1>6. CASE Getpath(p)
  <2>1. atabsiz' = atabsiz /\ atabnxt' = atabnxt
    BY <1>6 DEF Getpath, tableVars
  <2>2. CASE Leaves(p, Broadcast) \/ Goes(p, "insert")
    <3>1. OneMoves(L)
      BY <1>1, <1>2, <2>2 DEF OneMoves, Leaves
    <3>2. QED  BY <1>1, <2>1, <3>1, OneMovesTyped DEF L, TableTyped
  <2>3. CASE Known(cont[p].to) # {} /\ ~Leaves(p, Broadcast)
    <3> DEFINE i == Min(Known(cont[p].to))
    <3>1. i \in Nat
      BY <2>3, KnownEntry
    <3>2. cont' = [cont EXCEPT ![p].ix = i, ![p].try = 0, ![p].at = "found"]
      BY <1>6, <2>3 DEF Getpath
    <3> HIDE DEF i
    <3>4. QED  BY <1>1, <1>3, <2>1, <3>1, <3>2 DEF L, TableTyped
  <2>4. QED  BY <1>6, <2>2, <2>3 DEF Getpath
<1>7. CASE Insert(p)
  <2>1. atabnxt \in Nat /\ cont' = [cont EXCEPT ![p].ix = atabnxt, ![p].try = 0, ![p].at = "advance"]
    BY <1>7 DEF Insert, TableTyped
  <2>2. atabsiz' \in 0 .. AR_TAB /\ atabnxt' = atabnxt
    BY <1>7, CountTyped DEF Insert
  <2>3. QED  BY <1>1, <1>3, <2>1, <2>2 DEF L
<1>8. CASE TimesOut(p)
  <2> DEFINE t == cont[p].try + 1
             l == IF t < AR_RTRY THEN "request" ELSE "answered"
  <2>1. cont' = [cont EXCEPT ![p].try = t, ![p].at = l] /\ UNCHANGED tableVars
    BY <1>8 DEF TimesOut
  <2>2. t \in Nat /\ l \in L
    BY <1>1
  <2> HIDE DEF t, l
  <2>3. QED  BY <1>4, <2>1, <2>2 DEF L, TableTyped, tableVars
<1>9. CASE Test(p)
  <2>1. OneMoves(L) /\ UNCHANGED tableVars
    BY <1>1, <1>2, <1>9 DEF Test, Leaves, OneMoves
  <2>2. QED  BY <1>1, <2>1, OneMovesTyped DEF L, TableTyped, tableVars
<1>10. CASE Gate(p)
  <2>1. [Where("turn") EXCEPT !.to = Gateway, !.via = TRUE] \in Conts(L)
    BY <1>1, WhereTyped, RouteAssumption
  <2>2. OneMoves(L) /\ atabsiz' = atabsiz /\ atabnxt' = atabnxt
    BY <1>1, <1>10, <2>1 DEF Gate, OneMoves
  <2>3. QED  BY <1>1, <2>2, OneMovesTyped DEF L, TableTyped
<1>11. CASE Advance(p) \/ Rewind(p)
  <2>1. OneMoves(L)
    BY <1>1, <1>11 DEF Advance, Rewind, OneMoves
  <2>2. atabsiz' = atabsiz /\ atabnxt' \in Nat
    BY <1>11 DEF Advance, Rewind, TableTyped
  <2>3. QED  BY <1>1, <2>1, <2>2, OneMovesTyped DEF L, TableTyped
<1>12. CASE MarkAlloc(p) \/ CopyIad(p) \/ ClearEad(p)
  <2>1. OneMoves(L)
    BY <1>1, <1>12 DEF MarkAlloc, CopyIad, ClearEad, Fills, OneMoves
  <2>2. atabsiz' = atabsiz /\ atabnxt' = atabnxt
    BY <1>12 DEF MarkAlloc, CopyIad, ClearEad, Fills
  <2>3. QED  BY <1>1, <2>1, <2>2, OneMovesTyped DEF L, TableTyped
<1>13. QED
  BY <1>5, <1>6, <1>7, <1>8, <1>9, <1>10, <1>11, <1>12 DEF RouteStep

\* A program's call leaves its process with a packet to write, or in some wait, or at its end.
LEMMA DatagramMoves ==
  ASSUME ContTyped, part = "internet", NEW p \in Procs, DatagramStep(p)
  PROVE  \/ UNCHANGED cont
         \/ Goes(p, "route")
         \/ \E c \in Conts(Labels("internet")) : Then(p, c) /\ c.at \in {"user", "clear", "receive", "timed", "write"}
<1> DEFINE L == Labels("internet")
<1>1. /\ {"user", "clear", "receive", "timed", "write"} \subseteq L /\ cont[p].ix \in Nat
  BY DEF ContTyped, Labels, Conts
<1> HIDE DEF L
<1>2. \/ UNCHANGED cont \/ Goes(p, "route") \/ Then(p, Where("user"))
      \/ \E l \in {"clear", "receive", "timed"}, d \in Nat : Awaits(p, l, d)
      \/ \E a \in Hosts \cup {Broadcast, Nobody} : Then(p, [Where("write") EXCEPT !.to = a])
  <2>1. Devices \subseteq Nat /\ cont[p].ix \in Nat
    BY <1>1, DatagramAssumption DEF Devices
  <2>2. CASE \E u \in UdpPorts \cup {0} : Dgmopen(p, u)
    BY <2>2 DEF Dgmopen, routeVars
  <2>3. CASE \E d \in Devices : Dgclose(p, d) \/ DgcntlSetmode(p, d)
    BY <2>3 DEF Dgclose, DgcntlSetmode, routeVars
  <2>4. CASE \E d \in Devices : DgcntlClear(p, d) \/ Dgread(p, d)
    BY <2>1, <2>4 DEF DgcntlClear, Dgread, Receives
  <2>5. CASE \E d \in Devices, a \in Hosts \cup {Broadcast, Nobody} : Dgwrite(p, d, a)
    BY <2>5 DEF Dgwrite
  <2>6. CASE ClearsOn(p) \/ DgreadTimesOut(p) \/ DgreadOn(p) \/ Preceived(p) \/ DgwriteOn(p)
    BY <2>1, <2>6 DEF ClearsOn, DgreadTimesOut, DgreadOn, Preceived, DgwriteOn, Receives
  <2>7. QED  BY <2>2, <2>3, <2>4, <2>5, <2>6 DEF DatagramStep
<1> DEFINE Goal == \E c \in Conts(L) : Then(p, c) /\ c.at \in {"user", "clear", "receive", "timed", "write"}
<1>3. ASSUME Then(p, Where("user")) PROVE Goal
  BY <1>1, <1>3, WhereTyped
<1>4. ASSUME NEW l \in {"clear", "receive", "timed"}, NEW d \in Nat, Awaits(p, l, d) PROVE Goal
  <2> DEFINE c == [Where(l) EXCEPT !.ix = d]
  <2>1. l \in L
    BY <1>1
  <2>2. c \in Conts(L) /\ c.at = l /\ Then(p, c)
    BY <1>4, <2>1, WhereTyped DEF Awaits
  <2> HIDE DEF c
  <2>3. QED  BY <2>2
<1>5. ASSUME NEW a \in Hosts \cup {Broadcast, Nobody}, Then(p, [Where("write") EXCEPT !.to = a]) PROVE Goal
  <2> DEFINE c == [Where("write") EXCEPT !.to = a]
  <2>1. c \in Conts(L) /\ c.at = "write" /\ Then(p, c)
    BY <1>1, <1>5, WhereTyped
  <2> HIDE DEF c
  <2>2. QED  BY <2>1
<1>6. QED  BY <1>2, <1>3, <1>4, <1>5 DEF L

LEMMA InternetTyped ==
  ASSUME ContTyped, TableTyped, part = "internet", part' = part, InternetNext
  PROVE  ContTyped' /\ TableTyped'
<1> DEFINE L == Labels("internet")
<1>1. /\ {"boot", "rarp", "user", "serve", "echo", "route", "clear", "receive", "timed", "write"} \subseteq L
      /\ cont \in [Procs -> Conts(L)] /\ \A p \in Procs : cont[p].ix \in Nat /\ cont[p].try \in Nat
  BY DEF ContTyped, Labels, Conts
<1> HIDE DEF L
<1>2. SUFFICES /\ cont' \in [Procs -> Conts(L)] /\ icmpq' \in Seq(Hosts)
               /\ atabsiz' \in 0 .. AR_TAB /\ atabnxt' \in Nat
  BY DEF ContTyped, TableTyped, L
<1>3. CASE Sndrarp /\ UNCHANGED <<dgVars, inputs>>
  <2>1. OneMoves(L) /\ UNCHANGED <<tableVars, icmpq>>
    BY <1>1, <1>3, NetProcsAssumption DEF Sndrarp, OneMoves, dgVars
  <2>2. QED  BY <1>1, <2>1, OneMovesTyped DEF TableTyped, tableVars
<1>4. CASE RarpAnswered /\ UNCHANGED <<dgVars, inputs>>
  <2>1. cont' = [p \in Procs |-> Where(Home(p))] /\ UNCHANGED <<tableVars, icmpq>>
    BY <1>4 DEF RarpAnswered, dgVars
  <2>2. \A p \in Procs : Where(Home(p)) \in Conts(L)
    BY <1>1, WhereTyped DEF Home
  <2>3. QED  BY <2>1, <2>2 DEF TableTyped, tableVars
<1>5. CASE RarpTimesOut /\ UNCHANGED <<dgVars, inputs>>
  <2> DEFINE t == cont[netout].try + 1
  <2>1. /\ cont' = [cont EXCEPT ![netout].at = "boot", ![netout].try = t]
        /\ UNCHANGED <<tableVars, icmpq>>
    BY <1>5 DEF RarpTimesOut, dgVars
  <2>2. t \in Nat
    BY <1>1, NetProcsAssumption
  <2> HIDE DEF t
  <2>3. QED  BY <1>1, <2>1, <2>2, NetProcsAssumption DEF Conts, TableTyped, tableVars
<1>6. CASE \E p \in Procs : RouteStep(p) /\ UNCHANGED <<dgVars, inputs>>
  BY <1>6, RouteStepTyped DEF dgVars, TableTyped, L
<1>7. CASE RouteIn /\ Arrives /\ UNCHANGED dgVars
  <2>1. UNCHANGED <<cont, icmpq>>
    BY <1>7 DEF RouteIn, ArpRequestIn, ArpReplyIn, EntersBeyond, RarpReplyIn, dgVars
  <2>2. atabsiz' \in 0 .. AR_TAB /\ atabnxt' \in Nat
    <3>1. ASSUME NEW a, Learnt(a) PROVE atabsiz' \in 0 .. AR_TAB /\ atabnxt' \in Nat
      BY <3>1, EnteredTyped DEF Learnt, TableTyped
    <3>2. ASSUME RarpReplyIn PROVE atabsiz' \in 0 .. AR_TAB /\ atabnxt' \in Nat
      BY <3>2 DEF RarpReplyIn, tableVars, TableTyped
    <3>3. ASSUME NEW a, EntersBeyond(a) PROVE atabsiz' \in 0 .. AR_TAB /\ atabnxt' \in Nat
      BY <3>3 DEF EntersBeyond, TableTyped
    <3>4. QED  BY <1>7, <3>1, <3>2, <3>3 DEF RouteIn, ArpRequestIn, ArpReplyIn
  <2>3. QED  BY <1>1, <2>1, <2>2 DEF TableTyped
<1>8. CASE \E p \in Procs : DatagramStep(p)
  <2>1. PICK p \in Procs : DatagramStep(p)
    BY <1>8
  <2>2. UNCHANGED <<tableVars, icmpq>>
    BY <2>1 DEF DatagramStep, Dgmopen, Dgclose, DgcntlSetmode, DgcntlClear, ClearsOn, Dgread,
                DgreadTimesOut, DgreadOn, Preceived, Dgwrite, DgwriteOn, routeVars, routeOwn, dgVars
  <2>3. OneMoves(L)
    BY <1>1, <2>1, DatagramMoves DEF L, OneMoves
  <2>4. QED  BY <1>1, <2>2, <2>3, OneMovesTyped DEF TableTyped, tableVars
<1>9. CASE NetoutTakes
  <2>1. Head(icmpq) \in Hosts /\ Tail(icmpq) \in Seq(Hosts)
    BY <1>9 DEF NetoutTakes, TableTyped
  <2>2. OneMoves(L) /\ UNCHANGED tableVars
    BY <1>1, <1>9, <2>1, WhereTyped, NetProcsAssumption DEF NetoutTakes, OneMoves
  <2>3. QED  BY <1>1, <1>9, <2>1, <2>2, OneMovesTyped DEF NetoutTakes, TableTyped, tableVars
<1>10. CASE \E u \in UdpPorts : UdpIn(u)
  BY <1>1, <1>10 DEF UdpIn, TableTyped, tableVars
<1>11. CASE \E a \in Hosts : IcmpIn(a)
  BY <1>1, <1>11 DEF IcmpIn, TableTyped, tableVars
<1>12. CASE NetoutListens
  <2>1. OneMoves(L) /\ UNCHANGED <<tableVars, icmpq>>
    BY <1>1, <1>12, NetProcsAssumption DEF NetoutListens, OneMoves, routeOwn, dgVars
  <2>2. QED  BY <1>1, <2>1, OneMovesTyped DEF TableTyped, tableVars
<1>13. QED
  BY <1>3, <1>4, <1>5, <1>6, <1>7, <1>8, <1>9, <1>10, <1>11, <1>12 DEF InternetNext

LEMMA NetTyped == NetSpec => [](ContTyped /\ TableTyped)
<1>1. NetInit => ContTyped /\ TableTyped
  <2>1. ASSUME NetInit PROVE ContTyped /\ TableTyped
    <3>1. TableTyped
      BY <2>1, RouteAssumption DEF NetInit, InternetInit, RouteInit, TableTyped, Entries
    <3> DEFINE L == Labels(part)
    <3>2. \E f \in [Procs -> L] : cont = [p \in Procs |-> Where(f[p])]
      <4>1. CASE part = "internet"
        <5> DEFINE f == [p \in Procs |-> IF p = netout THEN "boot" ELSE "unborn"]
        <5>1. f \in [Procs -> L] /\ cont = [p \in Procs |-> Where(f[p])]
          BY <2>1, <4>1 DEF NetInit, Booting, Labels
        <5>2. QED  BY <5>1
      <4>2. CASE part # "internet"
        <5> DEFINE f == [p \in Procs |-> "user"]
        <5>1. f \in [Procs -> L] /\ cont = [p \in Procs |-> Where(f[p])]
          BY <2>1, <4>2 DEF NetInit, Labels
        <5>2. QED  BY <5>1
      <4>3. QED  BY <4>1, <4>2
    <3> HIDE DEF L
    <3>3. \A l \in L : Where(l) \in Conts(L)
      BY WhereTyped
    <3>4. cont \in [Procs -> Conts(L)]
      BY <3>2, <3>3
    <3>5. QED  BY <3>1, <3>4 DEF ContTyped, L
  <2>2. QED  BY <2>1
<1>2. ContTyped /\ TableTyped /\ [NetNext]_netVars => (ContTyped /\ TableTyped)'
  <2>1. SUFFICES ASSUME ContTyped, TableTyped, [NetNext]_netVars PROVE ContTyped' /\ TableTyped'
    OBVIOUS
  <2>2. CASE part = "ether" /\ EtherNext /\ UNCHANGED <<dgramOwn, rfOwn, nameVars, part>>
    BY <2>1, <2>2, EtherTyped DEF TableTyped, dgramOwn, routeOwn, tableVars, dgVars
  <2>3. CASE part = "internet" /\ InternetNext /\ part' = part
    BY <2>1, <2>3, InternetTyped
  <2>4. CASE part = "files" /\ RemoteNext /\ UNCHANGED <<etherOwn, dgramOwn, nameVars, part>>
    BY <2>1, <2>4, FilesTyped DEF TableTyped, dgramOwn, routeOwn, tableVars, dgVars
  <2>5. CASE UNCHANGED <<dgramOwn, cont, part>>
    BY <2>1, <2>5 DEF ContTyped, TableTyped, dgramOwn, routeOwn, tableVars, dgVars
  <2>6. QED  BY <2>1, <2>2, <2>3, <2>4, <2>5 DEF NetNext, netVars
<1>3. QED  BY <1>1, <1>2, PTL DEF NetSpec

------------------------------------------------------------------------------
(* Semaphores: netin, which is none of Procs, waits for buffers with the others. *)

All == Procs \cup {netin}
Sound(s) == s \in [ok : BOOLEAN, n : Int, q : Seq(All)] /\ s.ok /\ SemGood(s)

\* One process at most has the semaphore, of those in W (waiting or let go) and in H (let go).
Mutex(s, W, H) ==
  /\ Sound(s) /\ s.n <= 1 /\ ToSet(s.q) \subseteq W /\ W \cap H = {}
  /\ \A p, r \in (W \cup H) \ ToSet(s.q) : p = r
  /\ s.n = 1 => W \cup H = {}

LEMMA ContainsIn ==
  ASSUME NEW s, Sound(s), NEW p
  PROVE  Contains(s.q, p) <=> p \in ToSet(s.q)
<1>1. s.q \in Seq(All)
  BY DEF Sound
<1>2. QED  BY <1>1, SetOfList DEF Contains

LEMMA SoundFacts ==
  ASSUME NEW s, Sound(s)
  PROVE  /\ s.ok /\ s.n \in Int /\ s.q \in Seq(All) /\ IsInjective(s.q)
         /\ Len(s.q) = (IF s.n < 0 THEN -s.n ELSE 0)
         /\ s = [ok |-> s.ok, n |-> s.n, q |-> s.q]
         /\ s.n >= 0 => s.q = <<>> /\ ToSet(s.q) = {}
<1>1. /\ s.ok /\ s.n \in Int /\ s.q \in Seq(All) /\ IsInjective(s.q)
      /\ Len(s.q) = (IF s.n < 0 THEN -s.n ELSE 0)
      /\ s = [ok |-> s.ok, n |-> s.n, q |-> s.q]
  BY DEF Sound, SemGood
<1>2. s.n >= 0 => s.q = <<>> /\ ToSet(s.q) = {}
  BY <1>1, SetOfList
<1>3. QED  BY <1>1, <1>2

LEMMA WaitedSound ==
  ASSUME NEW s, Sound(s), NEW p \in All, p \notin ToSet(s.q)
  PROVE  /\ Sound(Waited(s, p)) /\ Waited(s, p).n = s.n - 1
         /\ ToSet(Waited(s, p).q) = IF s.n <= 0 THEN ToSet(s.q) \cup {p} ELSE {}
         /\ Blocks(s) <=> s.n <= 0
<1> DEFINE a == Append(s.q, p)
<1>1. /\ s.ok /\ s.n \in Int /\ s.q \in Seq(All) /\ IsInjective(s.q)
      /\ Len(s.q) = (IF s.n < 0 THEN -s.n ELSE 0)
      /\ s = [ok |-> s.ok, n |-> s.n, q |-> s.q]
      /\ s.n >= 0 => s.q = <<>> /\ ToSet(s.q) = {}
  BY SoundFacts
<1>2. /\ a \in Seq(All) /\ IsInjective(a) /\ Len(a) = Len(s.q) + 1
      /\ ToSet(a) = ToSet(s.q) \cup {p}
  BY <1>1, AppendDistinct
<1>3. Blocks(s) <=> s.n <= 0
  BY <1>1 DEF Blocks
<1>4. /\ s.n <= 0 => Waited(s, p) = [ok |-> TRUE, n |-> s.n - 1, q |-> a]
      /\ s.n > 0 => Waited(s, p) = [ok |-> TRUE, n |-> s.n - 1, q |-> s.q]
  <2> DEFINE b == IF Blocks(s) THEN a ELSE s.q
  <2>1. Waited(s, p) = [s EXCEPT !.n = s.n - 1, !.q = b]
    BY <1>1 DEF Waited
  <2>2. (s.n <= 0 => b = a) /\ (s.n > 0 => b = s.q)
    BY <1>1, <1>3
  <2> HIDE DEF a, b
  <2>3. Waited(s, p) = [ok |-> TRUE, n |-> s.n - 1, q |-> b]
    BY <1>1, <2>1
  <2>4. QED  BY <2>2, <2>3
<1> HIDE DEF a
<1>5. CASE s.n <= 0
  <2> DEFINE t == [ok |-> TRUE, n |-> s.n - 1, q |-> a]
  <2>1. Len(a) = -(s.n - 1) /\ s.n - 1 < 0
    BY <1>1, <1>2, <1>5
  <2>2. Sound(t)
    BY <1>1, <1>2, <2>1 DEF Sound, SemGood
  <2>3. Waited(s, p) = t /\ t.n = s.n - 1 /\ t.q = a
    BY <1>4, <1>5
  <2> HIDE DEF t
  <2>4. QED  BY <1>2, <1>3, <1>5, <2>2, <2>3
<1>6. CASE s.n > 0
  <2> DEFINE t == [ok |-> TRUE, n |-> s.n - 1, q |-> s.q]
  <2>1. Waited(s, p) = t
    BY <1>4, <1>6, <1>1
  <2>2. /\ t \in [ok : BOOLEAN, n : Int, q : Seq(All)] /\ t.ok /\ t.n = s.n - 1 /\ t.q = s.q
        /\ s.n \in Int /\ Len(s.q) = 0 /\ IsInjective(s.q) /\ ToSet(s.q) = {}
    BY <1>1, <1>6
  <2> HIDE DEF t
  <2>3. Sound(t)
    BY <1>6, <2>2 DEF Sound, SemGood
  <2>4. QED  BY <1>3, <1>6, <2>1, <2>2, <2>3
<1>7. QED  BY <1>1, <1>5, <1>6

LEMMA SignaledSound ==
  ASSUME NEW s, Sound(s)
  PROVE  /\ Sound(Signaled(s)) /\ Signaled(s).n = s.n + 1
         /\ s.n < 0 => \E h \in ToSet(s.q) : ToSet(Signaled(s).q) = ToSet(s.q) \ {h}
         /\ s.n >= 0 => ToSet(Signaled(s).q) = {} /\ ToSet(s.q) = {}
<1> DEFINE t == Tail(s.q)
<1>1. /\ s.ok /\ s.n \in Int /\ s.q \in Seq(All) /\ IsInjective(s.q)
      /\ Len(s.q) = (IF s.n < 0 THEN -s.n ELSE 0)
      /\ s = [ok |-> s.ok, n |-> s.n, q |-> s.q]
      /\ s.n >= 0 => s.q = <<>> /\ ToSet(s.q) = {}
  BY SoundFacts
<1>2. s.q # <<>> => /\ t \in Seq(All) /\ IsInjective(t) /\ Len(t) = Len(s.q) - 1
                    /\ Head(s.q) \in ToSet(s.q) /\ ToSet(t) = ToSet(s.q) \ {Head(s.q)}
  BY <1>1, HeadTailDistinct
<1>3. Signaled(s) = [ok |-> TRUE, n |-> s.n + 1, q |-> IF s.n < 0 THEN t ELSE s.q]
  BY <1>1 DEF Signaled, Frees
<1>4. s.n < 0 => s.q # <<>>
  BY <1>1
<1> HIDE DEF t
<1>5. CASE s.n < 0
  <2>1. Sound(Signaled(s)) /\ Signaled(s).n = s.n + 1 /\ Signaled(s).q = t
    BY <1>1, <1>2, <1>3, <1>4, <1>5 DEF Sound, SemGood
  <2>2. QED  BY <1>1, <1>2, <1>4, <1>5, <2>1
<1>6. CASE s.n >= 0
  BY <1>1, <1>3, <1>6 DEF Sound, SemGood
<1>7. QED  BY <1>1, <1>5, <1>6

LEMMA MutexNew == Mutex(Sem(1), {}, {})
<1>1. /\ Sem(1) = [ok |-> TRUE, n |-> 1, q |-> <<>>]
      /\ ToSet(<<>>) = {} /\ IsInjective(<<>>) /\ Len(<<>>) = 0 /\ <<>> \in Seq(All)
  BY DEF Sem, ToSet, IsInjective
<1> DEFINE t == [ok |-> TRUE, n |-> 1, q |-> <<>>]
<1>2. t \in [ok : BOOLEAN, n : Int, q : Seq(All)] /\ t.ok /\ t.n = 1 /\ t.q = <<>>
  BY <1>1
<1> HIDE DEF t
<1>3. Sound(t) /\ ToSet(t.q) = {}
  BY <1>1, <1>2 DEF Sound, SemGood
<1>4. Mutex(t, {}, {})
  BY <1>2, <1>3 DEF Mutex
<1>5. Sem(1) = t
  BY <1>1 DEF t
<1>6. QED  BY <1>4, <1>5

\* Who comes waits while somebody has it; who has it may let go.
LEMMA MutexWaited ==
  ASSUME NEW s, NEW W, NEW H, Mutex(s, W, H), NEW p \in Procs, p \notin W \cup H
  PROVE  /\ Mutex(Waited(s, p), W \cup {p}, H)
         /\ ~Blocks(s) => Mutex(Waited(s, p), W, H \cup {p})
<1>1. Sound(s) /\ p \in All /\ p \notin ToSet(s.q) /\ s.n \in Int
  BY SoundFacts DEF Mutex, All
<1>2. /\ Sound(Waited(s, p)) /\ Waited(s, p).n = s.n - 1
      /\ ToSet(Waited(s, p).q) = IF s.n <= 0 THEN ToSet(s.q) \cup {p} ELSE {}
      /\ Blocks(s) <=> s.n <= 0
  BY <1>1, WaitedSound
<1>3. CASE s.n <= 0
  BY <1>1, <1>2, <1>3 DEF Mutex
<1>4. CASE s.n = 1
  BY <1>1, <1>2, <1>4 DEF Mutex
<1>5. QED  BY <1>1, <1>3, <1>4 DEF Mutex

LEMMA MutexSignaled ==
  ASSUME NEW s, NEW W, NEW H, Mutex(s, W, H), NEW p \in (W \cup H) \ ToSet(s.q)
  PROVE  Mutex(Signaled(s), W \ {p}, H \ {p})
<1>1. Sound(s) /\ s.n \in Int /\ s.n < 1
  BY SoundFacts DEF Mutex
<1>2. /\ Sound(Signaled(s)) /\ Signaled(s).n = s.n + 1
      /\ s.n < 0 => \E h \in ToSet(s.q) : ToSet(Signaled(s).q) = ToSet(s.q) \ {h}
      /\ s.n >= 0 => ToSet(Signaled(s).q) = {} /\ ToSet(s.q) = {}
  BY <1>1, SignaledSound
<1>3. CASE s.n < 0
  <2>1. PICK h \in ToSet(s.q) : ToSet(Signaled(s).q) = ToSet(s.q) \ {h}
    BY <1>2, <1>3
  <2>2. h # p
    BY <2>1
  <2>3. Signaled(s).n <= 0
    BY <1>1, <1>2, <1>3
  <2> DEFINE Q == ToSet(s.q)
             R == ToSet(Signaled(s).q)
  <2>4. Q \subseteq W /\ W \cap H = {} /\ \A a, b \in (W \cup H) \ Q : a = b
    BY DEF Mutex
  <2>5. p \in (W \cup H) \ Q /\ R = Q \ {h} /\ h \in Q
    BY <2>1
  <2> HIDE DEF Q, R
  <2>6. R \subseteq W \ {p} /\ (W \ {p}) \cap (H \ {p}) = {}
    BY <2>4, <2>5
  <2>7. \A a \in ((W \ {p}) \cup (H \ {p})) \ R : a = h
    BY <2>4, <2>5
  <2>8. Signaled(s).n # 1 /\ Signaled(s).n <= 1
    BY <1>1, <1>2, <2>3
  <2>9. QED  BY <1>2, <2>6, <2>7, <2>8 DEF Mutex, R
<1>4. CASE s.n = 0
  BY <1>1, <1>2, <1>4 DEF Mutex
<1>5. QED  BY <1>1, <1>3, <1>4

\* Who has it may go from one place to another.
LEMMA MutexMoves ==
  ASSUME NEW s, NEW W, NEW H, Mutex(s, W, H), NEW V, NEW I,
         V \cup I = W \cup H, V \cap I = {}, ToSet(s.q) \subseteq V
  PROVE  Mutex(s, V, I)
BY DEF Mutex

------------------------------------------------------------------------------
(* The reader and the transmitter. *)

AtAny(X) == {p \in Procs : cont[p].at \in X}

LEMMA AtAnyMoves ==
  ASSUME NEW L, cont \in [Procs -> Conts(L)], NEW p \in Procs, NEW l \in L, NEW X,
         Goes(p, l) \/ \E c \in Conts(L) : Then(p, c) /\ c.at = l
  PROVE  /\ l \in X => AtAny(X)' = AtAny(X) \cup {p}
         /\ l \notin X => AtAny(X)' = AtAny(X) \ {p}
<1>1. cont'[p].at = l /\ \A q \in Procs \ {p} : cont'[q] = cont[q]
  BY GoesTyped, ThenTyped
<1>2. QED  BY <1>1 DEF AtAny

ReaderInv ==
  /\ part = "ether" => Mutex(etrsem, AtAny({"rcvturn"}), AtAny({"read", "awake", "asleep"}))
  /\ \A p \in Procs : At(p, "asleep") => etrqhead = EMPTY /\ etrpid = p
SenderInv ==
  /\ Sound(etwsem)
  /\ part # "ether" => etwsem.n = 1 /\ xmit = "none"
  /\ part = "ether" => ToSet(etwsem.q) \subseteq AtAny({"xmtturn"})
  /\ etwsem.n < 1 => xmit # "none" \/ AtAny({"xmtturn"}) \ ToSet(etwsem.q) # {}
  /\ xmit \in {"done", "error"} => tint

\* The interrupt resumes the sleeper when it brings it a packet.
LEMMA ReceiveReader ==
  ASSUME ContTyped, part = "ether", part' = part, ReaderInv, ReceiveInterrupt
  PROVE  ReaderInv'
<1> DEFINE taken == Taken(Examined)
           L == Labels("ether")
<1>1. /\ Linked(taken) /\ etrsem' = etrsem
      /\ IF taken # <<>> /\ etrpid # Nobody /\ At(etrpid, "asleep")
         THEN Goes(etrpid, "awake") /\ etrpid' = Nobody
         ELSE UNCHANGED <<cont, etrpid>>
  BY DEF ReceiveInterrupt
<1>2. cont \in [Procs -> Conts(L)] /\ "awake" \in L
  BY DEF ContTyped, Labels
<1> HIDE DEF taken, L
<1>3. CASE taken = <<>>
  <2>1. etrqhead' = etrqhead
    BY <1>1, <1>3 DEF Linked
  <2>2. QED  BY <1>1, <1>3, <2>1 DEF ReaderInv, At, AtAny
<1>4. CASE taken # <<>> /\ \E p \in Procs : At(p, "asleep")
  <2>1. PICK p \in Procs : At(p, "asleep") /\ etrpid = p
    BY <1>4 DEF ReaderInv
  <2>2. Goes(p, "awake") /\ p # Nobody
    BY <1>1, <1>4, <2>1, NetProcsAssumption
  <2>3. AtAny({"rcvturn"})' = AtAny({"rcvturn"}) \ {p}
    BY <1>2, <2>2, AtAnyMoves
  <2>4. AtAny({"read", "awake", "asleep"})' = AtAny({"read", "awake", "asleep"}) \cup {p}
    BY <1>2, <2>2, AtAnyMoves
  <2>5. p \notin AtAny({"rcvturn"}) /\ p \in AtAny({"read", "awake", "asleep"})
    BY <2>1 DEF AtAny, At
  <2>6. AtAny({"rcvturn"})' = AtAny({"rcvturn"})
    BY <2>3, <2>5
  <2>7. AtAny({"read", "awake", "asleep"})' = AtAny({"read", "awake", "asleep"})
    BY <2>4, <2>5
  <2>8. \A q \in Procs : ~At(q, "asleep")'
    BY <1>2, <2>1, <2>2, GoesTyped DEF At, ReaderInv
  <2>9. QED  BY <1>1, <2>6, <2>7, <2>8 DEF ReaderInv, At
<1>5. CASE taken # <<>> /\ ~ \E p \in Procs : At(p, "asleep")
  <2>1. UNCHANGED cont
    <3>1. CASE etrpid \in Procs
      BY <1>1, <1>5, <3>1
    <3>2. CASE etrpid \notin Procs
      BY <1>1, <1>2, <3>2 DEF Goes
    <3>3. QED  BY <3>1, <3>2
  <2>2. QED  BY <1>1, <1>5, <2>1 DEF ReaderInv, At, AtAny
<1>6. QED  BY <1>3, <1>4, <1>5

\* The one that has the turn finds the queue empty and sleeps, or gives the turn away.
LEMMA EthreadReader ==
  ASSUME ContTyped, part = "ether", part' = part, ReaderInv, NEW p \in Procs, Ethread(p) \/ EthreadOn(p)
  PROVE  ReaderInv'
<1> DEFINE L == Labels("ether")
           W == AtAny({"rcvturn"})
           H == AtAny({"read", "awake", "asleep"})
<1>1. cont \in [Procs -> Conts(L)] /\ {"rcvturn", "read", "asleep", "user"} \subseteq L
  BY DEF ContTyped, Labels
<1>2. Mutex(etrsem, W, H) /\ Sound(etrsem)
  BY DEF ReaderInv, Mutex
<1> HIDE DEF L
<1>3. \A l \in L : Goes(p, l) =>
        /\ W' = (IF l = "rcvturn" THEN W \cup {p} ELSE W \ {p})
        /\ H' = (IF l \in {"read", "awake", "asleep"} THEN H \cup {p} ELSE H \ {p})
        /\ \A q \in Procs : At(q, "asleep")' <=> IF q = p THEN l = "asleep" ELSE At(q, "asleep")
  <2>1. SUFFICES ASSUME NEW l \in L, Goes(p, l)
        PROVE  /\ W' = (IF l = "rcvturn" THEN W \cup {p} ELSE W \ {p})
               /\ H' = (IF l \in {"read", "awake", "asleep"} THEN H \cup {p} ELSE H \ {p})
               /\ \A q \in Procs : At(q, "asleep")' <=> IF q = p THEN l = "asleep" ELSE At(q, "asleep")
    OBVIOUS
  <2>2. cont'[p].at = l /\ \A q \in Procs \ {p} : cont'[q] = cont[q]
    BY <1>1, <2>1, GoesTyped
  <2>3. QED  BY <2>2 DEF AtAny, At
<1>4. CASE Ethread(p)
  <2>1. /\ At(p, "user") /\ etrsem' = Waited(etrsem, p)
        /\ Goes(p, IF Blocks(etrsem) THEN "rcvturn" ELSE "read")
        /\ UNCHANGED <<etrqhead, etrpid>>
    BY <1>4 DEF Ethread, ringVars
  <2>2. p \notin W \cup H /\ W \ {p} = W /\ H \ {p} = H
    BY <2>1 DEF AtAny, At
  <2>3. /\ Mutex(etrsem', W \cup {p}, H)
        /\ ~Blocks(etrsem) => Mutex(etrsem', W, H \cup {p})
    BY <1>2, <2>1, <2>2, MutexWaited
  <2>4. IF Blocks(etrsem) THEN W' = W \cup {p} /\ H' = H ELSE W' = W /\ H' = H \cup {p}
    BY <1>1, <1>3, <2>1, <2>2
  <2>5. \A q \in Procs : At(q, "asleep")' => At(q, "asleep")
    BY <1>1, <1>3, <2>1
  <2> HIDE DEF W, H
  <2>6. Mutex(etrsem, W, H)'
    BY <2>3, <2>4
  <2>7. QED  BY <2>1, <2>5, <2>6 DEF ReaderInv, W, H
<1>5. CASE EthreadOn(p)
  <2>1. At(p, "read") \/ At(p, "awake") \/ (At(p, "rcvturn") /\ ~Contains(etrsem.q, p))
    BY <1>5 DEF EthreadOn
  <2>2. p \in (W \cup H) \ ToSet(etrsem.q)
    BY <1>2, <2>1, ContainsIn DEF AtAny, At, Mutex
  <2>3. \A q \in Procs : At(q, "asleep") => q = p
    <3>1. SUFFICES ASSUME NEW q \in Procs, At(q, "asleep") PROVE q = p
      OBVIOUS
    <3>2. q \in (W \cup H) \ ToSet(etrsem.q)
      BY <1>2, <3>1 DEF AtAny, At, Mutex
    <3>3. QED  BY <1>2, <2>2, <3>2 DEF Mutex
  <2>4. CASE etrqhead = EMPTY
    <3>1. etrpid' = p /\ Goes(p, "asleep") /\ UNCHANGED <<etrqhead, etrsem>>
      BY <1>5, <2>4 DEF EthreadOn
    <3>2. W' = W \ {p} /\ H' = H \cup {p}
      BY <1>1, <1>3, <3>1
    <3>3. \A q \in Procs : At(q, "asleep")' => q = p
      BY <1>1, <1>3, <2>3, <3>1
    <3>4. /\ W' \cup H' = W \cup H /\ W' \cap H' = {} /\ ToSet(etrsem.q) \subseteq W'
      BY <1>2, <2>2, <3>2 DEF Mutex
    <3> HIDE DEF W, H
    <3>5. Mutex(etrsem, W', H')
      BY <1>2, <3>4, MutexMoves
    <3>6. Mutex(etrsem, W, H)'
      BY <3>1, <3>5
    <3>7. QED  BY <2>4, <3>1, <3>3, <3>6 DEF ReaderInv, W, H
  <2>5. CASE etrqhead # EMPTY
    <3>1. etrsem' = Signaled(etrsem) /\ Goes(p, "user")
      BY <1>5, <2>5 DEF EthreadOn
    <3>2. W' = W \ {p} /\ H' = H \ {p}
      BY <1>1, <1>3, <3>1
    <3>3. \A q \in Procs : ~At(q, "asleep")'
      BY <1>1, <1>3, <2>3, <3>1
    <3> HIDE DEF W, H
    <3>4. Mutex(etrsem', W \ {p}, H \ {p})
      BY <1>2, <2>2, <3>1, MutexSignaled
    <3>5. Mutex(etrsem, W, H)'
      BY <3>2, <3>4
    <3>6. QED  BY <3>3, <3>5 DEF ReaderInv, W, H
  <2>6. QED  BY <2>4, <2>5
<1>6. QED  BY <1>4, <1>5

LEMMA ReaderStep ==
  ASSUME ContTyped, part = "ether", part' = part, ReaderInv, EtherNext
  PROVE  ReaderInv'
<1> DEFINE L == Labels("ether")
           W == AtAny({"rcvturn"})
           H == AtAny({"read", "awake", "asleep"})
<1>1. cont \in [Procs -> Conts(L)] /\ {"user", "awake", "xmtturn"} \subseteq L
  BY DEF ContTyped, Labels
<1> HIDE DEF L
<1>2. CASE FrameArrives \/ PacketSent \/ TransmitInterrupt
  <2>1. UNCHANGED <<etrsem, etrqhead, etrpid, cont>>
    BY <1>2 DEF FrameArrives, PacketSent, TransmitInterrupt, ringVars
  <2>2. QED  BY <2>1 DEF ReaderInv, AtAny, At
<1>3. CASE ReceiveInterrupt
  BY <1>3, ReceiveReader
<1>4. CASE \E p \in Procs : Ethread(p) \/ EthreadOn(p)
  BY <1>4, EthreadReader
<1>5. ASSUME NEW p \in Procs, Resumed(p) \/ Ethwrite(p) \/ EthwriteOn(p) PROVE ReaderInv'
  <2>1. UNCHANGED <<etrsem, etrqhead, etrpid>>
    BY <1>5 DEF Resumed, Ethwrite, EthwriteOn, ringVars
  <2>2. \/ UNCHANGED cont
        \/ At(p, "asleep") /\ Goes(p, "awake")
        \/ At(p, "user") /\ Goes(p, "xmtturn")
        \/ At(p, "xmtturn") /\ Goes(p, "user")
    BY <1>5 DEF Resumed, Ethwrite, EthwriteOn
  <2>3. CASE UNCHANGED cont
    BY <2>1, <2>3 DEF ReaderInv, AtAny, At
  <2>4. CASE ~UNCHANGED cont
    <3>1. PICK l \in {"user", "awake", "xmtturn"} : Goes(p, l)
      BY <2>2, <2>4
    <3>2. cont'[p].at = l /\ \A q \in Procs \ {p} : cont'[q] = cont[q]
      BY <1>1, <3>1, GoesTyped
    <3>3. \/ cont[p].at = "asleep" /\ cont'[p].at = "awake"
          \/ cont[p].at = "user" /\ cont'[p].at = "xmtturn"
          \/ cont[p].at = "xmtturn" /\ cont'[p].at = "user"
      <4>1. CASE At(p, "asleep") /\ Goes(p, "awake")
        BY <1>1, <4>1, GoesTyped DEF At
      <4>2. CASE At(p, "user") /\ Goes(p, "xmtturn")
        BY <1>1, <4>2, GoesTyped DEF At
      <4>3. CASE At(p, "xmtturn") /\ Goes(p, "user")
        BY <1>1, <4>3, GoesTyped DEF At
      <4>4. QED  BY <2>2, <2>4, <4>1, <4>2, <4>3
    <3>4. W' = W /\ H' = H
      BY <3>2, <3>3 DEF AtAny
    <3>5. \A q \in Procs : At(q, "asleep")' => At(q, "asleep")
      BY <3>2, <3>3 DEF At
    <3>6. QED  BY <2>1, <3>4, <3>5 DEF ReaderInv
  <2>5. QED  BY <2>3, <2>4
<1>6. QED  BY <1>2, <1>3, <1>4, <1>5 DEF EtherNext

\* The transmitter is taken, or somebody has been let go to take it, as long as the count is
\* below 1: whoever frees it signals.
LEMMA SenderStep ==
  ASSUME ContTyped, part = "ether", part' = part, SenderInv, EtherNext
  PROVE  SenderInv'
<1> DEFINE L == Labels("ether")
           W == AtAny({"xmtturn"})
           Q == ToSet(etwsem.q)
<1>1. cont \in [Procs -> Conts(L)] /\ {"user", "rcvturn", "read", "asleep", "awake", "xmtturn"} \subseteq L
  BY DEF ContTyped, Labels
<1>2. /\ Sound(etwsem) /\ Q \subseteq W /\ etwsem.n \in Int
      /\ etwsem.n < 1 => xmit # "none" \/ W \ Q # {}
      /\ xmit \in {"done", "error"} => tint
  BY SoundFacts DEF SenderInv
<1> HIDE DEF L
<1>3. CASE UNCHANGED <<etwsem, xmit, tint>> /\ W' = W
  BY <1>2, <1>3 DEF SenderInv
<1>4. CASE FrameArrives
  BY <1>3, <1>4 DEF FrameArrives, AtAny, sendVars
<1>5. CASE PacketSent
  <2>1. etwsem' = etwsem /\ W' = W /\ tint' = TRUE /\ xmit' # "none"
    BY <1>5 DEF PacketSent, AtAny, sendVars
  <2>2. QED  BY <1>2, <2>1 DEF SenderInv
<1>6. CASE ReceiveInterrupt
  <2>1. UNCHANGED <<etwsem, xmit, tint>>
    BY <1>6 DEF ReceiveInterrupt, sendVars
  <2>2. UNCHANGED cont \/ (At(etrpid, "asleep") /\ Goes(etrpid, "awake"))
    BY <1>6 DEF ReceiveInterrupt
  <2>3. W' = W
    <3>1. CASE UNCHANGED cont
      BY <3>1 DEF AtAny
    <3>2. CASE etrpid \in Procs /\ At(etrpid, "asleep") /\ Goes(etrpid, "awake")
      <4>1. cont'[etrpid].at = "awake" /\ \A q \in Procs \ {etrpid} : cont'[q] = cont[q]
        BY <1>1, <3>2, GoesTyped
      <4>2. QED  BY <3>2, <4>1 DEF AtAny, At
    <3>3. CASE etrpid \notin Procs /\ Goes(etrpid, "awake")
      BY <1>1, <3>3 DEF AtAny, Goes
    <3>4. QED  BY <2>2, <3>1, <3>2, <3>3
  <2>4. QED  BY <1>3, <2>1, <2>3
<1>7. CASE TransmitInterrupt
  <2>1. /\ W' = W /\ xmit' \in {"own", "none"}
        /\ IF xmit' = "own" THEN etwsem' = etwsem ELSE etwsem' = Signaled(etwsem)
    BY <1>7 DEF TransmitInterrupt, AtAny
  <2>2. CASE xmit' = "own"
    BY <1>2, <2>1, <2>2 DEF SenderInv
  <2>3. CASE xmit' # "own"
    <3>1. /\ Sound(etwsem') /\ etwsem'.n = etwsem.n + 1
          /\ etwsem.n < 0 => \E h \in Q : ToSet(etwsem'.q) = Q \ {h}
          /\ etwsem.n >= 0 => ToSet(etwsem'.q) = {}
      BY <1>2, <2>1, <2>3, SignaledSound
    <3>2. ToSet(etwsem'.q) \subseteq W /\ (etwsem'.n < 1 => W \ ToSet(etwsem'.q) # {})
      <4>1. CASE etwsem.n < 0
        <5>1. PICK h \in Q : ToSet(etwsem'.q) = Q \ {h}
          BY <3>1, <4>1
        <5> HIDE DEF Q, W
        <5>2. QED  BY <1>2, <5>1
      <4>2. CASE ~ (etwsem.n < 0)
        BY <1>2, <3>1, <4>2
      <4>3. QED  BY <4>1, <4>2
    <3>3. QED  BY <2>1, <2>3, <3>1, <3>2 DEF SenderInv
  <2>4. QED  BY <2>2, <2>3
<1>8. ASSUME NEW p \in Procs, Ethread(p) \/ EthreadOn(p) \/ Resumed(p) PROVE SenderInv'
  <2>1. UNCHANGED <<etwsem, xmit, tint>> /\ cont[p].at # "xmtturn"
    BY <1>8 DEF Ethread, EthreadOn, Resumed, chipVars, sendVars, At
  <2>2. \E l \in {"rcvturn", "read", "asleep", "user", "awake"} : Goes(p, l)
    BY <1>8 DEF Ethread, EthreadOn, Resumed
  <2>3. cont'[p].at # "xmtturn" /\ \A q \in Procs \ {p} : cont'[q] = cont[q]
    BY <1>1, <2>2, GoesTyped
  <2>4. W' = W
    BY <2>1, <2>3 DEF AtAny
  <2>5. QED  BY <1>3, <2>1, <2>4
<1>9. ASSUME NEW p \in Procs, Ethwrite(p) PROVE SenderInv'
  <2>1. /\ At(p, "user") /\ etwsem' = Waited(etwsem, p) /\ tint' = tint
        /\ IF Blocks(etwsem) THEN Goes(p, "xmtturn") /\ UNCHANGED xmit ELSE xmit' = "own" /\ UNCHANGED cont
    BY <1>9 DEF Ethwrite
  <2>2. p \notin W /\ p \in All
    BY <2>1 DEF At, AtAny, All
  <2>3. /\ Sound(etwsem') /\ etwsem'.n = etwsem.n - 1
        /\ ToSet(etwsem'.q) = IF etwsem.n <= 0 THEN Q \cup {p} ELSE {}
        /\ Blocks(etwsem) <=> etwsem.n <= 0
    BY <1>2, <2>1, <2>2, WaitedSound
  <2>4. CASE etwsem.n <= 0
    <3>1. W' = W \cup {p} /\ xmit' = xmit
      BY <1>1, <2>1, <2>3, <2>4, AtAnyMoves
    <3>2. ToSet(etwsem'.q) = Q \cup {p}
      BY <2>3, <2>4
    <3>3. W \ Q # {} => W' \ ToSet(etwsem'.q) # {}
      BY <2>2, <3>1, <3>2
    <3>4. etwsem.n < 1
      BY <1>2, <2>4
    <3>5. QED  BY <1>2, <2>1, <2>3, <3>1, <3>2, <3>3, <3>4 DEF SenderInv
  <2>5. CASE ~ (etwsem.n <= 0)
    <3>1. xmit' = "own" /\ ToSet(etwsem'.q) = {}
      BY <2>1, <2>3, <2>5
    <3>2. QED  BY <2>3, <3>1 DEF SenderInv
  <2>6. QED  BY <2>4, <2>5
<1>10. ASSUME NEW p \in Procs, EthwriteOn(p) PROVE SenderInv'
  <2>1. At(p, "xmtturn") /\ ~Contains(etwsem.q, p) /\ xmit' = "own" /\ Goes(p, "user") /\ etwsem' = etwsem
    BY <1>10 DEF EthwriteOn
  <2>2. W' = W \ {p}
    BY <1>1, <2>1, AtAnyMoves
  <2>3. p \notin Q
    BY <1>2, <2>1, ContainsIn
  <2>4. QED  BY <1>2, <2>1, <2>2, <2>3 DEF SenderInv
<1>11. QED
  BY <1>4, <1>5, <1>6, <1>7, <1>8, <1>9, <1>10 DEF EtherNext

LEMMA ReaderSenderHold == NetSpec => [](ReaderInv /\ SenderInv)
<1>1. NetInit /\ ContTyped => ReaderInv /\ SenderInv
  <2>1. SUFFICES ASSUME NetInit, ContTyped PROVE ReaderInv /\ SenderInv
    OBVIOUS
  <2>2. /\ etrsem = Sem(1) /\ etwsem = Sem(1) /\ xmit = "none" /\ etrqhead = EMPTY
    BY <2>1 DEF NetInit, EtherInit
  <2>3. Sound(Sem(1)) /\ Sem(1).n = 1 /\ ToSet(Sem(1).q) = {}
    <3>1. Sound(Sem(1))
      BY MutexNew DEF Mutex
    <3>2. Sem(1).n = 1
      BY DEF Sem
    <3>3. Sem(1).q = <<>> /\ ToSet(<<>>) = {}
      BY DEF Sem, ToSet
    <3>4. QED  BY <3>1, <3>2, <3>3
  <2>4. \A p \in Procs : cont[p].at \in {"user", "boot", "unborn"}
    BY <2>1 DEF NetInit, Booting, Where
  <2>5. AtAny({"rcvturn"}) = {} /\ AtAny({"read", "awake", "asleep"}) = {} /\ AtAny({"xmtturn"}) = {}
    BY <2>4 DEF AtAny
  <2>6. \A p \in Procs : ~At(p, "asleep")
    BY <2>4 DEF At
  <2>7. ReaderInv
    BY <2>2, <2>5, <2>6, MutexNew DEF ReaderInv
  <2>8. SenderInv
    BY <2>2, <2>3, <2>5 DEF SenderInv
  <2>9. QED  BY <2>7, <2>8
<1>2. /\ ContTyped /\ TableTyped /\ ReaderInv /\ SenderInv /\ [NetNext]_netVars
      /\ ContTyped' /\ TableTyped'
      => (ReaderInv /\ SenderInv)'
  <2>1. SUFFICES ASSUME ContTyped, TableTyped, ReaderInv, SenderInv, [NetNext]_netVars, ContTyped', TableTyped'
                 PROVE  ReaderInv' /\ SenderInv'
    OBVIOUS
  <2>2. CASE part = "ether" /\ EtherNext /\ part' = part
    BY <2>1, <2>2, ReaderStep, SenderStep
  <2>3. CASE part # "ether" /\ UNCHANGED <<etherOwn, part>>
    <3>1. \A p \in Procs : cont'[p].at # "asleep"
      BY <2>1, <2>3 DEF ContTyped, Labels, Conts
    <3>2. UNCHANGED <<etwsem, xmit, tint>>
      BY <2>3 DEF etherOwn, sendVars, chipVars
    <3>3. QED  BY <2>1, <2>3, <3>1, <3>2 DEF ReaderInv, SenderInv, At
  <2>4. CASE UNCHANGED <<etherOwn, cont, part>>
    <3>1. UNCHANGED <<etrqhead, etrpid, etrsem, etwsem, xmit, tint, cont, part>>
      BY <2>4 DEF etherOwn, ringVars, sendVars, chipVars
    <3>2. QED  BY <2>1, <3>1 DEF ReaderInv, SenderInv, At, AtAny
  <2>5. QED  BY <2>1, <2>2, <2>3, <2>4 DEF NetNext, netVars
<1>3. QED  BY <1>1, <1>2, NetTyped, PTL DEF NetSpec

\* Nobody sleeps over a packet, no frame lies in the ring without an interrupt to come, nobody
\* waits for a transmitter that is free, and a packet that was sent, or not, is followed by an
\* interrupt (ethinter, ethread, ethwrite).
THEOREM EtherDueCorrect == NetSpec => []EtherDue
<1>1. ReaderInv /\ SenderInv /\ RingInv => EtherDue
  <2>1. SUFFICES ASSUME ReaderInv, SenderInv, RingInv PROVE EtherDue
    OBVIOUS
  <2>2. ~skewed /\ Unexamined # <<>> => rint
    <3>1. SUFFICES ASSUME ~skewed, Unexamined # <<>> PROVE rint
      OBVIOUS
    <3>2. PICK x \in Nat : Counts(x) /\ Buffers(x)
      BY <2>1, <3>1 DEF RingInv
    <3>3. Unexamined = [i \in 1 .. arrived - x |-> x + i]
      BY <3>2, UnexaminedFrames
    <3>4. x # arrived
      BY <3>1, <3>2, <3>3 DEF Counts
    <3>5. QED  BY <3>2, <3>4 DEF Counts
  <2>3. etwsem.n < 1 => xmit # "none" \/ \E p \in Procs : At(p, "xmtturn") /\ ~Contains(etwsem.q, p)
    BY <2>1, ContainsIn DEF SenderInv, AtAny, At
  <2>4. QED  BY <2>1, <2>2, <2>3 DEF EtherDue, ReaderInv, SenderInv
<1>2. QED  BY <1>1, RingHolds, ReaderSenderHold, PTL

------------------------------------------------------------------------------
(* Datagram devices and their queues. *)

DeviceTable ==
  [Devices -> [used : BOOLEAN, timed : BOOLEAN, netq : Devices, lport : Nat, opener : Procs \cup {Nobody}]]
QueueTable ==
  [Devices -> [valid : BOOLEAN, uport : Nat \cup {Unbound}, pid : Procs \cup {Nobody}, queued : Nat]]
DgramTyped == dgtab \in DeviceTable /\ netqs \in QueueTable /\ nxtprt \in Nat

\* The waits with a device, which stays the process's own.
Owning == {"clear", "receive", "timed"}
OwnersInv ==
  part = "internet" =>
    \A p \in Procs : cont[p].at \in Owning => cont[p].ix \in Devices /\ Opened(p, cont[p].ix)
DgramInv == DgramTyped /\ DevicesApart /\ OwnersInv

\* A step that changes at most the packets and the reader of queue n.
OnlyQueue(n) ==
  /\ netqs' \in QueueTable
  /\ \A m \in Devices : /\ netqs'[m].valid = netqs[m].valid /\ netqs'[m].uport = netqs[m].uport
                        /\ m # n => netqs'[m] = netqs[m]

\* Of the Ndg + 1 ports from nxtprt on one is free.
LEMMA PortFree ==
  ASSUME DgramTyped
  PROVE  /\ Udpnxtp \in Nat /\ BoundTo(Udpnxtp) = {}
         /\ nxtprt <= Udpnxtp
<1> DEFINE U == nxtprt .. nxtprt + Ndg
           T == {u \in U : BoundTo(u) = {}}
<1>1. Ndg \in Nat /\ nxtprt \in Nat /\ U \subseteq Nat
  BY DatagramAssumption DEF DgramTyped
<1>2. T # {}
  <2>1. SUFFICES ASSUME \A u \in U : BoundTo(u) # {} PROVE FALSE
    OBVIOUS
  <2> DEFINE f == [u \in U |-> CHOOSE n \in Devices : n \in BoundTo(u)]
  <2>2. \A u \in U : f[u] \in Devices /\ f[u] \in BoundTo(u)
    <3>1. \A u \in U : \E n \in Devices : n \in BoundTo(u)
      BY <2>1 DEF BoundTo
    <3>2. QED  BY <3>1
  <2>3. f \in [U -> Devices]
    BY <2>2
  <2>4. IsFiniteSet(U) /\ Cardinality(U) = Ndg + 1
    BY <1>1, FS_Interval
  <2>5. IsFiniteSet(Devices) /\ Cardinality(Devices) = Ndg
    <3>1. IsFiniteSet(0 .. Ndg - 1) /\ Cardinality(0 .. Ndg - 1) = IF 0 > Ndg - 1 THEN 0 ELSE Ndg - 1 - 0 + 1
      BY <1>1, FS_Interval
    <3>2. QED  BY <1>1, <3>1 DEF Devices
  <2> HIDE DEF f, U
  <2>6. \E x, y \in U : x # y /\ f[x] = f[y]
    <3>1. Cardinality(Devices) < Cardinality(U)
      BY <1>1, <2>4, <2>5
    <3> HIDE DEF Devices
    <3>2. QED  BY ONLY <2>3, <2>4, <2>5, <3>1, FS_PigeonHole
  <2>7. QED  BY <2>2, <2>6 DEF BoundTo
<1>3. Udpnxtp = Min(T)
  BY DEF Udpnxtp
<1>4. T \subseteq Nat
  BY <1>1
<1> HIDE DEF T
<1>5. Min(T) \in T
  BY <1>2, <1>4, MinNat
<1>6. QED  BY <1>1, <1>3, <1>5 DEF T

\* What stays in one queue only keeps the devices apart.
LEMMA ApartKept ==
  ASSUME DgramTyped, DevicesApart, NEW n \in Devices, OnlyQueue(n), UNCHANGED <<dgtab, nxtprt>>
  PROVE  DgramTyped' /\ DevicesApart'
BY DEF DgramTyped, DevicesApart, OnlyQueue, QueueOf, DeviceTable

LEMMA QueueEmptied ==
  ASSUME DgramTyped, NEW n \in Devices, NEW k \in Nat, k <= netqs[n].queued,
         netqs' = [netqs EXCEPT ![n].queued = @ - k]
  PROVE  OnlyQueue(n) /\ netqs'[n].pid = netqs[n].pid /\ netqs'[n].queued = netqs[n].queued - k
<1>1. netqs[n].queued - k \in Nat
  BY DEF DgramTyped, QueueTable
<1>2. QED  BY <1>1 DEF DgramTyped, QueueTable, OnlyQueue

LEMMA QueueRead ==
  ASSUME DgramTyped, NEW n \in Devices, NEW r \in Procs \cup {Nobody},
         netqs' = [netqs EXCEPT ![n].pid = r]
  PROVE  OnlyQueue(n) /\ netqs'[n].pid = r /\ netqs'[n].queued = netqs[n].queued
BY DEF DgramTyped, QueueTable, OnlyQueue

LEMMA QueueSet ==
  ASSUME DgramTyped, NEW n \in Devices, NEW k \in Nat, NEW r \in Procs \cup {Nobody},
         netqs' = [netqs EXCEPT ![n].queued = k, ![n].pid = r]
  PROVE  OnlyQueue(n) /\ netqs'[n].pid = r /\ netqs'[n].queued = k
<1>1. netqs' \in QueueTable
  BY DEF DgramTyped, QueueTable
<1>2. netqs'[n].pid = r /\ netqs'[n].queued = k
  BY DEF DgramTyped, QueueTable
<1>3. QED  BY <1>1, <1>2 DEF DgramTyped, QueueTable, OnlyQueue

LEMMA QueueFilled ==
  ASSUME DgramTyped, NEW n \in Devices,
         netqs' = [netqs EXCEPT ![n].queued = @ + 1, ![n].pid = Nobody]
  PROVE  OnlyQueue(n) /\ netqs'[n].pid = Nobody /\ netqs'[n].queued = netqs[n].queued + 1
<1> DEFINE k == netqs[n].queued + 1
<1>1. k \in Nat
  BY DEF DgramTyped, QueueTable
<1>2. netqs' = [netqs EXCEPT ![n].queued = k, ![n].pid = Nobody]
  OBVIOUS
<1> HIDE DEF k
<1>3. OnlyQueue(n) /\ netqs'[n].pid = Nobody /\ netqs'[n].queued = k
  BY <1>1, <1>2, QueueSet
<1>4. QED  BY <1>3 DEF k

LEMMA QueueSame ==
  ASSUME DgramTyped, NEW n \in Devices, UNCHANGED netqs
  PROVE  OnlyQueue(n)
BY DEF DgramTyped, OnlyQueue

\* Open: the queue was free, and no port is bound twice.
LEMMA DgmopenApart ==
  ASSUME DgramTyped, DevicesApart, NEW p \in Procs, NEW u \in UdpPorts \cup {0}, Dgmopen(p, u)
  PROVE  /\ DgramTyped' /\ DevicesApart'
         /\ \A d \in Devices : dgtab[d].used =>
              dgtab'[d] = dgtab[d] /\ netqs'[QueueOf(d)] = netqs[QueueOf(d)]
<1>1. Udpnxtp \in Nat /\ BoundTo(Udpnxtp) = {}
  BY PortFree
<1>2. u \in Nat
  BY DatagramAssumption
<1>3. nxtprt' \in Nat
  BY <1>1 DEF Dgmopen, DgramTyped
<1>4. CASE UNCHANGED <<dgtab, netqs>>
  BY <1>3, <1>4 DEF DgramTyped, DevicesApart, QueueOf
<1>5. CASE FreeDevices # {} /\ FreeQueues # {} /\ BoundTo(u) = {}
  <2> DEFINE e == Min(FreeDevices)
             n == Min(FreeQueues)
             v == IF u = 0 THEN Udpnxtp ELSE u
             D == [used |-> TRUE, timed |-> FALSE, netq |-> n, lport |-> v, opener |-> p]
  <2>1. e \in FreeDevices /\ n \in FreeQueues
    <3>1. Devices \subseteq Nat
      BY DEF Devices
    <3>2. FreeDevices \subseteq Nat /\ FreeQueues \subseteq Nat
      BY <3>1 DEF FreeDevices, FreeQueues
    <3>3. QED  BY <1>5, <3>2, MinNat
  <2>2. v \in Nat /\ BoundTo(v) = {}
    BY <1>1, <1>2, <1>5
  <2>3. dgtab' = [dgtab EXCEPT ![e] = D] /\ netqs' = [netqs EXCEPT ![n].valid = TRUE, ![n].uport = v, ![n].pid = Nobody]
    BY <1>5 DEF Dgmopen, Opens
  <2> HIDE DEF e, n, v
  <2>4. e \in Devices /\ n \in Devices /\ ~dgtab[e].used /\ ~netqs[n].valid
    BY <2>1 DEF FreeDevices, FreeQueues
  <2>5. /\ D \in [used : BOOLEAN, timed : BOOLEAN, netq : Devices, lport : Nat, opener : Procs \cup {Nobody}]
        /\ D.netq = n /\ D.lport = v
    BY <2>2, <2>4
  <2> HIDE DEF D
  <2>6. dgtab' \in DeviceTable /\ \A d \in Devices : dgtab'[d] = IF d = e THEN D ELSE dgtab[d]
    BY <2>3, <2>4, <2>5 DEF DgramTyped, DeviceTable
  <2>7. /\ netqs' \in QueueTable /\ netqs'[n].valid /\ netqs'[n].uport = v
        /\ \A m \in Devices \ {n} : netqs'[m] = netqs[m]
    BY <2>2, <2>3, <2>4 DEF DgramTyped, QueueTable
  <2>8. DgramTyped'
    BY <1>3, <2>6, <2>7 DEF DgramTyped
  <2>9. \A d \in Devices : dgtab[d].used =>
          /\ QueueOf(d) \in Devices \ {n} /\ d # e
          /\ netqs[QueueOf(d)].valid /\ netqs[QueueOf(d)].uport = dgtab[d].lport /\ dgtab[d].lport # v
    BY <2>2, <2>4 DEF DevicesApart, BoundTo, DgramTyped, DeviceTable, QueueOf
  <2>10. \A d \in Devices : dgtab'[d].used /\ d # e => dgtab[d].used /\ dgtab'[d] = dgtab[d]
    BY <2>6
  <2>11. DevicesApart'
    BY <2>4, <2>5, <2>6, <2>7, <2>9, <2>10 DEF DevicesApart, QueueOf
  <2>12. QED  BY <2>6, <2>7, <2>8, <2>9, <2>11
<1>6. QED  BY <1>4, <1>5 DEF Dgmopen

LEMMA DgcloseApart ==
  ASSUME DgramTyped, DevicesApart, NEW p \in Procs, NEW e \in Devices, Dgclose(p, e)
  PROVE  /\ DgramTyped' /\ DevicesApart'
         /\ \A d \in Devices : dgtab[d].used /\ d # e =>
              dgtab'[d] = dgtab[d] /\ netqs'[QueueOf(d)] = netqs[QueueOf(d)]
<1> DEFINE n == QueueOf(e)
<1>1. dgtab[e].used
  BY DEF Dgclose, Opened
<1>2. n \in Devices
  BY DEF DgramTyped, DeviceTable, QueueOf
<1>3. /\ dgtab' = [dgtab EXCEPT ![e].used = FALSE] /\ nxtprt' = nxtprt
      /\ netqs' = [netqs EXCEPT ![n].valid = FALSE, ![n].uport = Unbound, ![n].pid = Nobody]
  BY DEF Dgclose
<1> HIDE DEF n
<1>4. /\ dgtab' \in DeviceTable /\ ~dgtab'[e].used
      /\ \A d \in Devices \ {e} : dgtab'[d] = dgtab[d]
  BY <1>3 DEF DgramTyped, DeviceTable
<1>5. netqs' \in QueueTable /\ \A m \in Devices \ {n} : netqs'[m] = netqs[m]
  BY <1>2, <1>3 DEF DgramTyped, QueueTable
<1>6. \A d \in Devices : dgtab[d].used /\ d # e => QueueOf(d) \in Devices \ {n}
  BY <1>1 DEF DevicesApart, n, DgramTyped, DeviceTable, QueueOf
<1>7. DgramTyped'
  BY <1>3, <1>4, <1>5 DEF DgramTyped
<1>8. DevicesApart'
  BY <1>4, <1>5, <1>6 DEF DevicesApart, QueueOf
<1>9. QED  BY <1>4, <1>5, <1>6, <1>7, <1>8

LEMMA SetmodeApart ==
  ASSUME DgramTyped, DevicesApart, NEW p \in Procs, NEW e \in Devices, DgcntlSetmode(p, e)
  PROVE  /\ DgramTyped' /\ DevicesApart' /\ UNCHANGED netqs
         /\ \A d \in Devices : /\ dgtab'[d].used = dgtab[d].used /\ dgtab'[d].opener = dgtab[d].opener
                               /\ dgtab'[d].netq = dgtab[d].netq
<1>1. PICK t \in BOOLEAN : dgtab' = [dgtab EXCEPT ![e].timed = t]
  BY DEF DgcntlSetmode
<1>2. UNCHANGED <<netqs, nxtprt>>
  BY DEF DgcntlSetmode
<1>3. dgtab' \in DeviceTable
      /\ \A d \in Devices : /\ dgtab'[d].used = dgtab[d].used /\ dgtab'[d].opener = dgtab[d].opener
                            /\ dgtab'[d].netq = dgtab[d].netq /\ dgtab'[d].lport = dgtab[d].lport
  BY <1>1 DEF DgramTyped, DeviceTable
<1>4. QED  BY <1>2, <1>3 DEF DgramTyped, DevicesApart, QueueOf

\* What a step of process p leaves to another one that has opened a device.
OthersDevices(p) ==
  \A q \in Procs \ {p}, d \in Devices :
    Opened(q, d) => /\ Opened(q, d)' /\ QueueOf(d)' = QueueOf(d)
                    /\ netqs'[QueueOf(d)] = netqs[QueueOf(d)]

LEMMA OthersKept ==
  ASSUME DgramTyped, DevicesApart, NEW p \in Procs, NEW e \in Devices, Opened(p, e),
         OnlyQueue(QueueOf(e)), UNCHANGED <<dgtab, nxtprt>>
  PROVE  DgramTyped' /\ DevicesApart' /\ OthersDevices(p)
<1>1. QueueOf(e) \in Devices
  BY DEF DgramTyped, DeviceTable, QueueOf
<1>2. DgramTyped' /\ DevicesApart'
  BY <1>1, ApartKept
<1>3. ASSUME NEW q \in Procs \ {p}, NEW d \in Devices, Opened(q, d)
      PROVE  Opened(q, d)' /\ QueueOf(d)' = QueueOf(d) /\ netqs'[QueueOf(d)] = netqs[QueueOf(d)]
  <2>1. d # e /\ dgtab[d].used /\ dgtab[e].used
    BY <1>3 DEF Opened
  <2>2. QueueOf(d) # QueueOf(e)
    BY <2>1 DEF DevicesApart
  <2>3. QueueOf(d) \in Devices
    BY DEF DgramTyped, DeviceTable, QueueOf
  <2>4. QED  BY <1>3, <2>2, <2>3 DEF OnlyQueue, Opened, QueueOf
<1>4. QED  BY <1>2, <1>3 DEF OthersDevices

LEMMA AwaitsAt ==
  ASSUME ContTyped, part = "internet", NEW p \in Procs, NEW l \in Labels("internet"), NEW d \in Nat,
         Awaits(p, l, d)
  PROVE  /\ cont'[p].at = l /\ cont'[p].ix = d
         /\ \A q \in Procs \ {p} : cont'[q] = cont[q]
<1> DEFINE L == Labels("internet")
           c == [Where(l) EXCEPT !.ix = d]
<1>1. cont \in [Procs -> Conts(L)] /\ l \in L
  BY DEF ContTyped
<1> HIDE DEF L
<1>2. c \in Conts(L) /\ c.at = l /\ c.ix = d
  BY <1>1 DEF Where, Conts
<1>3. Then(p, c)
  BY DEF Awaits
<1> HIDE DEF c
<1>4. QED  BY <1>1, <1>2, <1>3, ThenTyped

LEMMA ThenAt ==
  ASSUME ContTyped, part = "internet", NEW p \in Procs, NEW l \in Labels("internet"),
         Then(p, Where(l)) \/ Goes(p, l) \/ \E a \in Hosts \cup {Broadcast, Nobody} : Then(p, [Where(l) EXCEPT !.to = a])
  PROVE  /\ cont'[p].at = l
         /\ \A q \in Procs \ {p} : cont'[q] = cont[q]
<1> DEFINE L == Labels("internet")
<1>1. cont \in [Procs -> Conts(L)] /\ l \in L
  BY DEF ContTyped
<1> HIDE DEF L
<1>2. CASE Goes(p, l)
  BY <1>1, <1>2, GoesTyped
<1>3. ASSUME NEW c \in Conts(L), Then(p, c), c.at = l
      PROVE  cont'[p].at = l /\ \A q \in Procs \ {p} : cont'[q] = cont[q]
  BY <1>1, <1>3, ThenTyped
<1>4. CASE Then(p, Where(l))
  BY <1>1, <1>3, <1>4, WhereTyped
<1>5. ASSUME NEW a \in Hosts \cup {Broadcast, Nobody}, Then(p, [Where(l) EXCEPT !.to = a])
      PROVE  cont'[p].at = l /\ \A q \in Procs \ {p} : cont'[q] = cont[q]
  <2> DEFINE c == [Where(l) EXCEPT !.to = a]
  <2>1. c \in Conts(L) /\ c.at = l
    BY <1>1, WhereTyped
  <2> HIDE DEF c
  <2>2. QED  BY <1>3, <1>5, <2>1 DEF c
<1>6. QED  BY <1>2, <1>4, <1>5

MailTyped == mail \in [Procs -> BOOLEAN]
WaitsInTime(p) == LET n == QueueOf(cont[p].ix) IN netqs[n].pid = p /\ netqs[n].queued = 0

\* A step of a program's call, as the others see it and as it leaves its own process.
CallShape(p) ==
  /\ DgramTyped' /\ DevicesApart' /\ OthersDevices(p)
  /\ \A q \in Procs \ {p} : cont'[q] = cont[q]
  /\ cont[p].at \in {"user", "clear", "receive", "timed", "write"}
  /\ cont'[p].at \in {"user", "clear", "receive", "timed", "write", "route"}
  /\ cont'[p].at \in Owning => cont'[p].ix \in Devices /\ Opened(p, cont[p].ix)'
  /\ cont'[p].at = "timed" => mail'[p] \/ WaitsInTime(p)'
  /\ MailTyped' /\ \A q \in Procs \ {p} : mail[q] => mail'[q]

LEMMA ReceivesShape ==
  ASSUME DgramInv, MailTyped, ContTyped, part = "internet", NEW p \in Procs, NEW d \in Devices, Opened(p, d),
         cont[p].at \in {"user", "clear", "receive", "timed", "write"},
         Receives(p, d), UNCHANGED <<dgtab, nxtprt>>,
         MailTyped', \A q \in Procs \ {p} : mail[q] => mail'[q]
  PROVE  CallShape(p)
<1> DEFINE n == QueueOf(d)
<1>1. n \in Devices /\ netqs[n].queued \in Nat /\ d \in Nat
  BY DEF DgramInv, DgramTyped, DeviceTable, QueueTable, QueueOf, Devices
<1>2. {"user", "receive"} \subseteq Labels("internet")
  BY DEF Labels
<1>3. CASE netqs[n].queued = 0
  <2>1. Awaits(p, "receive", d) /\ UNCHANGED netqs
    BY <1>3 DEF Receives
  <2>2. cont'[p].at = "receive" /\ cont'[p].ix = d /\ \A q \in Procs \ {p} : cont'[q] = cont[q]
    BY <1>1, <1>2, <2>1, AwaitsAt
  <2>3. OnlyQueue(n)
    BY <1>1, <2>1, QueueSame DEF DgramInv
  <2>4. DgramTyped' /\ DevicesApart' /\ OthersDevices(p)
    BY <2>3, OthersKept DEF DgramInv
  <2>5. Opened(p, d)'
    BY DEF Opened
  <2>6. QED  BY <2>2, <2>4, <2>5 DEF CallShape
<1>4. CASE netqs[n].queued # 0
  <2>1. Then(p, Where("user")) /\ netqs' = [netqs EXCEPT ![n].queued = @ - 1]
    BY <1>4 DEF Receives
  <2>2. cont'[p].at = "user" /\ \A q \in Procs \ {p} : cont'[q] = cont[q]
    BY <1>2, <2>1, ThenAt
  <2>3. 1 \in Nat /\ 1 <= netqs[n].queued
    BY <1>1, <1>4
  <2> HIDE DEF n
  <2>4. OnlyQueue(n)
    BY <1>1, <2>1, <2>3, QueueEmptied DEF DgramInv
  <2>5. DgramTyped' /\ DevicesApart' /\ OthersDevices(p)
    BY <2>4, OthersKept DEF DgramInv, n
  <2>6. QED  BY <2>2, <2>5 DEF CallShape, Owning
<1>5. QED  BY <1>3, <1>4

LEMMA DisposesQueue ==
  ASSUME DgramInv, NEW d \in Devices, Disposes(d)
  PROVE  OnlyQueue(QueueOf(d))
<1> DEFINE n == QueueOf(d)
           k == IF netqs[n].queued > 0 /\ Frees(pool) THEN 1 ELSE netqs[n].queued
<1>1. n \in Devices /\ netqs[n].queued \in Nat
  BY DEF DgramInv, DgramTyped, DeviceTable, QueueTable, QueueOf
<1>2. k \in Nat /\ k <= netqs[n].queued
  BY <1>1
<1>3. netqs' = [netqs EXCEPT ![n].queued = @ - k]
  BY DEF Disposes
<1> HIDE DEF k, n
<1>4. OnlyQueue(n)
  BY <1>1, <1>2, <1>3, QueueEmptied DEF DgramInv
<1>5. QED  BY <1>4 DEF n

LEMMA ClearsShape ==
  ASSUME DgramInv, MailTyped, ContTyped, part = "internet", NEW p \in Procs, NEW d \in Devices, Opened(p, d),
         cont[p].at \in {"user", "clear"}, cont[p].at = "clear" => cont[p].ix = d,
         OnlyQueue(QueueOf(d)), UNCHANGED <<mail, dgtab, nxtprt>>,
         Awaits(p, "clear", d) \/ Then(p, Where("user")) \/ (cont[p].at = "clear" /\ UNCHANGED cont)
  PROVE  CallShape(p)
<1>1. d \in Nat
  BY DEF Devices
<1>2. {"user", "clear"} \subseteq Labels("internet")
  BY DEF Labels
<1>3. \/ cont'[p].at = "clear" /\ cont'[p].ix = d /\ \A q \in Procs \ {p} : cont'[q] = cont[q]
      \/ cont'[p].at = "user" /\ \A q \in Procs \ {p} : cont'[q] = cont[q]
  <2>1. CASE Awaits(p, "clear", d)
    BY <1>1, <1>2, <2>1, AwaitsAt
  <2>2. CASE Then(p, Where("user"))
    BY <1>2, <2>2, ThenAt
  <2>3. QED  BY <2>1, <2>2
<1>4. DgramTyped' /\ DevicesApart' /\ OthersDevices(p)
  BY OthersKept DEF DgramInv
<1>5. Opened(p, d)' /\ MailTyped'
  BY DEF Opened, MailTyped
<1>6. QED  BY <1>3, <1>4, <1>5 DEF CallShape, Owning

LEMMA DgreadShape ==
  ASSUME DgramInv, MailTyped, ContTyped, part = "internet", NEW p \in Procs, NEW d \in Devices, Dgread(p, d)
  PROVE  CallShape(p)
<1> DEFINE n == QueueOf(d)
<1>1. n \in Devices /\ netqs[n].queued \in Nat /\ d \in Nat
  BY DEF DgramInv, DgramTyped, DeviceTable, QueueTable, QueueOf, Devices
<1>2. /\ cont[p].at = "user" /\ Opened(p, d) /\ UNCHANGED <<dgtab, nxtprt>>
  BY DEF Dgread, Calls, At
<1>3. CASE Receives(p, d) /\ UNCHANGED mail
  BY <1>2, <1>3, ReceivesShape DEF MailTyped
<1>4. CASE UNCHANGED <<netqs, cont, mail>>
  <2>1. OnlyQueue(n)
    BY <1>1, <1>4, QueueSame DEF DgramInv
  <2>2. DgramTyped' /\ DevicesApart' /\ OthersDevices(p)
    BY <1>2, <2>1, OthersKept DEF DgramInv
  <2>3. QED  BY <1>2, <1>4, <2>2 DEF CallShape, Owning, MailTyped
<1>5. CASE /\ netqs[n].queued = 0
           /\ netqs' = [netqs EXCEPT ![n].pid = p]
           /\ Awaits(p, IF mail[p] THEN "receive" ELSE "timed", d)
           /\ mail' = [mail EXCEPT ![p] = FALSE]
  <2> DEFINE l == IF mail[p] THEN "receive" ELSE "timed"
  <2>1. l \in Labels("internet") /\ l \in {"receive", "timed"}
    BY DEF Labels
  <2>2. Awaits(p, l, d)
    BY <1>5
  <2> HIDE DEF l
  <2>3. cont'[p].at = l /\ cont'[p].ix = d /\ \A q \in Procs \ {p} : cont'[q] = cont[q]
    BY <1>1, <2>1, <2>2, AwaitsAt
  <2> HIDE DEF n
  <2>4. OnlyQueue(n) /\ netqs'[n].pid = p /\ netqs'[n].queued = 0
    BY <1>1, <1>5, QueueRead DEF DgramInv
  <2>5. DgramTyped' /\ DevicesApart' /\ OthersDevices(p)
    BY <1>2, <2>4, OthersKept DEF DgramInv, n
  <2>6. Opened(p, d)' /\ MailTyped' /\ \A q \in Procs \ {p} : mail'[q] = mail[q]
    BY <1>2, <1>5 DEF Opened, MailTyped
  <2>7. WaitsInTime(p)'
    BY <1>2, <2>3, <2>4 DEF WaitsInTime, QueueOf, n
  <2>8. QED  BY <1>2, <2>1, <2>3, <2>5, <2>6, <2>7 DEF CallShape
<1>6. QED
  <2>1. netqs[n].queued > 0 \/ netqs[n].queued = 0
    BY <1>1
  <2>2. QED  BY <1>3, <1>4, <1>5, <2>1 DEF Dgread

LEMMA DatagramShape ==
  ASSUME DgramInv, MailTyped, ContTyped, part = "internet", NEW p \in Procs, DatagramStep(p)
  PROVE  CallShape(p)
<1>1. CASE \E u \in UdpPorts \cup {0} : Dgmopen(p, u)
  <2>1. PICK u \in UdpPorts \cup {0} : Dgmopen(p, u)
    BY <1>1
  <2>2. /\ DgramTyped' /\ DevicesApart'
        /\ \A d \in Devices : dgtab[d].used =>
             dgtab'[d] = dgtab[d] /\ netqs'[QueueOf(d)] = netqs[QueueOf(d)]
    BY <2>1, DgmopenApart DEF DgramInv
  <2>3. cont[p].at = "user" /\ UNCHANGED <<cont, mail>>
    BY <2>1 DEF Dgmopen, Calls, At, routeVars, routeOwn
  <2>4. OthersDevices(p)
    BY <2>2 DEF OthersDevices, Opened, QueueOf
  <2>5. QED  BY <2>2, <2>3, <2>4 DEF CallShape, Owning, MailTyped
<1>2. CASE \E d \in Devices : Dgclose(p, d)
  <2>1. PICK e \in Devices : Dgclose(p, e)
    BY <1>2
  <2>2. /\ DgramTyped' /\ DevicesApart'
        /\ \A d \in Devices : dgtab[d].used /\ d # e =>
             dgtab'[d] = dgtab[d] /\ netqs'[QueueOf(d)] = netqs[QueueOf(d)]
    BY <2>1, DgcloseApart DEF DgramInv
  <2>3. cont[p].at = "user" /\ UNCHANGED <<cont, mail>> /\ Opened(p, e)
    BY <2>1 DEF Dgclose, Calls, At, routeVars, routeOwn
  <2>4. OthersDevices(p)
    BY <2>2, <2>3 DEF OthersDevices, Opened, QueueOf
  <2>5. QED  BY <2>2, <2>3, <2>4 DEF CallShape, Owning, MailTyped
<1>3. CASE \E d \in Devices : DgcntlSetmode(p, d)
  <2>1. PICK e \in Devices : DgcntlSetmode(p, e)
    BY <1>3
  <2>2. /\ DgramTyped' /\ DevicesApart' /\ UNCHANGED netqs
        /\ \A d \in Devices : /\ dgtab'[d].used = dgtab[d].used /\ dgtab'[d].opener = dgtab[d].opener
                              /\ dgtab'[d].netq = dgtab[d].netq
    BY <2>1, SetmodeApart DEF DgramInv
  <2>3. cont[p].at = "user" /\ UNCHANGED <<cont, mail>>
    BY <2>1 DEF DgcntlSetmode, Calls, At, routeVars, routeOwn
  <2>4. OthersDevices(p)
    BY <2>2 DEF OthersDevices, Opened, QueueOf
  <2>5. QED  BY <2>2, <2>3, <2>4 DEF CallShape, Owning, MailTyped
<1>4. CASE \E d \in Devices : DgcntlClear(p, d)
  <2>1. PICK d \in Devices : DgcntlClear(p, d)
    BY <1>4
  <2>2. /\ cont[p].at = "user" /\ Opened(p, d) /\ Disposes(d) /\ Awaits(p, "clear", d)
        /\ UNCHANGED <<mail, dgtab, nxtprt>>
    BY <2>1 DEF DgcntlClear, Calls, At
  <2>3. OnlyQueue(QueueOf(d))
    BY <2>2, DisposesQueue
  <2>4. QED  BY <2>2, <2>3, ClearsShape
<1>5. CASE \E d \in Devices : Dgread(p, d)
  BY <1>5, DgreadShape
<1>6. CASE \/ \E d \in Devices, a \in Hosts \cup {Broadcast, Nobody} : Dgwrite(p, d, a)
           \/ DgwriteOn(p)
  <2>1. {"user", "write", "route"} \subseteq Labels("internet")
    BY DEF Labels
  <2>2. /\ UNCHANGED <<dgtab, netqs, nxtprt, mail>> /\ cont[p].at \in {"user", "write"}
        /\ \/ Goes(p, "route") \/ Then(p, Where("user"))
           \/ \E a \in Hosts \cup {Broadcast, Nobody} : Then(p, [Where("write") EXCEPT !.to = a])
    BY <1>6 DEF Dgwrite, DgwriteOn, Calls, At, dgVars
  <2>3. cont'[p].at \in {"user", "write", "route"} /\ \A q \in Procs \ {p} : cont'[q] = cont[q]
    BY <2>1, <2>2, ThenAt
  <2>4. DgramTyped' /\ DevicesApart' /\ OthersDevices(p)
    BY <2>2 DEF DgramInv, DgramTyped, DevicesApart, OthersDevices, Opened, QueueOf
  <2>5. QED  BY <2>2, <2>3, <2>4 DEF CallShape, Owning, MailTyped
<1>7. CASE ClearsOn(p)
  <2> DEFINE d == cont[p].ix
  <2>1. cont[p].at = "clear" /\ UNCHANGED <<mail, dgtab, nxtprt>>
    BY <1>7 DEF ClearsOn, At
  <2>2. d \in Devices /\ Opened(p, d)
    BY <2>1 DEF DgramInv, OwnersInv, Owning
  <2>3. \/ Disposes(d) /\ UNCHANGED cont
        \/ Then(p, Where("user")) /\ UNCHANGED netqs
    BY <1>7 DEF ClearsOn
  <2>4. OnlyQueue(QueueOf(d))
    <3>1. QueueOf(d) \in Devices
      BY <2>2 DEF DgramInv, DgramTyped, DeviceTable, QueueOf
    <3>2. QED  BY <2>2, <2>3, <3>1, DisposesQueue, QueueSame DEF DgramInv
  <2> HIDE DEF d
  <2>5. cont[p].ix = d
    BY DEF d
  <2>6. QED  BY <2>1, <2>2, <2>3, <2>4, <2>5, ClearsShape
<1>8. CASE DgreadTimesOut(p)
  <2> DEFINE d == cont[p].ix
             n == QueueOf(d)
  <2>1. d \in Devices /\ Opened(p, d)
    BY <1>8 DEF DgreadTimesOut, At, DgramInv, OwnersInv, Owning
  <2>2. n \in Devices
    BY <2>1 DEF DgramInv, DgramTyped, DeviceTable, QueueOf
  <2>3. /\ netqs' = [netqs EXCEPT ![n].pid = Nobody] /\ UNCHANGED <<mail, dgtab, nxtprt>>
        /\ Then(p, Where("user")) /\ cont[p].at = "timed"
    BY <1>8 DEF DgreadTimesOut, At
  <2>4. cont'[p].at = "user" /\ \A q \in Procs \ {p} : cont'[q] = cont[q]
    <3>1. "user" \in Labels("internet")
      BY DEF Labels
    <3>2. QED  BY <2>3, <3>1, ThenAt
  <2> HIDE DEF n
  <2>5. OnlyQueue(n)
    BY <2>2, <2>3, QueueRead DEF DgramInv
  <2>6. DgramTyped' /\ DevicesApart' /\ OthersDevices(p)
    BY <2>1, <2>3, <2>5, OthersKept DEF DgramInv, n
  <2>7. QED  BY <2>3, <2>4, <2>6 DEF CallShape, Owning, MailTyped
<1>9. CASE DgreadOn(p) \/ Preceived(p)
  <2> DEFINE d == cont[p].ix
             n == QueueOf(d)
  <2>1. cont[p].at \in {"timed", "receive"} /\ UNCHANGED <<dgtab, nxtprt>>
    BY <1>9 DEF DgreadOn, Preceived, At
  <2>2. d \in Devices /\ Opened(p, d)
    BY <2>1 DEF DgramInv, OwnersInv, Owning
  <2>3. CASE Receives(p, d) /\ (UNCHANGED mail \/ mail' = [mail EXCEPT ![p] = FALSE])
    <3>1. MailTyped' /\ \A q \in Procs \ {p} : mail[q] => mail'[q]
      BY <2>3 DEF MailTyped
    <3>2. QED  BY <2>1, <2>2, <2>3, <3>1, ReceivesShape
  <2>4. CASE /\ netqs' = [netqs EXCEPT ![n].queued = @ - 1, ![n].pid = Nobody]
             /\ mail' = Told(n) /\ Then(p, Where("user")) /\ netqs[n].queued > 0
    <3>1. n \in Devices /\ netqs[n].queued \in Nat
      BY <2>2 DEF DgramInv, DgramTyped, DeviceTable, QueueTable, QueueOf
    <3>2. OnlyQueue(n)
      <4> DEFINE k == netqs[n].queued - 1
      <4>1. k \in Nat /\ netqs' = [netqs EXCEPT ![n].queued = k, ![n].pid = Nobody]
        BY <2>4, <3>1
      <4> HIDE DEF k, n
      <4>2. QED  BY <3>1, <4>1, QueueSet DEF DgramInv
    <3>3. cont'[p].at = "user" /\ \A q \in Procs \ {p} : cont'[q] = cont[q]
      <4>1. "user" \in Labels("internet")
        BY DEF Labels
      <4>2. QED  BY <2>4, <4>1, ThenAt
    <3>4. MailTyped' /\ \A q \in Procs \ {p} : mail[q] => mail'[q]
      BY <2>4 DEF MailTyped, Told
    <3> HIDE DEF n
    <3>5. DgramTyped' /\ DevicesApart' /\ OthersDevices(p)
      BY <2>1, <2>2, <3>2, OthersKept DEF DgramInv, n
    <3>6. QED  BY <2>1, <3>3, <3>4, <3>5 DEF CallShape, Owning
  <2>5. QED  BY <1>9, <2>3, <2>4 DEF DgreadOn, Preceived
<1>10. QED
  BY <1>1, <1>2, <1>3, <1>4, <1>5, <1>6, <1>7, <1>8, <1>9 DEF DatagramStep

------------------------------------------------------------------------------
(* The table's mutex, and who waits for an answer. *)

TablePlaces == {"insert", "advance", "rewind", "mark", "name", "zero", "found", "request", "ask", "await",
                "answered", "test", "gate"}
RoutePlaces == {"route", "turn"} \cup TablePlaces
TableMutex == Mutex(nmutex, AtAny({"turn"}), AtAny(TablePlaces))

\* Process p goes to place l.
Comes(p, l) == cont'[p].at = l /\ \A q \in Procs \ {p} : cont'[q] = cont[q]

LEMMA ComesAtAny ==
  ASSUME NEW p \in Procs, NEW l, Comes(p, l), NEW X
  PROVE  /\ l \in X => AtAny(X)' = AtAny(X) \cup {p}
         /\ l \notin X => AtAny(X)' = AtAny(X) \ {p}
BY DEF Comes, AtAny

LEMMA TableKept ==
  ASSUME TableMutex, NEW p \in Procs, NEW l, Comes(p, l), UNCHANGED nmutex,
         cont[p].at \notin {"turn"} \cup TablePlaces, l \notin {"turn"} \cup TablePlaces
  PROVE  TableMutex'
<1>1. AtAny({"turn"})' = AtAny({"turn"}) /\ AtAny(TablePlaces)' = AtAny(TablePlaces)
  BY DEF Comes, AtAny
<1>2. QED  BY <1>1 DEF TableMutex, Mutex

\* The holder goes on.
LEMMA TableMoves ==
  ASSUME TableMutex, NEW p \in Procs, NEW l, Comes(p, l), UNCHANGED nmutex,
         cont[p].at \in TablePlaces \/ (cont[p].at = "turn" /\ p \notin ToSet(nmutex.q)),
         l \in {"turn"} \cup TablePlaces
  PROVE  TableMutex'
<1> DEFINE W == AtAny({"turn"})
           H == AtAny(TablePlaces)
           V == AtAny({"turn"})'
           I == AtAny(TablePlaces)'
<1>1. /\ l = "turn" => V = W \cup {p} /\ I = H \ {p}
      /\ l \in TablePlaces => V = W \ {p} /\ I = H \cup {p}
  <2>1. "turn" \notin TablePlaces
    BY DEF TablePlaces
  <2>2. QED  BY <2>1, ComesAtAny
<1>2. p \in W \cup H /\ p \notin ToSet(nmutex.q) /\ W \cap H = {} /\ ToSet(nmutex.q) \subseteq W
  <2>1. "turn" \notin TablePlaces
    BY DEF TablePlaces
  <2>2. QED  BY <2>1 DEF TableMutex, Mutex, AtAny
<1>3. V \cup I = W \cup H /\ V \cap I = {} /\ ToSet(nmutex.q) \subseteq V
  BY <1>1, <1>2
<1> HIDE DEF W, H, V, I
<1>4. Mutex(nmutex, W, H)
  BY DEF TableMutex, W, H
<1>5. Mutex(nmutex, V, I)
  BY <1>3, <1>4, MutexMoves
<1>6. QED  BY <1>5 DEF TableMutex, V, I

\* The holder leaves.
LEMMA TableLeft ==
  ASSUME TableMutex, NEW p \in Procs, NEW l, Comes(p, l), nmutex' = Signaled(nmutex),
         cont[p].at \in TablePlaces \/ (cont[p].at = "turn" /\ p \notin ToSet(nmutex.q)),
         l \notin {"turn"} \cup TablePlaces
  PROVE  TableMutex'
<1> DEFINE W == AtAny({"turn"})
           H == AtAny(TablePlaces)
<1>1. AtAny({"turn"})' = W \ {p} /\ AtAny(TablePlaces)' = H \ {p}
  BY ComesAtAny
<1>2. p \in (W \cup H) \ ToSet(nmutex.q)
  <2>1. "turn" \notin TablePlaces
    BY DEF TablePlaces
  <2>2. QED  BY <2>1 DEF TableMutex, Mutex, AtAny
<1> HIDE DEF W, H
<1>3. Mutex(nmutex, W, H)
  BY DEF TableMutex, W, H
<1>4. Mutex(Signaled(nmutex), W \ {p}, H \ {p})
  BY <1>2, <1>3, MutexSignaled
<1>5. QED  BY <1>1, <1>4 DEF TableMutex

\* Two processes are never both in the table.
LEMMA TableAlone ==
  ASSUME TableMutex, NEW p \in Procs, NEW q \in Procs, cont[p].at \in TablePlaces, cont[q].at \in TablePlaces
  PROVE  p = q
<1>1. "turn" \notin TablePlaces
  BY DEF TablePlaces
<1>2. QED  BY <1>1 DEF TableMutex, Mutex, AtAny

\* A step of route, as the others see it and as it leaves its own process.
RouteShape(p) ==
  /\ \A q \in Procs \ {p} : cont'[q] = cont[q]
  /\ cont[p].at \in RoutePlaces
  /\ cont'[p].at \in {"user", "serve", "turn"} \cup TablePlaces
  /\ TableMutex'
  /\ MailTyped' /\ \A q \in Procs \ {p} : mail'[q] = mail[q]
  /\ rarppid' = rarppid /\ arppid' \in {arppid, p, Nobody}
  /\ cont'[p].at = "await" => arppid' = p /\ arpwant' = cont'[p].to
  /\ (\E q \in Procs \ {p} : cont[q].at = "await") => UNCHANGED <<arppid, arpwant>>

LEMMA LeavesComes ==
  ASSUME ContTyped, part = "internet", NEW p \in Procs, NEW h, Leaves(p, h)
  PROVE  Comes(p, Home(p)) /\ Home(p) \in {"user", "serve"} /\ nmutex' = Signaled(nmutex)
<1>1. Home(p) \in Labels("internet") /\ Home(p) \in {"user", "serve"}
  BY DEF Home, Labels
<1>2. Then(p, Where(Home(p))) /\ nmutex' = Signaled(nmutex)
  BY DEF Leaves
<1>3. QED  BY <1>1, <1>2, ThenAt DEF Comes

LEMMA RouteStepShape ==
  ASSUME TableMutex, MailTyped, ContTyped, TableTyped, part = "internet", NEW p \in Procs, RouteStep(p)
  PROVE  RouteShape(p)
<1> DEFINE L == Labels("internet")
<1>1. /\ {"user", "serve", "turn", "insert", "advance", "rewind", "mark", "name", "zero", "found",
          "request", "ask", "await", "answered", "test", "gate"} \subseteq L
      /\ cont \in [Procs -> Conts(L)] /\ cont[p] \in Conts(L) /\ cont[p].try \in Nat
  BY DEF ContTyped, Labels, Conts
<1> HIDE DEF L
<1>2. TablePlaces = {"insert", "advance", "rewind", "mark", "name", "zero", "found", "request", "ask", "await",
                "answered", "test", "gate"}
  BY DEF TablePlaces
<1>3. \A q \in Procs : q \in ToSet(nmutex.q) <=> Contains(nmutex.q, q)
  BY ContainsIn DEF TableMutex, Mutex
<1>4. CASE RouteTurn(p)
  <2>1. /\ Comes(p, "turn") /\ cont[p].at = "route" /\ nmutex' = Waited(nmutex, p)
        /\ UNCHANGED <<mail, arppid, arpwant, rarppid>>
    BY <1>1, <1>4, ThenAt DEF RouteTurn, At, Comes, askVars, bootVars, L
  <2> DEFINE W == AtAny({"turn"})
             H == AtAny(TablePlaces)
  <2>2. AtAny({"turn"})' = W \cup {p} /\ AtAny(TablePlaces)' = H \ {p}
    BY <1>2, <2>1, ComesAtAny
  <2>3. p \notin W \cup H
    BY <1>2, <2>1 DEF AtAny
  <2> HIDE DEF W, H
  <2>4. Mutex(nmutex, W, H)
    BY DEF TableMutex, W, H
  <2>5. Mutex(Waited(nmutex, p), W \cup {p}, H)
    BY <2>3, <2>4, MutexWaited
  <2>6. H \ {p} = H
    BY <2>3
  <2>7. TableMutex'
    BY <2>1, <2>2, <2>5, <2>6 DEF TableMutex
  <2>8. QED  BY <2>1, <2>7 DEF RouteShape, RoutePlaces, Comes, MailTyped
<1>5. CASE Getpath(p)
  <2>1. /\ cont[p].at = "turn" /\ p \notin ToSet(nmutex.q)
        /\ UNCHANGED <<mail, arppid, arpwant, rarppid>>
    BY <1>3, <1>5 DEF Getpath, At, askVars, bootVars
  <2>2. CASE Leaves(p, Broadcast)
    <3>1. Comes(p, Home(p)) /\ Home(p) \in {"user", "serve"} /\ nmutex' = Signaled(nmutex)
      BY <2>2, LeavesComes
    <3>2. TableMutex'
      BY <1>2, <2>1, <3>1, TableLeft
    <3>3. QED  BY <1>2, <2>1, <3>1, <3>2 DEF RouteShape, RoutePlaces, Comes, MailTyped
  <2>3. CASE \E l \in {"insert", "found"} : Comes(p, l) /\ UNCHANGED nmutex
    <3>1. TableMutex'
      BY <1>2, <2>1, <2>3, TableMoves
    <3>2. QED  BY <1>2, <2>1, <2>3, <3>1 DEF RouteShape, RoutePlaces, Comes, MailTyped
  <2>4. CASE Goes(p, "insert") /\ UNCHANGED nmutex
    BY <1>1, <2>3, <2>4, ThenAt DEF Comes, L
  <2>5. CASE /\ cont' = [cont EXCEPT ![p].ix = Min(Known(cont[p].to)), ![p].try = 0, ![p].at = "found"]
             /\ UNCHANGED nmutex
    <3> DEFINE i == Min(Known(cont[p].to))
    <3>1. cont' = [cont EXCEPT ![p].ix = i, ![p].try = 0, ![p].at = "found"]
      BY <2>5
    <3> HIDE DEF i
    <3>2. Comes(p, "found")
      BY <1>1, <3>1 DEF Comes, Conts
    <3>3. QED  BY <2>3, <2>5, <3>2
  <2>6. QED  BY <1>5, <2>2, <2>4, <2>5 DEF Getpath
<1>6. CASE Insert(p) \/ Advance(p) \/ Rewind(p) \/ MarkAlloc(p) \/ CopyIad(p) \/ ClearEad(p) \/ Found(p)
           \/ Mkarp(p) \/ Answered(p) \/ TimesOut(p) \/ Gate(p)
  <2>1. \E l \in {"turn"} \cup (TablePlaces \ {"await"}) : Comes(p, l)
    <3>1. CASE Insert(p)
      <4>1. cont' = [cont EXCEPT ![p].ix = atabnxt, ![p].try = 0, ![p].at = "advance"]
        BY <3>1 DEF Insert
      <4>2. Comes(p, "advance")
        BY <1>1, <4>1 DEF Comes, Conts
      <4>3. QED  BY <1>2, <4>2
    <3>2. CASE Advance(p) \/ Rewind(p) \/ MarkAlloc(p) \/ CopyIad(p) \/ ClearEad(p) \/ Found(p)
               \/ Mkarp(p) \/ Answered(p)
      <4>1. \E l \in TablePlaces \ {"await"} : Goes(p, l)
        BY <1>2, <3>2 DEF Advance, Rewind, MarkAlloc, CopyIad, ClearEad, Fills, Found, Mkarp, Answered
      <4>2. TablePlaces \subseteq L
        BY <1>1, <1>2
      <4>3. QED  BY <4>1, <4>2, ThenAt DEF Comes, L
    <3>3. CASE TimesOut(p)
      <4> DEFINE t == cont[p].try + 1
                 l == IF t < AR_RTRY THEN "request" ELSE "answered"
      <4>1. cont' = [cont EXCEPT ![p].try = t, ![p].at = l]
        BY <3>3 DEF TimesOut
      <4>2. l \in {"request", "answered"}
        OBVIOUS
      <4> HIDE DEF t, l
      <4>3. Comes(p, l)
        BY <1>1, <4>1 DEF Comes, Conts
      <4>4. QED  BY <1>2, <4>2, <4>3
    <3>4. CASE Gate(p)
      <4> DEFINE c == [Where("turn") EXCEPT !.to = Gateway, !.via = TRUE]
      <4>1. c \in Conts(L) /\ c.at = "turn" /\ Then(p, c)
        BY <1>1, <3>4, WhereTyped, RouteAssumption DEF Gate
      <4> HIDE DEF c
      <4>2. Comes(p, "turn")
        BY <1>1, <4>1, ThenTyped DEF Comes
      <4>3. QED  BY <4>2
    <3>5. QED  BY <1>6, <3>1, <3>2, <3>3, <3>4
  <2>2. /\ cont[p].at \in TablePlaces /\ UNCHANGED <<nmutex, arppid, arpwant, rarppid>>
        /\ UNCHANGED mail \/ mail' = [mail EXCEPT ![p] = FALSE]
    BY <1>2, <1>6 DEF Insert, Advance, Rewind, MarkAlloc, CopyIad, ClearEad, Fills, Found, Mkarp, Answered,
                      TimesOut, Gate, At, askVars, bootVars
  <2>3. TableMutex'
    BY <1>2, <2>1, <2>2, TableMoves
  <2>4. MailTyped' /\ \A q \in Procs \ {p} : mail'[q] = mail[q]
    BY <2>2 DEF MailTyped
  <2>5. QED  BY <1>2, <2>1, <2>2, <2>3, <2>4 DEF RouteShape, RoutePlaces, Comes
<1>7. CASE Ask(p) \/ Asked(p)
  <2>1. /\ cont[p].at \in TablePlaces /\ UNCHANGED <<nmutex, rarppid>>
        /\ UNCHANGED mail \/ mail' = [mail EXCEPT ![p] = FALSE]
        /\ \/ Goes(p, "test") /\ arppid' = Nobody
           \/ Goes(p, "await") /\ arppid' = p /\ arpwant' = cont[p].to
    BY <1>2, <1>7 DEF Ask, Asked, At, bootVars
  <2>2. \/ Comes(p, "test") /\ arppid' = Nobody
        \/ Comes(p, "await") /\ cont'[p].to = cont[p].to /\ arppid' = p /\ arpwant' = cont[p].to
    <3>1. ASSUME NEW l \in L, Goes(p, l) PROVE Comes(p, l) /\ cont'[p].to = cont[p].to
      BY <1>1, <3>1, GoesTyped DEF Comes
    <3>2. QED  BY <1>1, <2>1, <3>1
  <2>3. TableMutex'
    BY <1>2, <2>1, <2>2, TableMoves
  <2>4. MailTyped' /\ \A q \in Procs \ {p} : mail'[q] = mail[q]
    BY <2>1 DEF MailTyped
  <2>5. ~ \E q \in Procs \ {p} : cont[q].at = "await"
    BY <1>2, <2>1, TableAlone
  <2>6. QED  BY <1>2, <2>1, <2>2, <2>3, <2>4, <2>5 DEF RouteShape, RoutePlaces, Comes
<1>8. CASE Test(p)
  <2>1. cont[p].at = "test" /\ UNCHANGED <<mail, arppid, arpwant, rarppid>>
    BY <1>8 DEF Test, At, askVars
  <2>2. ASSUME NEW h, Leaves(p, h) PROVE RouteShape(p)
    <3>1. Comes(p, Home(p)) /\ Home(p) \in {"user", "serve"} /\ nmutex' = Signaled(nmutex)
      BY <2>2, LeavesComes
    <3>2. TableMutex'
      BY <1>2, <2>1, <3>1, TableLeft
    <3>3. QED  BY <1>2, <2>1, <3>1, <3>2 DEF RouteShape, RoutePlaces, Comes, MailTyped
  <2>3. CASE UNCHANGED nmutex /\ (UNCHANGED cont \/ Goes(p, "gate"))
    <3>1. Comes(p, "test") \/ Comes(p, "gate")
      BY <1>1, <2>1, <2>3, ThenAt DEF Comes, L
    <3>2. TableMutex'
      BY <1>2, <2>1, <2>3, <3>1, TableMoves
    <3>3. QED  BY <1>2, <2>1, <3>1, <3>2 DEF RouteShape, RoutePlaces, Comes, MailTyped
  <2>4. QED  BY <1>8, <2>2, <2>3 DEF Test
<1>9. QED
  BY <1>4, <1>5, <1>6, <1>7, <1>8 DEF RouteStep

\* Until the machine has its address netout runs alone.
BootInv ==
  \A p \in Procs : cont[p].at \in {"boot", "rarp"} =>
    p = netout /\ \A q \in Procs \ {p} : cont[q].at = "unborn"
AskedTyped == MailTyped /\ arppid \in Procs \cup {Nobody} /\ rarppid \in Procs \cup {Nobody}
AnswerInv == AskedTyped /\ AnswerReaches /\ (part = "internet" => TableMutex /\ BootInv)

LEMMA OwnersKept ==
  ASSUME DgramInv, part' = part, NEW p \in Procs, NEW l, Comes(p, l), l \notin Owning, UNCHANGED dgVars
  PROVE  DgramInv'
<1>1. UNCHANGED <<dgtab, netqs, nxtprt>>
  BY DEF dgVars
<1>2. DgramTyped' /\ DevicesApart'
  BY <1>1 DEF DgramInv, DgramTyped, DevicesApart, QueueOf
<1>3. OwnersInv'
  BY <1>1 DEF DgramInv, OwnersInv, Comes, Opened
<1>4. QED  BY <1>2, <1>3 DEF DgramInv

LEMMA BootKept ==
  ASSUME BootInv, NEW p \in Procs, cont[p].at \notin {"boot", "rarp", "unborn"},
         \A q \in Procs \ {p} : cont'[q] = cont[q], cont'[p].at \notin {"boot", "rarp"}
  PROVE  BootInv'
BY DEF BootInv

\* A process whose step disturbs nobody else's wait, and that does not wait for an answer.
LEMMA AnswerKept ==
  ASSUME AnswerReaches, NEW p \in Procs, \A q \in Procs \ {p} : cont'[q] = cont[q] /\ mail'[q] = mail[q],
         cont'[p].at \notin {"await", "timed", "rarp"}, UNCHANGED <<arppid, arpwant, rarppid, dgtab, netqs>>
  PROVE  AnswerReaches'
BY DEF AnswerReaches, At, QueueOf

LEMMA BootStep ==
  ASSUME DgramInv, AnswerInv, ContTyped, part = "internet", part' = part, UNCHANGED dgVars,
         Sndrarp \/ RarpAnswered \/ RarpTimesOut
  PROVE  DgramInv' /\ AnswerInv'
<1> DEFINE L == Labels("internet")
<1>1. /\ {"user", "serve", "boot", "rarp"} \subseteq L
      /\ cont \in [Procs -> Conts(L)] /\ cont[netout].try \in Nat /\ netout \in Procs
  BY NetProcsAssumption DEF ContTyped, Labels, Conts
<1>2. cont[netout].at \in {"boot", "rarp"} /\ \A q \in Procs \ {netout} : cont[q].at = "unborn"
  BY <1>1 DEF Sndrarp, RarpAnswered, RarpTimesOut, At, AnswerInv, BootInv
<1>3. UNCHANGED <<nmutex, arppid, arpwant, dgtab, netqs, nxtprt>>
  BY DEF Sndrarp, RarpAnswered, RarpTimesOut, askVars, dgVars
<1>4. {"boot", "rarp", "unborn", "user", "serve"} \cap ({"turn"} \cup TablePlaces \cup Owning) = {}
  BY DEF TablePlaces, Owning
<1> HIDE DEF L
<1>5. CASE Sndrarp
  <2>1. Comes(netout, "rarp")
    BY <1>1, <1>5, ThenAt DEF Sndrarp, Comes, L
  <2>2. DgramInv'
    BY <1>1, <1>4, <2>1, OwnersKept
  <2>3. TableMutex'
    BY <1>1, <1>2, <1>3, <1>4, <2>1, TableKept DEF AnswerInv
  <2>4. BootInv'
    BY <1>2, <2>1 DEF BootInv, Comes
  <2>5. mail' = [mail EXCEPT ![netout] = FALSE] /\ rarppid' = netout
    BY <1>5 DEF Sndrarp
  <2>6. AskedTyped'
    BY <1>1, <1>3, <2>5 DEF AnswerInv, AskedTyped, MailTyped
  <2>7. \A q \in Procs : cont'[q].at \in {"unborn", "rarp"} /\ (cont'[q].at = "rarp" => q = netout)
    BY <1>2, <2>1 DEF Comes
  <2>8. AnswerReaches'
    BY <2>5, <2>7 DEF AnswerReaches, At
  <2>9. QED  BY <2>2, <2>3, <2>4, <2>6, <2>8 DEF AnswerInv
<1>6. CASE RarpAnswered
  <2>1. \A q \in Procs : cont'[q] = Where(Home(q)) /\ Home(q) \in {"user", "serve"}
    BY <1>6 DEF RarpAnswered, Home
  <2>2. \A q \in Procs : cont'[q].at \in {"user", "serve"}
    <3>1. \A l : Where(l).at = l
      BY DEF Where
    <3>2. QED  BY <2>1, <3>1
  <2>3. /\ AtAny({"turn"}) = {} /\ AtAny(TablePlaces) = {}
        /\ AtAny({"turn"})' = {} /\ AtAny(TablePlaces)' = {}
    BY <1>2, <1>4, <2>2 DEF AtAny
  <2>4. TableMutex'
    BY <1>3, <2>3 DEF TableMutex, AnswerInv, Mutex
  <2>5. BootInv' /\ OwnersInv'
    BY <1>4, <2>2 DEF BootInv, OwnersInv
  <2>6. DgramInv'
    BY <1>3, <2>5 DEF DgramInv, DgramTyped, DevicesApart, QueueOf
  <2>7. mail' = [mail EXCEPT ![netout] = FALSE] /\ rarppid' = rarppid
    BY <1>6 DEF RarpAnswered, bootVars
  <2>8. AskedTyped'
    BY <1>1, <1>3, <2>7 DEF AnswerInv, AskedTyped, MailTyped
  <2>9. AnswerReaches'
    BY <2>2 DEF AnswerReaches, At
  <2>10. QED  BY <2>4, <2>5, <2>6, <2>8, <2>9 DEF AnswerInv
<1>7. CASE RarpTimesOut
  <2> DEFINE t == cont[netout].try + 1
  <2>1. cont' = [cont EXCEPT ![netout].at = "boot", ![netout].try = t] /\ UNCHANGED <<mail, rarppid>>
    BY <1>7 DEF RarpTimesOut
  <2> HIDE DEF t
  <2>2. Comes(netout, "boot")
    BY <1>1, <2>1 DEF Comes, Conts
  <2>3. DgramInv'
    BY <1>1, <1>4, <2>2, OwnersKept
  <2>4. TableMutex'
    BY <1>1, <1>2, <1>3, <1>4, <2>2, TableKept DEF AnswerInv
  <2>5. BootInv'
    BY <1>2, <2>2 DEF BootInv, Comes
  <2>6. AskedTyped'
    BY <1>3, <2>1 DEF AnswerInv, AskedTyped, MailTyped
  <2>7. AnswerReaches'
    BY <1>1, <1>3, <2>1, <2>2, AnswerKept DEF AnswerInv, Comes
  <2>8. QED  BY <2>3, <2>4, <2>5, <2>6, <2>7 DEF AnswerInv
<1>8. QED  BY <1>5, <1>6, <1>7

LEMMA RouteAnswer ==
  ASSUME DgramInv, AnswerInv, ContTyped, TableTyped, part = "internet", part' = part, UNCHANGED dgVars,
         NEW p \in Procs, RouteStep(p)
  PROVE  DgramInv' /\ AnswerInv'
<1>1. RouteShape(p)
  BY RouteStepShape DEF AnswerInv, AskedTyped
<1>2. /\ ({"user", "serve", "turn"} \cup TablePlaces)
           \cap ({"boot", "rarp", "unborn"} \cup Owning) = {}
      /\ RoutePlaces \cap {"boot", "rarp", "unborn"} = {}
  BY DEF TablePlaces, RoutePlaces, Owning
<1> DEFINE l == cont'[p].at
<1>3. Comes(p, l) /\ l \notin Owning
  BY <1>1, <1>2 DEF RouteShape, Comes, Owning
<1> HIDE DEF l
<1>4. DgramInv'
  BY <1>3, OwnersKept
<1>5. BootInv'
  BY <1>1, <1>2, BootKept DEF RouteShape, AnswerInv
<1>6. AskedTyped' /\ TableMutex'
  BY <1>1 DEF RouteShape, AskedTyped, AnswerInv
<1>7. UNCHANGED <<dgtab, netqs>>
  BY DEF dgVars
<1>8. ASSUME NEW q \in Procs, ~mail'[q]
      PROVE  /\ At(q, "await")' => arppid' = q /\ arpwant' = cont'[q].to
             /\ At(q, "timed")' => netqs'[QueueOf(cont[q].ix)'].pid = q /\ netqs'[QueueOf(cont[q].ix)'].queued = 0
             /\ At(q, "rarp")' => rarppid' = q
  <2>1. CASE q = p
    <3>1. "timed" \in Owning /\ cont'[p].at \in {"user", "serve", "turn"} \cup TablePlaces
      BY <1>1 DEF RouteShape, Owning
    <3>2. cont'[p].at \notin {"timed", "rarp"}
      BY <1>2, <3>1
    <3>3. QED  BY <1>1, <2>1, <3>2 DEF RouteShape, At
  <2>2. CASE q # p
    <3>1. cont'[q] = cont[q] /\ ~mail[q] /\ rarppid' = rarppid
      BY <1>1, <1>8, <2>2 DEF RouteShape
    <3>2. cont[q].at = "await" => UNCHANGED <<arppid, arpwant>>
      BY <1>1, <2>2 DEF RouteShape
    <3>3. QED  BY <1>7, <3>1, <3>2 DEF AnswerInv, AnswerReaches, At, QueueOf
  <2>3. QED  BY <2>1, <2>2
<1>9. AnswerReaches'
  BY <1>8 DEF AnswerReaches
<1>10. QED  BY <1>4, <1>5, <1>6, <1>9 DEF AnswerInv

LEMMA CallAnswer ==
  ASSUME DgramInv, AnswerInv, ContTyped, part = "internet", part' = part, NEW p \in Procs, DatagramStep(p)
  PROVE  DgramInv' /\ AnswerInv'
<1>1. CallShape(p)
  BY DatagramShape DEF AnswerInv, AskedTyped
<1>2. UNCHANGED <<nmutex, arppid, arpwant, rarppid>>
  BY DEF DatagramStep, Dgmopen, Dgclose, DgcntlSetmode, DgcntlClear, ClearsOn, Dgread,
         DgreadTimesOut, DgreadOn, Preceived, Dgwrite, DgwriteOn, routeVars, routeOwn, askVars, bootVars
<1>3. /\ cont[p].at \notin {"boot", "rarp", "unborn", "turn"} \cup TablePlaces
      /\ cont'[p].at \notin {"boot", "rarp", "turn"} \cup TablePlaces
  BY <1>1 DEF CallShape, TablePlaces
<1> DEFINE l == cont'[p].at
<1>4. Comes(p, l)
  BY <1>1 DEF CallShape, Comes
<1> HIDE DEF l
<1>5. ASSUME NEW q \in Procs \ {p}, cont[q].at \in Owning
      PROVE  /\ Opened(q, cont[q].ix)' /\ cont'[q].ix \in Devices
             /\ netqs'[QueueOf(cont[q].ix)'] = netqs[QueueOf(cont[q].ix)]
  <2> DEFINE d == cont[q].ix
  <2>1. d \in Devices /\ Opened(q, d) /\ cont'[q] = cont[q]
    BY <1>1, <1>5 DEF DgramInv, OwnersInv, CallShape
  <2>2. dgtab'[d].used /\ dgtab'[d].opener = q /\ dgtab'[d].netq = dgtab[d].netq
        /\ netqs'[dgtab[d].netq] = netqs[dgtab[d].netq]
    BY <1>1, <2>1 DEF CallShape, OthersDevices, Opened, QueueOf
  <2>3. QED  BY <2>1, <2>2 DEF Opened, QueueOf
<1>6. OwnersInv'
  <2>1. ASSUME NEW q \in Procs, cont'[q].at \in Owning PROVE cont'[q].ix \in Devices /\ Opened(q, cont[q].ix)'
    <3>1. CASE q = p
      BY <1>1, <2>1, <3>1 DEF CallShape
    <3>2. CASE q # p
      BY <1>1, <1>5, <2>1, <3>2 DEF CallShape
    <3>3. QED  BY <3>1, <3>2
  <2>2. QED  BY <2>1 DEF OwnersInv
<1>7. DgramInv'
  BY <1>1, <1>6 DEF DgramInv, CallShape
<1>8. TableMutex'
  BY <1>2, <1>3, <1>4, TableKept DEF AnswerInv, l
<1>9. BootInv'
  BY <1>1, <1>3, BootKept DEF AnswerInv, CallShape
<1>10. AskedTyped'
  BY <1>1, <1>2 DEF AskedTyped, AnswerInv, CallShape
<1>11. ASSUME NEW q \in Procs, ~mail'[q]
       PROVE  /\ At(q, "await")' => arppid' = q /\ arpwant' = cont'[q].to
              /\ At(q, "timed")' => netqs'[QueueOf(cont[q].ix)'].pid = q /\ netqs'[QueueOf(cont[q].ix)'].queued = 0
              /\ At(q, "rarp")' => rarppid' = q
  <2>1. CASE q = p
    <3>1. ~At(q, "await")' /\ ~At(q, "rarp")'
      BY <1>3, <2>1 DEF At, TablePlaces
    <3>2. At(q, "timed")' => WaitsInTime(p)'
      BY <1>1, <1>11, <2>1 DEF CallShape, At
    <3>3. QED  BY <2>1, <3>1, <3>2 DEF WaitsInTime
  <2>2. CASE q # p
    <3>1. cont'[q] = cont[q] /\ ~mail[q]
      BY <1>1, <1>11, <2>2 DEF CallShape
    <3>2. cont[q].at = "timed" => netqs'[QueueOf(cont[q].ix)'] = netqs[QueueOf(cont[q].ix)]
      BY <1>5, <2>2 DEF Owning
    <3>3. QED  BY <1>2, <3>1, <3>2 DEF AnswerInv, AnswerReaches, At
  <2>3. QED  BY <2>1, <2>2
<1>12. AnswerReaches'
  BY <1>11 DEF AnswerReaches
<1>13. QED  BY <1>7, <1>8, <1>9, <1>10, <1>12 DEF AnswerInv

\* Nothing that the waiting depend on changes.
LEMMA AnswerUntouched ==
  ASSUME DgramInv, AnswerInv, part' = part,
         UNCHANGED <<cont, nmutex, dgtab, netqs, nxtprt, mail, arppid, arpwant, rarppid>>
  PROVE  DgramInv' /\ AnswerInv'
<1>1. DgramInv'
  BY DEF DgramInv, DgramTyped, DevicesApart, OwnersInv, Opened, QueueOf
<1>2. AskedTyped' /\ AnswerReaches'
  BY DEF AnswerInv, AskedTyped, MailTyped, AnswerReaches, At, QueueOf
<1>3. part = "internet" => TableMutex' /\ BootInv'
  BY DEF AnswerInv, TableMutex, BootInv, AtAny
<1>4. QED  BY <1>1, <1>2, <1>3 DEF AnswerInv

LEMMA ArpAnswer ==
  ASSUME DgramInv, AnswerInv, part = "internet", part' = part, UNCHANGED dgVars, RouteIn
  PROVE  DgramInv' /\ AnswerInv'
<1>1. UNCHANGED <<cont, nmutex, dgtab, netqs, nxtprt, arpwant>>
  BY DEF RouteIn, ArpRequestIn, ArpReplyIn, EntersBeyond, RarpReplyIn, askVars, dgVars
<1>2. CASE UNCHANGED <<mail, arppid, rarppid>>
  BY <1>1, <1>2, AnswerUntouched
<1>3. DgramInv' /\ TableMutex' /\ BootInv'
  BY <1>1 DEF DgramInv, DgramTyped, DevicesApart, OwnersInv, Opened, QueueOf, AnswerInv, TableMutex, BootInv,
              AtAny
<1>4. CASE /\ arppid # Nobody /\ arppid' = Nobody /\ mail' = [mail EXCEPT ![arppid] = TRUE]
           /\ rarppid' = rarppid
  <2>1. AskedTyped' /\ mail'[arppid] /\ \A q \in Procs : mail[q] => mail'[q]
    BY <1>4 DEF AnswerInv, AskedTyped, MailTyped
  <2>2. AnswerReaches'
    BY <1>1, <1>4, <2>1 DEF AnswerInv, AnswerReaches, At, QueueOf
  <2>3. QED  BY <1>3, <2>1, <2>2 DEF AnswerInv
<1>5. CASE /\ rarppid # Nobody /\ rarppid' = Nobody /\ mail' = [mail EXCEPT ![rarppid] = TRUE]
           /\ arppid' = arppid
  <2>1. AskedTyped' /\ mail'[rarppid] /\ \A q \in Procs : mail[q] => mail'[q]
    BY <1>5 DEF AnswerInv, AskedTyped, MailTyped
  <2>2. AnswerReaches'
    BY <1>1, <1>5, <2>1 DEF AnswerInv, AnswerReaches, At, QueueOf
  <2>3. QED  BY <1>3, <2>1, <2>2 DEF AnswerInv
<1>6. QED
  BY <1>2, <1>4, <1>5 DEF RouteIn, ArpRequestIn, ArpReplyIn, EntersBeyond, RarpReplyIn, bootVars, askVars

LEMMA QueueLonger ==
  ASSUME DgramTyped, NEW n \in Devices, netqs' = [netqs EXCEPT ![n].queued = @ + 1]
  PROVE  OnlyQueue(n) /\ netqs'[n].pid = netqs[n].pid /\ netqs'[n].queued = netqs[n].queued + 1
<1> DEFINE k == netqs[n].queued + 1
<1>1. k \in Nat /\ netqs' = [netqs EXCEPT ![n].queued = k]
  BY DEF DgramTyped, QueueTable
<1> HIDE DEF k
<1>2. OnlyQueue(n) /\ netqs'[n].pid = netqs[n].pid /\ netqs'[n].queued = k
  BY <1>1 DEF DgramTyped, QueueTable, OnlyQueue
<1>3. QED  BY <1>2 DEF k

LEMMA UdpAnswer ==
  ASSUME DgramInv, AnswerInv, part = "internet", part' = part, NEW u \in UdpPorts, UdpIn(u)
  PROVE  DgramInv' /\ AnswerInv'
<1> DEFINE bound == {n \in Devices : netqs[n].uport = u}
           n == Min(bound)
<1>1. UNCHANGED <<cont, nmutex, dgtab, nxtprt, arppid, arpwant, rarppid>>
  BY DEF UdpIn, askVars, bootVars
<1>2. CASE UNCHANGED <<netqs, mail>>
  BY <1>1, <1>2, AnswerUntouched
<1>3. CASE /\ bound # {}
           /\ \/ netqs' = [netqs EXCEPT ![n].queued = @ + 1, ![n].pid = Nobody] /\ mail' = Told(n)
              \/ netqs' = [netqs EXCEPT ![n].pid = Nobody] /\ mail' = Told(n)
              \/ /\ netqs' = [netqs EXCEPT ![n].queued = @ + 1] /\ UNCHANGED mail
                 /\ netqs[n].queued >= NETQLEN
  <2>1. n \in Devices
    <3>1. bound \subseteq Nat
      BY DEF Devices
    <3>2. n \in bound
      <4> HIDE DEF bound
      <4>1. QED  BY <1>3, <3>1, MinNat
    <3>3. QED  BY <3>2
  <2> HIDE DEF n, bound
  <2>2. OnlyQueue(n)
    BY <1>3, <2>1, QueueFilled, QueueRead, QueueLonger DEF DgramInv
  <2>3. DgramTyped' /\ DevicesApart'
    BY <1>1, <2>1, <2>2, ApartKept DEF DgramInv
  <2>4. OwnersInv'
    BY <1>1 DEF DgramInv, OwnersInv, Opened
  <2>5. AskedTyped' /\ TableMutex' /\ BootInv'
    <3>1. AskedTyped'
      BY <1>1, <1>3 DEF AnswerInv, AskedTyped, MailTyped, Told
    <3>2. TableMutex' /\ BootInv'
      BY <1>1 DEF AnswerInv, TableMutex, BootInv, AtAny
    <3>3. QED  BY <3>1, <3>2
  <2>6. \A q \in Procs : ~mail'[q] => ~mail[q] /\ (q # netqs[n].pid \/ netqs[n].queued >= NETQLEN)
    BY <1>3 DEF AnswerInv, AskedTyped, MailTyped, Told
  <2>7. \A q \in Procs : ~mail'[q] /\ At(q, "timed") =>
          /\ QueueOf(cont[q].ix) \in Devices \ {n}
          /\ netqs'[QueueOf(cont[q].ix)] = netqs[QueueOf(cont[q].ix)]
    <3>1. SUFFICES ASSUME NEW q \in Procs, ~mail'[q], At(q, "timed")
                   PROVE  /\ QueueOf(cont[q].ix) \in Devices \ {n}
                          /\ netqs'[QueueOf(cont[q].ix)] = netqs[QueueOf(cont[q].ix)]
      OBVIOUS
    <3>2. cont[q].ix \in Devices
      BY <3>1 DEF DgramInv, OwnersInv, Owning, At
    <3>3. QueueOf(cont[q].ix) \in Devices
      BY <3>2 DEF DgramInv, DgramTyped, DeviceTable, QueueOf
    <3>4. netqs[QueueOf(cont[q].ix)].pid = q /\ netqs[QueueOf(cont[q].ix)].queued = 0
      BY <2>6, <3>1 DEF AnswerInv, AnswerReaches
    <3>5. QueueOf(cont[q].ix) # n
      BY <2>6, <3>1, <3>4, DatagramAssumption
    <3>6. QED  BY <2>2, <3>3, <3>5 DEF OnlyQueue
  <2>8. AnswerReaches'
    <3>1. ASSUME NEW q \in Procs, ~mail'[q]
          PROVE  /\ At(q, "await")' => arppid' = q /\ arpwant' = cont'[q].to
                 /\ At(q, "timed")' => netqs'[QueueOf(cont[q].ix)'].pid = q /\ netqs'[QueueOf(cont[q].ix)'].queued = 0
                 /\ At(q, "rarp")' => rarppid' = q
      <4>1. QueueOf(cont[q].ix)' = QueueOf(cont[q].ix) /\ ~mail[q]
        BY <1>1, <2>6, <3>1 DEF QueueOf
      <4>2. QED  BY <1>1, <2>7, <3>1, <4>1 DEF AnswerInv, AnswerReaches, At
    <3>2. QED  BY <3>1 DEF AnswerReaches
  <2>9. QED  BY <2>3, <2>4, <2>5, <2>8 DEF DgramInv, AnswerInv
<1>4. QED
  BY <1>2, <1>3 DEF UdpIn, Delivered

LEMMA InternetAnswer ==
  ASSUME DgramInv, AnswerInv, ContTyped, TableTyped, part = "internet", part' = part, InternetNext
  PROVE  DgramInv' /\ AnswerInv'
<1>1. CASE (Sndrarp \/ RarpAnswered \/ RarpTimesOut) /\ UNCHANGED dgVars
  BY <1>1, BootStep
<1>2. CASE \E p \in Procs : RouteStep(p) /\ UNCHANGED dgVars
  BY <1>2, RouteAnswer
<1>3. CASE RouteIn /\ UNCHANGED dgVars
  BY <1>3, ArpAnswer
<1>4. CASE \E p \in Procs : DatagramStep(p)
  BY <1>4, CallAnswer
<1>5. CASE NetoutTakes
  <2>1. /\ cont[netout].at \in {"serve", "echo"} /\ netout \in Procs
        /\ UNCHANGED <<dgtab, netqs, nxtprt, nmutex, mail, arppid, arpwant, rarppid>>
        /\ Then(netout, [Where("route") EXCEPT !.to = Head(icmpq)]) /\ Head(icmpq) \in Hosts
    BY <1>5, NetProcsAssumption DEF NetoutTakes, At, askVars, bootVars, TableTyped
  <2>2. Comes(netout, "route")
    <3>1. "route" \in Labels("internet")
      BY DEF Labels
    <3>2. QED  BY <2>1, <3>1, ThenAt DEF Comes
  <2>3. "route" \notin Owning /\ {"serve", "echo", "route"} \cap ({"turn"} \cup TablePlaces) = {}
    BY DEF Owning, TablePlaces
  <2>4. DgramInv'
    <3>1. DgramTyped' /\ DevicesApart'
      BY <2>1 DEF DgramInv, DgramTyped, DevicesApart, QueueOf
    <3>2. OwnersInv'
      BY <2>1, <2>2, <2>3 DEF DgramInv, OwnersInv, Comes, Opened
    <3>3. QED  BY <3>1, <3>2 DEF DgramInv
  <2>5. TableMutex'
    BY <2>1, <2>2, <2>3, TableKept DEF AnswerInv
  <2>6. BootInv'
    BY <2>1, <2>2, BootKept DEF AnswerInv, Comes
  <2>7. AskedTyped'
    BY <2>1 DEF AnswerInv, AskedTyped, MailTyped
  <2>8. AnswerReaches'
    BY <2>1, <2>2, AnswerKept DEF AnswerInv, Comes
  <2>9. QED  BY <2>4, <2>5, <2>6, <2>7, <2>8 DEF AnswerInv
<1>6. CASE \E u \in UdpPorts : UdpIn(u)
  BY <1>6, UdpAnswer
<1>7. CASE \E a \in Hosts : IcmpIn(a)
  <2>1. UNCHANGED <<cont, nmutex, dgtab, netqs, nxtprt, mail, arppid, arpwant, rarppid>>
    BY <1>7 DEF IcmpIn, askVars, bootVars
  <2>2. QED  BY <2>1, AnswerUntouched
<1>8. CASE NetoutListens
  <2>1. /\ cont[netout].at = "serve" /\ netout \in Procs /\ Comes(netout, "echo")
        /\ UNCHANGED <<dgtab, netqs, nxtprt, nmutex, mail, arppid, arpwant, rarppid, dgVars>>
    <3>1. "echo" \in Labels("internet")
      BY DEF Labels
    <3>2. QED  BY <1>8, <3>1, ThenAt, NetProcsAssumption
              DEF NetoutListens, At, Comes, routeOwn, askVars, bootVars, dgVars
  <2>2. "echo" \notin Owning /\ {"serve", "echo"} \cap ({"turn"} \cup TablePlaces) = {}
    BY DEF Owning, TablePlaces
  <2>3. DgramInv'
    BY <2>1, <2>2, OwnersKept
  <2>4. TableMutex'
    BY <2>1, <2>2, TableKept DEF AnswerInv
  <2>5. BootInv'
    BY <2>1, BootKept DEF AnswerInv, Comes
  <2>6. AskedTyped'
    BY <2>1 DEF AnswerInv, AskedTyped, MailTyped
  <2>7. AnswerReaches'
    BY <2>1, AnswerKept DEF AnswerInv, Comes
  <2>8. QED  BY <2>3, <2>4, <2>5, <2>6, <2>7 DEF AnswerInv
<1>9. QED
  BY <1>1, <1>2, <1>3, <1>4, <1>5, <1>6, <1>7, <1>8 DEF InternetNext

LEMMA DgramAnswerHold == NetSpec => [](DgramInv /\ AnswerInv)
<1>1. NetInit => DgramInv /\ AnswerInv
  <2>1. SUFFICES ASSUME NetInit PROVE DgramInv /\ AnswerInv
    OBVIOUS
  <2>2. /\ dgtab = [d \in Devices |-> [used |-> FALSE, timed |-> FALSE, netq |-> d, lport |-> 0, opener |-> Nobody]]
        /\ netqs = [n \in Devices |-> [valid |-> FALSE, uport |-> Unbound, pid |-> Nobody, queued |-> 0]]
        /\ nxtprt = ULPORT /\ nmutex = Sem(1)
        /\ arppid = Nobody /\ rarppid = Nobody /\ mail = [p \in Procs |-> FALSE]
    BY <2>1 DEF NetInit, InternetInit, RouteInit
  <2>3. nxtprt \in Nat
    <3>1. UdpPorts \subseteq Nat /\ UdpPorts # {}
      BY DatagramAssumption
    <3>2. Min(UdpPorts) \in UdpPorts
      BY <3>1, MinNat
    <3>3. QED  BY <2>2, <3>1, <3>2 DEF ULPORT
  <2>4. \A p \in Procs : cont[p].at \in {"user", "boot", "unborn"}
                         /\ (cont[p].at = "boot" => p = netout /\ \A q \in Procs \ {p} : cont[q].at = "unborn")
    BY <2>1 DEF NetInit, Booting, Where
  <2>5. DgramTyped
    BY <2>2, <2>3 DEF DgramTyped, DeviceTable, QueueTable
  <2>6. DevicesApart /\ OwnersInv
    BY <2>2, <2>4 DEF DevicesApart, OwnersInv, Owning
  <2>7. AnswerReaches /\ BootInv
    BY <2>4 DEF AnswerReaches, At, BootInv
  <2>8. TableMutex
    <3>1. AtAny({"turn"}) = {} /\ AtAny(TablePlaces) = {}
      BY <2>4 DEF AtAny, TablePlaces
    <3>2. QED  BY <2>2, <3>1, MutexNew DEF TableMutex
  <2>9. AskedTyped
    BY <2>2 DEF AskedTyped, MailTyped
  <2>10. QED  BY <2>5, <2>6, <2>7, <2>8, <2>9 DEF DgramInv, AnswerInv
<1>2. ContTyped /\ TableTyped /\ DgramInv /\ AnswerInv /\ [NetNext]_netVars /\ ContTyped'
      => (DgramInv /\ AnswerInv)'
  <2>1. SUFFICES ASSUME ContTyped, TableTyped, DgramInv, AnswerInv, [NetNext]_netVars, ContTyped'
                 PROVE  DgramInv' /\ AnswerInv'
    OBVIOUS
  <2>2. CASE part = "internet" /\ InternetNext /\ part' = part
    BY <2>1, <2>2, InternetAnswer
  <2>3. CASE part # "internet" /\ UNCHANGED <<dgramOwn, part>>
    <3>1. UNCHANGED <<dgtab, netqs, nxtprt, mail, arppid, rarppid>>
      BY <2>3 DEF dgramOwn, routeOwn, dgVars, askVars, bootVars
    <3>2. DgramInv'
      BY <2>1, <2>3, <3>1 DEF DgramInv, DgramTyped, DevicesApart, OwnersInv, QueueOf
    <3>3. \A p \in Procs : cont'[p].at \notin {"await", "timed", "rarp"}
      BY <2>1, <2>3 DEF ContTyped, Labels, Conts
    <3>4. AnswerReaches'
      BY <3>3 DEF AnswerReaches, At
    <3>5. QED  BY <2>1, <2>3, <3>1, <3>2, <3>4 DEF AnswerInv, AskedTyped, MailTyped
  <2>4. CASE UNCHANGED <<dgramOwn, cont, part>>
    <3>1. UNCHANGED <<cont, nmutex, dgtab, netqs, nxtprt, mail, arppid, arpwant, rarppid, part>>
      BY <2>4 DEF dgramOwn, routeOwn, dgVars, askVars, bootVars
    <3>2. QED  BY <2>1, <3>1, AnswerUntouched
  <2>5. QED  BY <2>1, <2>2, <2>3, <2>4 DEF NetNext, netVars
<1>3. QED  BY <1>1, <1>2, NetTyped, PTL DEF NetSpec

\* An open device has a queue and a UDP port of its own (dgmopen, nqalloc, udpnxtp, dgclose).
THEOREM DevicesApartCorrect == NetSpec => []DevicesApart
BY DgramAnswerHold, PTL DEF DgramInv

\* Who waits for an answer can still get it (getpath and arp_in, dgread and ip_in, sndrarp and
\* rarp_in).
THEOREM AnswerReachesCorrect == NetSpec => []AnswerReaches
BY DgramAnswerHold, PTL DEF AnswerInv

------------------------------------------------------------------------------
(* The right host.  The holder of nmutex is the only one that knows an entry of the table. *)

\* The places in arpfind while a new entry is filled, and those at which it is an entry.
Filling == {"advance", "rewind", "mark", "name", "zero"}
Settled == {"found", "request", "ask", "await", "answered", "test", "gate"}
Pointing == Filling \cup Settled

ArpEntry == [state : {"free", "alloc", "resolved", "gate"},
             addr : Hosts \cup {Broadcast, Nobody}, host : Hosts \cup {Broadcast, Nobody}]
ArptabTyped == arptab \in [Entries -> ArpEntry]

\* Between CopyIad and ClearEad an entry may still have the host that netin gave it before.
Unfilled(i) == \E p \in Procs : cont[p].at = "zero" /\ cont[p].ix = i
HostsRight ==
  \A i \in Entries : arptab[i].state = "resolved" => Unfilled(i) \/ arptab[i].host \in {arptab[i].addr, Nobody}
PointsRight(p) ==
  /\ cont[p].at \notin {"advance", "rewind", "mark"} => arptab[cont[p].ix].state # "free"
  /\ cont[p].at \notin {"advance", "rewind", "mark", "name"} => arptab[cont[p].ix].addr = cont[p].to

\* atabnxt leaves the table only between Advance and Rewind.
NextRight == atabnxt \in Entries \/ \E p \in Procs : cont[p].at = "rewind"
PointsIn(p) == cont[p].at \in Pointing => cont[p].ix \in Entries
RightInv ==
  /\ ArptabTyped
  /\ part # "internet" => ~wrong
  /\ ~reused => ~wrong
  /\ part = "internet" => NextRight /\ \A p \in Procs : PointsIn(p)
  /\ ~reused /\ part = "internet" =>
       HostsRight /\ \A p \in Procs : cont[p].at \in Pointing => PointsRight(p)

LEMMA RightKept ==
  ASSUME RightInv, part = "internet", part' = part, UNCHANGED <<arptab, atabnxt, reused, wrong>>,
         \A p \in Procs :
           /\ cont'[p].at \in Settled =>
                cont[p].at \in Settled /\ cont'[p].ix = cont[p].ix /\ cont'[p].to = cont[p].to
           /\ cont[p].at \in Filling \/ cont'[p].at \in Filling => cont'[p] = cont[p]
  PROVE  RightInv'
<1>1. Filling = {"advance", "rewind", "mark", "name", "zero"} /\ Pointing = Filling \cup Settled
      /\ Filling \cap Settled = {}
  BY DEF Filling, Settled, Pointing
<1>2. ArptabTyped' /\ (~reused' => ~wrong')
  BY DEF RightInv, ArptabTyped
<1>3. \A p \in Procs : cont'[p].at \in Pointing =>
        /\ cont[p].at \in Pointing /\ cont'[p].ix = cont[p].ix /\ cont'[p].to = cont[p].to
        /\ cont'[p].at \in Filling => cont'[p].at = cont[p].at
  BY <1>1
<1>4. NextRight'
  <2>1. NextRight
    BY DEF RightInv
  <2>2. "rewind" \in Filling
    BY <1>1
  <2>3. QED  BY <2>1, <2>2 DEF NextRight
<1>5. \A p \in Procs : PointsIn(p)'
  BY <1>3 DEF RightInv, PointsIn
<1>6. ASSUME ~reused', NEW i \in Entries, arptab'[i].state = "resolved"
      PROVE  Unfilled(i)' \/ arptab'[i].host \in {arptab'[i].addr, Nobody}
  <2>1. Unfilled(i) \/ arptab[i].host \in {arptab[i].addr, Nobody}
    BY <1>6 DEF RightInv, HostsRight
  <2>2. "zero" \in Filling
    BY <1>1
  <2>3. Unfilled(i) => Unfilled(i)'
    BY <2>2 DEF Unfilled
  <2>4. QED  BY <2>1, <2>3
<1>7. ASSUME ~reused', NEW p \in Procs, cont'[p].at \in Pointing
      PROVE  PointsRight(p)'
  <2>1. PointsRight(p)
    BY <1>3, <1>7 DEF RightInv
  <2>2. CASE cont'[p].at \in Filling
    <3>1. cont'[p].at = cont[p].at /\ cont'[p].ix = cont[p].ix /\ cont'[p].to = cont[p].to
      BY <1>3, <1>7, <2>2
    <3>2. QED  BY <2>1, <3>1 DEF PointsRight
  <2>3. CASE cont'[p].at \in Settled
    <3>1. cont[p].at \in Settled /\ cont'[p].ix = cont[p].ix /\ cont'[p].to = cont[p].to
      BY <2>3
    <3>2. cont[p].at \notin {"advance", "rewind", "mark", "name"}
      BY <1>1, <3>1
    <3>3. QED  BY <2>1, <3>1, <3>2 DEF PointsRight
  <2>4. QED  BY <1>1, <1>7, <2>2, <2>3
<1>8. HostsRight' \/ reused'
  BY <1>6 DEF HostsRight
<1>9. QED  BY <1>2, <1>4, <1>5, <1>7, <1>8 DEF RightInv

\* netin completes the entry of the sender's address.
LEMMA ResolvedRight ==
  ASSUME RightInv, part = "internet", part' = part, NEW a \in Hosts, NEW i \in Entries,
         arptab[i].addr = a, arptab[i].state # "free", arptab' = Resolved(arptab, i, a),
         UNCHANGED <<cont, atabnxt, reused, wrong>>
  PROVE  RightInv'
<1>1. arptab \in [Entries -> ArpEntry]
  BY DEF RightInv, ArptabTyped
<1>2. /\ arptab' \in [Entries -> ArpEntry]
      /\ \A j \in Entries : /\ arptab'[j].addr = arptab[j].addr
                            /\ arptab[j].state # "free" => arptab'[j].state # "free"
                            /\ j # i => arptab'[j] = arptab[j]
      /\ arptab'[i] = arptab[i] \/ arptab'[i].host = a
  BY <1>1 DEF Resolved, ArpEntry
<1>3. NextRight' /\ \A p \in Procs : PointsIn(p)'
  BY DEF RightInv, NextRight, PointsIn
<1>4. ASSUME ~reused, NEW j \in Entries, arptab'[j].state = "resolved"
      PROVE  Unfilled(j)' \/ arptab'[j].host \in {arptab'[j].addr, Nobody}
  <2>1. arptab[j].state = "resolved" => Unfilled(j) \/ arptab[j].host \in {arptab[j].addr, Nobody}
    BY <1>4 DEF RightInv, HostsRight
  <2>2. Unfilled(j)' <=> Unfilled(j)
    BY DEF Unfilled
  <2>3. QED  BY <1>2, <1>4, <2>1, <2>2
<1>5. ASSUME ~reused, NEW p \in Procs, cont[p].at \in Pointing
      PROVE  PointsRight(p)'
  <2>1. PointsRight(p) /\ cont[p].ix \in Entries
    BY <1>5 DEF RightInv, PointsIn
  <2>2. QED  BY <1>2, <2>1 DEF PointsRight
<1>6. HostsRight' \/ reused
  BY <1>4 DEF HostsRight
<1>7. QED  BY <1>2, <1>3, <1>5, <1>6 DEF RightInv, ArptabTyped

\* netin puts the sender into the next entry, which is nobody's if it is free.
LEMMA EnteredRight ==
  ASSUME RightInv, part = "internet", part' = part, NEW a \in Hosts, atabnxt \in Entries,
         arptab' = Resolved(Fresh(a), atabnxt, a), Entered(a), UNCHANGED <<cont, wrong>>
  PROVE  RightInv'
<1> DEFINE i == atabnxt
           F == Fresh(a)
<1>1. /\ arptab' = Resolved(F, i, a) /\ reused' = (reused \/ arptab[i].state # "free")
      /\ atabnxt' = (i + 1) % AR_TAB
  BY DEF Entered
<1>2. arptab \in [Entries -> ArpEntry]
  BY DEF RightInv, ArptabTyped
<1>3. F = [arptab EXCEPT ![i] = [state |-> "alloc", addr |-> a, host |-> Nobody]]
  BY DEF Fresh
<1>4. /\ F \in [Entries -> ArpEntry] /\ F[i].state = "alloc" /\ F[i].addr = a
      /\ \A j \in Entries \ {i} : F[j] = arptab[j]
  BY <1>2, <1>3 DEF ArpEntry
<1> HIDE DEF F
<1>5. arptab' = [F EXCEPT ![i].state = "resolved", ![i].host = a]
  BY <1>1, <1>4 DEF Resolved
<1> HIDE DEF i
<1>6. i \in Entries
  BY DEF i
<1>7. /\ arptab' \in [Entries -> ArpEntry]
      /\ arptab'[i].state = "resolved" /\ arptab'[i].addr = a /\ arptab'[i].host = a
      /\ \A j \in Entries \ {i} : arptab'[j] = arptab[j]
  <2> DEFINE e == [F[i] EXCEPT !.state = "resolved", !.host = a]
  <2>1. arptab' = [F EXCEPT ![i] = e]
    BY <1>5
  <2>2. e \in ArpEntry /\ e.state = "resolved" /\ e.addr = a /\ e.host = a
    BY <1>4, <1>6 DEF ArpEntry
  <2> HIDE DEF e
  <2>3. QED  BY ONLY <1>4, <1>6, <2>1, <2>2
<1>8. ~reused' => ~reused /\ arptab[i].state = "free"
  BY <1>1
<1>9. atabnxt' \in Entries
  BY <1>1, <1>6, RouteAssumption, Division DEF Entries
<1>10. NextRight' /\ \A p \in Procs : PointsIn(p)'
  BY <1>9 DEF RightInv, NextRight, PointsIn
<1>11. ASSUME ~reused', NEW j \in Entries, arptab'[j].state = "resolved"
       PROVE  Unfilled(j)' \/ arptab'[j].host \in {arptab'[j].addr, Nobody}
  <2>1. arptab[j].state = "resolved" => Unfilled(j) \/ arptab[j].host \in {arptab[j].addr, Nobody}
    BY <1>8, <1>11 DEF RightInv, HostsRight
  <2>2. Unfilled(j)' <=> Unfilled(j)
    BY DEF Unfilled
  <2>3. QED  BY <1>7, <1>11, <2>1, <2>2
<1>12. ASSUME ~reused', NEW p \in Procs, cont[p].at \in Pointing
       PROVE  PointsRight(p)'
  <2>1. PointsRight(p) /\ cont[p].ix \in Entries
    BY <1>8, <1>12 DEF RightInv, PointsIn
  <2>2. CASE cont[p].ix = i
    <3>1. cont[p].at \in {"advance", "rewind", "mark"}
      BY <1>8, <1>12, <2>1, <2>2 DEF PointsRight
    <3>2. QED  BY <3>1 DEF PointsRight
  <2>3. CASE cont[p].ix # i
    <3>1. arptab'[cont[p].ix] = arptab[cont[p].ix]
      BY <1>7, <2>1, <2>3
    <3>2. QED  BY <2>1, <3>1 DEF PointsRight
  <2>4. QED  BY <2>2, <2>3
<1>13. HostsRight' \/ reused'
  BY <1>11 DEF HostsRight
<1>14. ~reused' => ~wrong'
  BY <1>8 DEF RightInv
<1>15. QED  BY <1>7, <1>10, <1>12, <1>13, <1>14 DEF RightInv, ArptabTyped

LEMMA LearntRight ==
  ASSUME RightInv, part = "internet", part' = part, NEW a \in Hosts, Learnt(a), UNCHANGED <<cont, wrong>>
  PROVE  RightInv'
<1>1. CASE Known(a) # {} /\ arptab' = Resolved(arptab, Min(Known(a)), a) /\ UNCHANGED <<atabnxt, reused>>
  <2> DEFINE i == Min(Known(a))
  <2>1. i \in Entries /\ arptab[i].addr = a /\ arptab[i].state # "free"
    BY <1>1, KnownEntry DEF Known
  <2>2. arptab' = Resolved(arptab, i, a)
    BY <1>1
  <2> HIDE DEF i
  <2>3. QED  BY <1>1, <2>1, <2>2, ResolvedRight
<1>2. CASE atabnxt \in Entries /\ arptab' = Resolved(Fresh(a), atabnxt, a) /\ Entered(a)
  BY <1>2, EnteredRight
<1>3. QED  BY <1>1, <1>2 DEF Learnt

\* A process goes on with its entry, or to a place where it has none.
LEMMA RightGoes ==
  ASSUME RightInv, ContTyped, part = "internet", part' = part, UNCHANGED <<arptab, atabnxt, reused, wrong>>,
         NEW p \in Procs, cont[p].at \notin Filling,
         \/ UNCHANGED cont
         \/ \E l \in Labels("internet") \ Filling : Goes(p, l) /\ (l \in Settled => cont[p].at \in Settled)
         \/ \E c \in Conts(Labels("internet")) : Then(p, c) /\ c.at \notin Pointing
  PROVE  RightInv'
<1> DEFINE L == Labels("internet")
<1>1. cont \in [Procs -> Conts(L)]
  BY DEF ContTyped
<1> HIDE DEF L
<1>2. /\ \A q \in Procs \ {p} : cont'[q] = cont[q]
      /\ cont'[p].at \notin Filling
      /\ cont'[p].at \in Settled =>
           cont[p].at \in Settled /\ cont'[p].ix = cont[p].ix /\ cont'[p].to = cont[p].to
  <2>1. CASE UNCHANGED cont
    BY <2>1
  <2>2. CASE \E l \in L \ Filling : Goes(p, l) /\ (l \in Settled => cont[p].at \in Settled)
    BY <1>1, <2>2, GoesTyped
  <2>3. CASE \E c \in Conts(L) : Then(p, c) /\ c.at \notin Pointing
    BY <1>1, <2>3, ThenTyped DEF Pointing
  <2>4. QED  BY <2>1, <2>2, <2>3 DEF L
<1>3. QED  BY <1>2, RightKept

\* A packet that leaves for the host it is for, or for none.
LEMMA RightLeaves ==
  ASSUME RightInv, ContTyped, part = "internet", part' = part, UNCHANGED <<arptab, atabnxt, reused>>,
         NEW p \in Procs, cont[p].at \notin Filling, NEW h, Leaves(p, h),
         ~reused => h \in {cont[p].to, Nobody}
  PROVE  RightInv'
<1> DEFINE L == Labels("internet")
           l == Home(p)
           c == Where(l)
<1>1. cont \in [Procs -> Conts(L)]
  BY DEF ContTyped
<1>2. l \in L /\ l \notin Pointing
  BY DEF Home, Labels, Pointing, Filling, Settled
<1> HIDE DEF L, l
<1>3. c \in Conts(L) /\ c.at = l
  BY <1>2, WhereTyped
<1>4. Then(p, c)
  BY DEF Leaves, l
<1> HIDE DEF c
<1>5. cont'[p] = c /\ \A q \in Procs \ {p} : cont'[q] = cont[q]
  BY <1>1, <1>3, <1>4, ThenTyped
<1>6. wrong' = (wrong \/ h \notin {cont[p].to, Nobody})
  BY DEF Leaves
<1>7. ~reused' => ~wrong'
  BY <1>6 DEF RightInv
<1>8. ArptabTyped'
  BY DEF RightInv, ArptabTyped
<1>9. \A q \in Procs : cont[q].at \in Filling \/ cont'[q].at \in Pointing => cont'[q] = cont[q]
  BY <1>2, <1>3, <1>5
<1>10. NextRight'
  <2>1. NextRight /\ "rewind" \in Filling
    BY DEF RightInv, Filling
  <2>2. QED  BY <1>9, <2>1 DEF NextRight
<1>11. \A q \in Procs : PointsIn(q)'
  BY <1>9 DEF RightInv, PointsIn
<1>12. ~reused' => \A q \in Procs : cont'[q].at \in Pointing => PointsRight(q)'
  BY <1>9 DEF RightInv, PointsRight
<1>13. ~reused' => HostsRight'
  <2>1. \A i \in Entries : Unfilled(i) => Unfilled(i)'
    <3>1. "zero" \in Filling
      BY DEF Filling
    <3>2. QED  BY <1>9, <3>1 DEF Unfilled
  <2>2. QED  BY <2>1 DEF RightInv, HostsRight
<1>14. QED  BY <1>7, <1>8, <1>10, <1>11, <1>12, <1>13 DEF RightInv

\* What the one who knows an entry does to it and to atabnxt.
LEMMA RightAlone ==
  ASSUME RightInv, part = "internet", part' = part, NEW p \in Procs,
         \A q \in Procs \ {p} : cont[q].at \notin Pointing /\ cont'[q] = cont[q],
         UNCHANGED <<reused, wrong>>, ArptabTyped',
         atabnxt' \in Entries \/ cont'[p].at = "rewind", PointsIn(p)',
         ~reused => HostsRight' /\ (cont'[p].at \in Pointing => PointsRight(p)')
  PROVE  RightInv'
<1>1. NextRight'
  BY DEF NextRight
<1>2. \A q \in Procs : PointsIn(q)'
  BY DEF PointsIn
<1>3. ~reused => \A q \in Procs : cont'[q].at \in Pointing => PointsRight(q)'
  OBVIOUS
<1>4. QED  BY <1>1, <1>2, <1>3 DEF RightInv

\* arpfind inserts: where p goes, with its entry.
LEMMA InsertsAt ==
  ASSUME TableMutex, ContTyped, part = "internet", NEW p \in Procs,
         cont[p].at \in TablePlaces, NEW l \in Labels("internet"), Goes(p, l)
  PROVE  /\ cont'[p].at = l /\ cont'[p].ix = cont[p].ix /\ cont'[p].to = cont[p].to
         /\ \A q \in Procs \ {p} : cont[q].at \notin Pointing /\ cont'[q] = cont[q]
<1> DEFINE L == Labels("internet")
<1>1. cont \in [Procs -> Conts(L)] /\ l \in L
  BY DEF ContTyped
<1> HIDE DEF L
<1>2. /\ cont'[p].at = l /\ cont'[p].ix = cont[p].ix /\ cont'[p].to = cont[p].to
      /\ \A q \in Procs \ {p} : cont'[q] = cont[q]
  BY <1>1, GoesTyped
<1>3. \A q \in Procs \ {p} : cont[q].at \notin TablePlaces
  BY TableAlone
<1>4. Pointing \subseteq TablePlaces
  BY DEF Pointing, Filling, Settled, TablePlaces
<1>5. QED  BY <1>2, <1>3, <1>4

\* ... the entry is chosen, and atabnxt moved on ...
LEMMA InsertRight ==
  ASSUME RightInv, TableMutex, ContTyped, TableTyped, part = "internet", part' = part, NEW p \in Procs,
         Insert(p) \/ Advance(p) \/ Rewind(p)
  PROVE  RightInv'
<1> DEFINE L == Labels("internet")
<1>1. {"advance", "rewind", "mark"} \subseteq L
  BY DEF Labels
<1>2. cont \in [Procs -> Conts(L)]
  BY DEF ContTyped
<1> HIDE DEF L
<1>3. /\ cont[p].at \in {"insert", "advance", "rewind"} /\ cont[p].at \in TablePlaces
      /\ UNCHANGED <<arptab, reused, wrong>>
  BY DEF Insert, Advance, Rewind, At, sentVars, TablePlaces
<1>4. \A q \in Procs \ {p} : cont[q].at \notin Pointing
  <2>1. \A q \in Procs \ {p} : cont[q].at \notin TablePlaces
    BY <1>3, TableAlone
  <2>2. Pointing \subseteq TablePlaces
    BY DEF Pointing, Filling, Settled, TablePlaces
  <2>3. QED  BY <2>1, <2>2
<1>5. {"rewind", "zero"} \subseteq Pointing /\ {"advance", "rewind", "mark"} \subseteq Pointing
  BY DEF Pointing, Filling
<1>6. cont[p].at # "rewind" => atabnxt \in Entries
  BY <1>4, <1>5 DEF RightInv, NextRight
<1>7. /\ \A q \in Procs \ {p} : cont'[q] = cont[q]
      /\ cont'[p].at \in {"advance", "rewind", "mark"} /\ cont'[p].ix \in Entries
      /\ atabnxt' \in Entries \/ cont'[p].at = "rewind"
  <2>1. CASE Insert(p)
    <3>1. cont' = [cont EXCEPT ![p].ix = atabnxt, ![p].try = 0, ![p].at = "advance"] /\ atabnxt' = atabnxt
      BY <2>1 DEF Insert
    <3>2. atabnxt \in Entries
      BY <1>6, <2>1 DEF Insert, At
    <3>3. QED  BY <1>2, <3>1, <3>2 DEF Conts
  <2>2. CASE Advance(p)
    <3> DEFINE l == IF atabnxt + 1 >= AR_TAB THEN "rewind" ELSE "mark"
    <3>1. Goes(p, l) /\ atabnxt' = atabnxt + 1 /\ cont[p].at = "advance"
      BY <2>2 DEF Advance, At
    <3>2. atabnxt \in Entries /\ cont[p].ix \in Entries
      BY <1>5, <1>6, <3>1 DEF RightInv, PointsIn
    <3>3. l = "rewind" \/ (l = "mark" /\ atabnxt + 1 \in Entries)
      BY <3>2, RouteAssumption DEF Entries
    <3> HIDE DEF l
    <3>4. cont'[p].at = l /\ cont'[p].ix = cont[p].ix /\ \A q \in Procs \ {p} : cont'[q] = cont[q]
      BY <1>1, <1>2, <3>1, <3>3, GoesTyped
    <3>5. QED  BY <3>1, <3>2, <3>3, <3>4
  <2>3. CASE Rewind(p)
    <3>1. Goes(p, "mark") /\ atabnxt' = 0 /\ cont[p].at = "rewind"
      BY <2>3 DEF Rewind, At
    <3>2. 0 \in Entries /\ cont[p].ix \in Entries
      BY <1>5, <3>1, RouteAssumption DEF RightInv, PointsIn, Entries
    <3>3. cont'[p].at = "mark" /\ cont'[p].ix = cont[p].ix /\ \A q \in Procs \ {p} : cont'[q] = cont[q]
      BY <1>1, <1>2, <3>1, GoesTyped
    <3>4. QED  BY <3>1, <3>2, <3>3
  <2>4. QED  BY <2>1, <2>2, <2>3
<1>8. ArptabTyped' /\ PointsIn(p)' /\ PointsRight(p)'
  BY <1>3, <1>7 DEF RightInv, ArptabTyped, PointsIn, PointsRight
<1>9. ~reused => HostsRight'
  <2>1. \A i \in Entries : ~Unfilled(i)
    BY <1>3, <1>4, <1>5 DEF Unfilled
  <2>2. QED  BY <1>3, <2>1 DEF RightInv, HostsRight
<1>10. QED  BY <1>3, <1>4, <1>7, <1>8, <1>9, RightAlone

\* ... and the entry is filled.
LEMMA FillsRight ==
  ASSUME RightInv, TableMutex, ContTyped, part = "internet", part' = part, NEW p \in Procs,
         MarkAlloc(p) \/ CopyIad(p) \/ ClearEad(p)
  PROVE  RightInv'
<1> DEFINE i == cont[p].ix
<1>1. /\ cont[p].at \in {"mark", "name", "zero"} /\ UNCHANGED <<atabnxt, reused, wrong>>
  BY DEF MarkAlloc, CopyIad, ClearEad, Fills, At, sentVars
<1>2. cont[p].at \in TablePlaces /\ cont[p].at \in Pointing
  BY <1>1 DEF TablePlaces, Pointing, Filling
<1>3. arptab \in [Entries -> ArpEntry] /\ i \in Entries /\ cont[p].to \in Hosts \cup {Broadcast, Nobody}
  BY <1>2 DEF RightInv, ArptabTyped, PointsIn, ContTyped, Conts
<1>4. \A q \in Procs \ {p} : cont[q].at \notin TablePlaces
  BY <1>2, TableAlone
<1>5. {"rewind", "zero"} \subseteq TablePlaces /\ "rewind" # cont[p].at
  BY <1>1 DEF TablePlaces
<1>6. atabnxt' \in Entries
  BY <1>1, <1>4, <1>5 DEF RightInv, NextRight
<1>7. ASSUME NEW l \in {"name", "zero", "found"}, NEW e \in ArpEntry, Goes(p, l),
             arptab' = [arptab EXCEPT ![i] = e],
             e.state # "free", l \in {"zero", "found"} => e.addr = cont[p].to,
             e.state = "resolved" => l = "zero" \/ e.host \in {e.addr, Nobody}
      PROVE  RightInv'
  <2>1. l \in Labels("internet") /\ l \in Pointing
    BY <1>7 DEF Labels, Pointing, Filling, Settled
  <2>2. /\ cont'[p].at = l /\ cont'[p].ix = i /\ cont'[p].to = cont[p].to
        /\ \A q \in Procs \ {p} : cont[q].at \notin Pointing /\ cont'[q] = cont[q]
    BY <1>2, <1>7, <2>1, InsertsAt
  <2> HIDE DEF i
  <2>3. arptab' \in [Entries -> ArpEntry] /\ \A j \in Entries : arptab'[j] = IF j = i THEN e ELSE arptab[j]
    BY <1>3, <1>7
  <2>4. PointsIn(p)'
    BY <1>3, <2>2 DEF PointsIn
  <2>5. PointsRight(p)'
    BY <1>3, <1>7, <2>2, <2>3 DEF PointsRight
  <2>6. ASSUME ~reused, NEW j \in Entries, arptab'[j].state = "resolved"
        PROVE  Unfilled(j)' \/ arptab'[j].host \in {arptab'[j].addr, Nobody}
    <3>1. CASE j = i
      <4>1. l = "zero" => Unfilled(j)'
        BY <2>2, <3>1 DEF Unfilled
      <4>2. arptab'[j] = e
        BY <2>3, <3>1
      <4>3. QED  BY <1>7, <2>6, <4>1, <4>2
    <3>2. CASE j # i
      <4>1. ~Unfilled(j)
        BY <1>4, <1>5, <3>2 DEF Unfilled, i
      <4>2. arptab'[j] = arptab[j]
        BY <2>3, <3>2
      <4>3. arptab[j].host \in {arptab[j].addr, Nobody}
        BY <2>6, <4>1, <4>2 DEF RightInv, HostsRight
      <4>4. QED  BY <4>2, <4>3
    <3>3. QED  BY <3>1, <3>2
  <2>7. HostsRight' \/ reused
    BY <2>6 DEF HostsRight
  <2>8. ArptabTyped'
    BY <2>3 DEF ArptabTyped
  <2>9. QED  BY <1>1, <1>6, <2>2, <2>4, <2>5, <2>7, <2>8, RightAlone
<1>8. CASE MarkAlloc(p)
  <2> DEFINE e == [arptab[i] EXCEPT !.state = "alloc"]
  <2>1. Goes(p, "name") /\ arptab' = [arptab EXCEPT ![i] = e]
    BY <1>8 DEF MarkAlloc, Fills
  <2>2. e \in ArpEntry /\ e.state = "alloc"
    BY <1>3 DEF ArpEntry
  <2> HIDE DEF e
  <2>3. QED  BY <1>7, <2>1, <2>2
<1>9. CASE CopyIad(p)
  <2> DEFINE e == [arptab[i] EXCEPT !.addr = cont[p].to]
  <2>1. Goes(p, "zero") /\ arptab' = [arptab EXCEPT ![i] = e] /\ cont[p].at = "name"
    BY <1>9 DEF CopyIad, Fills, At
  <2>2. e \in ArpEntry /\ e.addr = cont[p].to /\ e.state = arptab[i].state
    BY <1>3 DEF ArpEntry
  <2> HIDE DEF e
  <2>3. CASE ~reused
    <3>1. arptab[i].state # "free"
      BY <1>2, <2>1, <2>3 DEF RightInv, PointsRight
    <3>2. QED  BY <1>7, <2>1, <2>2, <3>1
  <2>4. CASE reused
    <3>1. "zero" \in Labels("internet")
      BY DEF Labels
    <3>2. /\ cont'[p].at = "zero" /\ cont'[p].ix = i
          /\ \A q \in Procs \ {p} : cont[q].at \notin Pointing /\ cont'[q] = cont[q]
      BY <1>2, <2>1, <3>1, InsertsAt
    <3> HIDE DEF i
    <3>3. ArptabTyped'
      BY <1>3, <2>1, <2>2 DEF ArptabTyped
    <3>4. PointsIn(p)'
      BY <1>3, <3>2 DEF PointsIn
    <3>5. QED  BY <1>1, <1>6, <2>4, <3>2, <3>3, <3>4, RightAlone
  <2>5. QED  BY <2>3, <2>4
<1>10. CASE ClearEad(p)
  <2> DEFINE e == [arptab[i] EXCEPT !.host = Nobody]
  <2>1. Goes(p, "found") /\ arptab' = [arptab EXCEPT ![i] = e] /\ cont[p].at = "zero"
    BY <1>10 DEF ClearEad, Fills, At
  <2>2. e \in ArpEntry /\ e.host = Nobody /\ e.addr = arptab[i].addr /\ e.state = arptab[i].state
    BY <1>3 DEF ArpEntry
  <2> HIDE DEF e
  <2>3. CASE ~reused
    <3>1. arptab[i].state # "free" /\ arptab[i].addr = cont[p].to
      BY <1>2, <2>1, <2>3 DEF RightInv, PointsRight
    <3>2. QED  BY <1>7, <2>1, <2>2, <3>1
  <2>4. CASE reused
    <3>1. "found" \in Labels("internet")
      BY DEF Labels
    <3>2. /\ cont'[p].at = "found" /\ cont'[p].ix = i
          /\ \A q \in Procs \ {p} : cont[q].at \notin Pointing /\ cont'[q] = cont[q]
      BY <1>2, <2>1, <3>1, InsertsAt
    <3> HIDE DEF i
    <3>3. ArptabTyped'
      BY <1>3, <2>1, <2>2 DEF ArptabTyped
    <3>4. PointsIn(p)'
      BY <1>3, <3>2 DEF PointsIn
    <3>5. QED  BY <1>1, <1>6, <2>4, <3>2, <3>3, <3>4, RightAlone
  <2>5. QED  BY <2>3, <2>4
<1>11. QED  BY <1>8, <1>9, <1>10

LEMMA RouteStepRight ==
  ASSUME RightInv, TableMutex, ContTyped, TableTyped, part = "internet", part' = part, NEW p \in Procs,
         RouteStep(p)
  PROVE  RightInv'
<1> DEFINE L == Labels("internet")
<1>1. /\ {"user", "serve", "route", "turn", "insert", "found", "request", "ask", "await", "answered", "test",
          "gate"} \subseteq L \ (Filling \ {"insert"})
      /\ cont \in [Procs -> Conts(L)] /\ cont[p] \in Conts(L) /\ cont[p].try \in Nat
  BY DEF ContTyped, Labels, Conts, Filling
<1> HIDE DEF L
<1>2. CASE RouteTurn(p) \/ Found(p) \/ Mkarp(p) \/ Ask(p) \/ Answered(p) \/ Asked(p)
  <2>1. cont[p].at \notin Filling /\ \E l \in L \ Filling : Goes(p, l) /\ (l \in Settled => cont[p].at \in Settled)
    BY <1>1, <1>2 DEF RouteTurn, Found, Mkarp, Ask, Answered, Asked, At, Settled, Filling
  <2>2. UNCHANGED <<arptab, atabnxt, reused, wrong>>
    BY <1>2 DEF RouteTurn, Found, Mkarp, Ask, Answered, Asked, tableVars, sentVars
  <2>3. QED  BY <2>1, <2>2, RightGoes DEF L
<1>3. CASE Getpath(p)
  <2>1. UNCHANGED <<arptab, atabnxt, reused>> /\ cont[p].at \notin Pointing /\ cont[p].at \notin Filling
    BY <1>3 DEF Getpath, tableVars, At, Pointing, Filling, Settled
  <2>2. CASE cont[p].to = Broadcast
    <3>1. Leaves(p, Broadcast)
      BY <1>3, <2>2 DEF Getpath
    <3>2. QED  BY <2>1, <2>2, <3>1, RightLeaves
  <2>3. CASE cont[p].to # Broadcast /\ Known(cont[p].to) = {}
    <3>1. Goes(p, "insert") /\ wrong' = wrong
      BY <1>3, <2>3 DEF Getpath, sentVars
    <3>2. "insert" \notin Settled /\ "insert" \notin Filling
      BY DEF Settled, Filling
    <3>3. QED  BY <1>1, <2>1, <3>1, <3>2, RightGoes DEF L
  <2>4. CASE cont[p].to # Broadcast /\ Known(cont[p].to) # {}
    <3> DEFINE i == Min(Known(cont[p].to))
    <3>1. i \in Entries /\ arptab[i].addr = cont[p].to /\ arptab[i].state # "free"
      BY <2>4, KnownEntry DEF Known
    <3>2. cont' = [cont EXCEPT ![p].ix = i, ![p].try = 0, ![p].at = "found"] /\ wrong' = wrong
      BY <1>3, <2>4 DEF Getpath, sentVars
    <3> HIDE DEF i
    <3>3. /\ cont'[p].ix = i /\ cont'[p].to = cont[p].to /\ cont'[p].at = "found"
          /\ \A q \in Procs \ {p} : cont'[q] = cont[q]
      BY <1>1, <3>2 DEF Conts
    <3>4. \A q \in Procs : cont[q].at \in Filling => q # p
      BY <2>1
    <3>5. NextRight'
      <4>1. NextRight /\ "rewind" \in Filling
        BY DEF RightInv, Filling
      <4>2. QED  BY <2>1, <3>3, <3>4, <4>1 DEF NextRight
    <3>6. \A q \in Procs : PointsIn(q)'
      BY <3>1, <3>3 DEF RightInv, PointsIn
    <3>7. PointsRight(p)'
      BY <2>1, <3>1, <3>3 DEF PointsRight
    <3>8. ~reused => \A q \in Procs : cont'[q].at \in Pointing => PointsRight(q)'
      <4>1. ASSUME ~reused, NEW q \in Procs \ {p}, cont'[q].at \in Pointing PROVE PointsRight(q)'
        <5>1. PointsRight(q) /\ cont'[q] = cont[q]
          BY <3>3, <4>1 DEF RightInv
        <5>2. QED  BY <2>1, <5>1 DEF PointsRight
      <4>2. QED  BY <3>7, <4>1
    <3>9. ~reused => HostsRight'
      <4>1. \A j \in Entries : Unfilled(j) => Unfilled(j)'
        <5>1. "zero" \in Filling
          BY DEF Filling
        <5>2. QED  BY <3>3, <3>4, <5>1 DEF Unfilled
      <4>2. QED  BY <2>1, <4>1 DEF RightInv, HostsRight
    <3>10. QED  BY <2>1, <3>2, <3>5, <3>6, <3>8, <3>9 DEF RightInv, ArptabTyped
  <2>5. QED  BY <2>2, <2>3, <2>4
<1>4. CASE Insert(p) \/ Advance(p) \/ Rewind(p)
  BY <1>4, InsertRight
<1>5. CASE TimesOut(p)
  <2> DEFINE t == cont[p].try + 1
             l == IF t < AR_RTRY THEN "request" ELSE "answered"
  <2>1. /\ cont' = [cont EXCEPT ![p].try = t, ![p].at = l] /\ UNCHANGED <<arptab, atabnxt, reused, wrong>>
        /\ cont[p].at = "await" /\ l \in {"request", "answered"}
    BY <1>5 DEF TimesOut, tableVars, sentVars, At
  <2> HIDE DEF t, l
  <2>2. /\ cont'[p].ix = cont[p].ix /\ cont'[p].to = cont[p].to /\ cont'[p].at = l
        /\ \A q \in Procs \ {p} : cont'[q] = cont[q]
    BY <1>1, <2>1 DEF Conts
  <2>3. cont[p].at \in Settled /\ cont[p].at \notin Filling /\ cont'[p].at \notin Filling
    BY <2>1, <2>2 DEF Settled, Filling
  <2>4. QED  BY <2>1, <2>2, <2>3, RightKept
<1>6. CASE Test(p)
  <2> DEFINE e == arptab[cont[p].ix]
  <2>1. UNCHANGED <<arptab, atabnxt, reused>> /\ cont[p].at = "test"
    BY <1>6 DEF Test, tableVars, At
  <2>2. cont[p].at \in Pointing /\ cont[p].at \in Settled /\ cont[p].at \notin Filling /\ cont[p].at \in TablePlaces
    BY <2>1 DEF Pointing, Settled, Filling, TablePlaces
  <2>3. CASE e.state = "resolved" /\ Leaves(p, e.host)
    <3>1. ASSUME ~reused PROVE e.host \in {cont[p].to, Nobody}
      <4>1. cont[p].ix \in Entries /\ e.addr = cont[p].to
        BY <2>1, <2>2, <3>1 DEF RightInv, PointsIn, PointsRight
      <4>2. ~Unfilled(cont[p].ix)
        <5>1. \A q \in Procs \ {p} : cont[q].at \notin TablePlaces
          BY <2>2, TableAlone
        <5>2. "zero" \in TablePlaces
          BY DEF TablePlaces
        <5>3. QED  BY <2>1, <5>1, <5>2 DEF Unfilled
      <4>3. QED  BY <2>3, <3>1, <4>1, <4>2 DEF RightInv, HostsRight
    <3>2. QED  BY <2>1, <2>2, <2>3, <3>1, RightLeaves
  <2>4. CASE wrong' = wrong /\ (UNCHANGED cont \/ Goes(p, "gate"))
    <3>1. "gate" \in L \ Filling
      BY <1>1 DEF Filling
    <3>2. QED  BY <2>1, <2>2, <2>4, <3>1, RightGoes DEF L
  <2>5. QED  BY <1>6, <2>3, <2>4 DEF Test, sentVars
<1>7. CASE Gate(p)
  <2> DEFINE i == cont[p].ix
             c == [Where("turn") EXCEPT !.to = Gateway, !.via = TRUE]
  <2>1. /\ arptab' = [arptab EXCEPT ![i].state = "gate"] /\ UNCHANGED <<atabnxt, reused, wrong>>
        /\ Then(p, c) /\ cont[p].at = "gate"
    BY <1>7 DEF Gate, sentVars, At
  <2>2. c \in Conts(L) /\ c.at = "turn" /\ "turn" \notin Pointing
    <3>1. "turn" \in L /\ Gateway \in Hosts
      BY <1>1, RouteAssumption
    <3> HIDE DEF c
    <3>2. c \in Conts(L) /\ c.at = "turn"
      BY ONLY <3>1, WhereTyped DEF c
    <3>3. "turn" \notin Pointing
      BY DEF Pointing, Filling, Settled
    <3>4. QED  BY <3>2, <3>3
  <2>3. cont[p].at \in TablePlaces
    BY <2>1 DEF TablePlaces
  <2> HIDE DEF c, i
  <2>4. cont'[p] = c /\ \A q \in Procs \ {p} : cont'[q] = cont[q]
    BY <1>1, <2>1, <2>2, ThenTyped
  <2>5. \A q \in Procs \ {p} : cont[q].at \notin TablePlaces
    BY <2>3, TableAlone
  <2>6. Pointing \subseteq TablePlaces /\ {"rewind", "zero"} \subseteq TablePlaces
    BY DEF Pointing, Filling, Settled, TablePlaces
  <2>7. arptab \in [Entries -> ArpEntry]
    BY DEF RightInv, ArptabTyped
  <2>8. /\ arptab' \in [Entries -> ArpEntry]
        /\ \A j \in Entries : /\ arptab'[j].addr = arptab[j].addr /\ arptab'[j].host = arptab[j].host
                              /\ arptab'[j].state = "resolved" => arptab[j].state = "resolved"
    BY <2>1, <2>7 DEF ArpEntry
  <2>9. atabnxt' \in Entries
    BY <2>1, <2>5, <2>6 DEF RightInv, NextRight
  <2>10. \A j \in Entries : ~Unfilled(j)
    BY <2>1, <2>5, <2>6 DEF Unfilled
  <2>11. ~reused => HostsRight'
    BY <2>8, <2>10 DEF RightInv, HostsRight
  <2>12. PointsIn(p)' /\ cont'[p].at \notin Pointing
    BY <2>2, <2>4 DEF PointsIn
  <2>13. ArptabTyped'
    BY <2>8 DEF ArptabTyped
  <2>14. QED  BY <2>1, <2>4, <2>5, <2>6, <2>9, <2>11, <2>12, <2>13, RightAlone
<1>8. CASE MarkAlloc(p) \/ CopyIad(p) \/ ClearEad(p)
  BY <1>8, FillsRight
<1>9. QED
  BY <1>2, <1>3, <1>4, <1>5, <1>6, <1>7, <1>8 DEF RouteStep

LEMMA InternetRight ==
  ASSUME RightInv, DgramInv, AnswerInv, ContTyped, TableTyped, part = "internet", part' = part, InternetNext
  PROVE  RightInv'
<1> DEFINE L == Labels("internet")
           Off == {"boot", "unborn", "rarp", "user", "serve", "echo", "route", "clear", "receive", "timed", "write"}
<1>1. Off \subseteq L /\ Off \cap Pointing = {} /\ Off \cap Filling = {}
      /\ cont \in [Procs -> Conts(L)] /\ \A p \in Procs : cont[p].ix \in Nat /\ cont[p].try \in Nat
  BY DEF ContTyped, Labels, Conts, Pointing, Filling, Settled
<1>2. TableMutex /\ BootInv /\ MailTyped
  BY DEF AnswerInv, AskedTyped
<1> HIDE DEF L
<1>3. CASE Sndrarp \/ RarpAnswered \/ RarpTimesOut
  <2>1. \A p \in Procs : cont'[p].at \notin Pointing /\ cont[p].at \notin Pointing
    <3>1. cont[netout].at \in {"boot", "rarp"} /\ \A q \in Procs \ {netout} : cont[q].at = "unborn"
      BY <1>2, <1>3, NetProcsAssumption DEF BootInv, Sndrarp, RarpAnswered, RarpTimesOut, At
    <3>2. CASE Sndrarp
      <4>1. cont'[netout].at = "rarp" /\ \A q \in Procs \ {netout} : cont'[q] = cont[q]
        BY <1>1, <3>2, GoesTyped, NetProcsAssumption DEF Sndrarp
      <4>2. QED  BY <1>1, <3>1, <4>1
    <3>3. CASE RarpAnswered
      <4>1. \A p \in Procs : cont'[p] = Where(Home(p)) /\ Home(p) \in {"user", "serve"}
        BY <3>3 DEF RarpAnswered, Home
      <4>2. \A p \in Procs : cont'[p].at \in {"user", "serve"}
        <5>1. \A l : Where(l).at = l
          BY DEF Where
        <5>2. QED  BY <4>1, <5>1
      <4>3. QED  BY <1>1, <3>1, <4>2
    <3>4. CASE RarpTimesOut
      <4> DEFINE t == cont[netout].try + 1
      <4>1. cont' = [cont EXCEPT ![netout].at = "boot", ![netout].try = t]
        BY <3>4 DEF RarpTimesOut
      <4> HIDE DEF t
      <4>2. cont'[netout].at = "boot" /\ \A q \in Procs \ {netout} : cont'[q] = cont[q]
        BY <1>1, <4>1, NetProcsAssumption DEF Conts
      <4>3. QED  BY <1>1, <3>1, <4>2
    <3>5. QED  BY <1>3, <3>2, <3>3, <3>4
  <2>2. UNCHANGED <<arptab, atabnxt, reused, wrong>>
    BY <1>3 DEF Sndrarp, RarpAnswered, RarpTimesOut, tableVars, sentVars
  <2>3. QED  BY <2>1, <2>2, RightKept DEF Pointing
<1>4. CASE \E p \in Procs : RouteStep(p)
  BY <1>2, <1>4, RouteStepRight
<1>5. CASE RouteIn
  <2>1. CASE \E a \in Hosts : ArpRequestIn(a) \/ ArpReplyIn(a)
    BY <2>1, LearntRight DEF ArpRequestIn, ArpReplyIn, sentVars
  <2>2. CASE RarpReplyIn \/ \E a \in Hosts : EntersBeyond(a)
    <3>1. UNCHANGED <<arptab, atabnxt, reused, wrong, cont>>
      BY <2>2 DEF RarpReplyIn, EntersBeyond, tableVars, sentVars
    <3>2. QED  BY <3>1, RightKept
  <2>3. QED  BY <1>5, <2>1, <2>2 DEF RouteIn
<1>6. CASE \E p \in Procs : DatagramStep(p)
  <2>1. PICK p \in Procs : DatagramStep(p)
    BY <1>6
  <2>2. UNCHANGED <<arptab, atabnxt, reused, wrong>>
    BY <2>1 DEF DatagramStep, Dgmopen, Dgclose, DgcntlSetmode, DgcntlClear, ClearsOn, Dgread, DgreadTimesOut,
                DgreadOn, Preceived, Dgwrite, DgwriteOn, routeVars, routeOwn, tableVars, sentVars
  <2>3. /\ cont[p].at \in Off /\ cont'[p].at \in Off /\ \A q \in Procs \ {p} : cont'[q] = cont[q]
    BY <1>2, <2>1, DatagramShape DEF CallShape
  <2> HIDE DEF Off
  <2>4. \A q \in Procs : /\ cont'[q].at \in Settled => cont'[q] = cont[q] /\ cont[q].at \in Settled
                         /\ cont[q].at \in Filling \/ cont'[q].at \in Filling => cont'[q] = cont[q]
    BY <1>1, <2>3 DEF Pointing
  <2>5. QED  BY <2>2, <2>4, RightKept
<1>7. CASE NetoutTakes \/ NetoutListens
  <2>1. UNCHANGED <<arptab, atabnxt, reused, wrong>> /\ netout \in Procs
    BY <1>7, NetProcsAssumption DEF NetoutTakes, NetoutListens, routeOwn, tableVars, sentVars
  <2>2. /\ cont[netout].at \in Off /\ cont'[netout].at \in {"route", "echo"}
        /\ \A q \in Procs \ {netout} : cont'[q] = cont[q]
    <3>1. CASE NetoutTakes
      <4> DEFINE c == [Where("route") EXCEPT !.to = Head(icmpq)]
      <4>1. Head(icmpq) \in Hosts
        BY <3>1 DEF NetoutTakes, TableTyped
      <4>2. c \in Conts(L) /\ c.at = "route" /\ Then(netout, c)
        BY <1>1, <3>1, <4>1, WhereTyped DEF NetoutTakes
      <4>3. cont[netout].at \in Off
        BY <3>1 DEF NetoutTakes, At
      <4> HIDE DEF c
      <4>4. QED  BY <1>1, <2>1, <4>2, <4>3, ThenTyped
    <3>2. CASE NetoutListens
      <4>1. Goes(netout, "echo") /\ cont[netout].at \in Off /\ "echo" \in L
        BY <1>1, <3>2 DEF NetoutListens, At
      <4>2. QED  BY <1>1, <2>1, <4>1, GoesTyped
    <3>3. QED  BY <1>7, <3>1, <3>2
  <2>3. cont'[netout].at \in Off
    BY <2>2
  <2> HIDE DEF Off
  <2>4. \A q \in Procs : /\ cont'[q].at \in Settled => cont'[q] = cont[q] /\ cont[q].at \in Settled
                         /\ cont[q].at \in Filling \/ cont'[q].at \in Filling => cont'[q] = cont[q]
    BY <1>1, <2>2, <2>3 DEF Pointing
  <2>5. QED  BY <2>1, <2>4, RightKept
<1>8. CASE \/ \E u \in UdpPorts : UdpIn(u)
           \/ \E a \in Hosts : IcmpIn(a)
  <2>1. UNCHANGED <<arptab, atabnxt, reused, wrong, cont>>
    BY <1>8 DEF UdpIn, IcmpIn, tableVars, sentVars
  <2>2. QED  BY <2>1, RightKept
<1>9. QED
  BY <1>3, <1>4, <1>5, <1>6, <1>7, <1>8 DEF InternetNext

\* Every packet goes to the host it is for, or to its gateway, or to nobody, as long as netin
\* gives no entry in use to another address: whatever netin does between any two steps of
\* arpfind and getpath, which run with interrupts enabled (getpath, route, arp_in, arpfind).
THEOREM RightHostCorrect == NetSpec => []RightHost
<1>1. NetInit => RightInv
  <2>1. SUFFICES ASSUME NetInit PROVE RightInv
    OBVIOUS
  <2>2. /\ arptab = [i \in Entries |-> [state |-> "free", addr |-> Nobody, host |-> Nobody]]
        /\ ~reused /\ ~wrong /\ atabnxt = 0
    BY <2>1 DEF NetInit, InternetInit, RouteInit
  <2>3. \A p \in Procs : cont[p].at \in {"user", "boot", "unborn"}
    BY <2>1 DEF NetInit, Booting, Where
  <2>4. \A p \in Procs : cont[p].at \notin Pointing
    BY <2>3 DEF Pointing, Filling, Settled
  <2>5. ArptabTyped /\ HostsRight
    BY <2>2 DEF ArptabTyped, ArpEntry, HostsRight
  <2>6. NextRight
    BY <2>2, RouteAssumption DEF NextRight, Entries
  <2>7. QED  BY <2>2, <2>4, <2>5, <2>6 DEF RightInv, PointsIn
<1>2. ContTyped /\ TableTyped /\ DgramInv /\ AnswerInv /\ RightInv /\ [NetNext]_netVars => RightInv'
  <2>1. SUFFICES ASSUME ContTyped, TableTyped, DgramInv, AnswerInv, RightInv, [NetNext]_netVars
                 PROVE  RightInv'
    OBVIOUS
  <2>2. CASE part = "internet" /\ InternetNext /\ part' = part
    BY <2>1, <2>2, InternetRight
  <2>3. CASE part # "internet" /\ UNCHANGED <<dgramOwn, part>>
    <3>1. UNCHANGED <<arptab, wrong>>
      BY <2>3 DEF dgramOwn, routeOwn, tableVars, sentVars
    <3>2. QED  BY <2>1, <2>3, <3>1 DEF RightInv, ArptabTyped
  <2>4. CASE UNCHANGED <<dgramOwn, cont, part>>
    <3>1. UNCHANGED <<arptab, atabnxt, reused, wrong, cont, part>>
      BY <2>4 DEF dgramOwn, routeOwn, tableVars, sentVars
    <3>2. QED  BY <2>1, <3>1 DEF RightInv, ArptabTyped, HostsRight, Unfilled, PointsRight, NextRight, PointsIn
  <2>5. QED  BY <2>1, <2>2, <2>3, <2>4 DEF NetNext, netVars
<1>3. RightInv => RightHost
  BY DEF RightInv, RightHost
<1>4. QED  BY <1>1, <1>2, <1>3, NetTyped, DgramAnswerHold, PTL DEF NetSpec

------------------------------------------------------------------------------
(* The room in the ports, and whom netin waits for in psend. *)

RoomInv ==
  /\ part # "internet" => icmpq = <<>> /\ \A n \in Devices : netqs[n].queued = 0
  /\ Len(icmpq) <= NETFQ + EchoAwaited
  /\ \A n \in Devices : /\ netqs[n].queued <= NETQLEN + 1
                        /\ NetinWaitsAt(n) => Receivers(n) # {} /\ Len(icmpq) <= NETFQ
                        /\ \A m \in Devices : NetinWaitsAt(n) /\ NetinWaitsAt(m) => m = n

LEMMA QueueTyped ==
  ASSUME DgramTyped, NEW d \in Devices
  PROVE  QueueOf(d) \in Devices /\ netqs[QueueOf(d)].queued \in Nat /\ d \in Nat
<1>1. QueueOf(d) \in Devices
  BY DEF DgramTyped, DeviceTable, QueueOf
<1>2. \A n \in Devices : netqs[n].queued \in Nat
  BY DEF DgramTyped, QueueTable
<1>3. d \in Nat
  BY DEF Devices
<1>4. QED  BY <1>1, <1>2, <1>3

\* No queue grows, and netin is left waiting only for somebody who still waits.
LEMMA RoomKept ==
  ASSUME RoomInv, DgramTyped, DgramTyped', TableTyped, part = "internet", part' = part, UNCHANGED icmpq,
         \A n \in Devices : netqs'[n].queued <= netqs[n].queued,
         \A n \in Devices : NetinWaitsAt(n)' => Receivers(n)' # {},
         At(netout, "echo") => At(netout, "echo")'
  PROVE  RoomInv'
<1>1. NETQLEN \in Nat /\ NETFQ \in Nat /\ Len(icmpq) \in Nat /\ EchoAwaited \in Nat /\ EchoAwaited' \in Nat
  BY DatagramAssumption DEF TableTyped, EchoAwaited
<1>2. EchoAwaited <= EchoAwaited'
  BY DEF EchoAwaited
<1>3. Len(icmpq') <= NETFQ + EchoAwaited'
  BY <1>1, <1>2 DEF RoomInv
<1>4. \A n \in Devices : netqs[n].queued \in Nat /\ netqs'[n].queued \in Nat
  BY DEF DgramTyped, QueueTable
<1>5. \A n \in Devices : NetinWaitsAt(n)' => NetinWaitsAt(n)
  BY <1>1, <1>4 DEF NetinWaitsAt
<1>6. \A n \in Devices : netqs'[n].queued <= NETQLEN + 1
  BY <1>1, <1>4 DEF RoomInv
<1>7. \A n \in Devices : NetinWaitsAt(n)' => Receivers(n)' # {} /\ Len(icmpq') <= NETFQ
  BY <1>5 DEF RoomInv
<1>8. \A n, m \in Devices : NetinWaitsAt(n)' /\ NetinWaitsAt(m)' => m = n
  BY <1>5 DEF RoomInv
<1>9. QED  BY <1>3, <1>6, <1>7, <1>8 DEF RoomInv

\* The waiting receivers, and netout, are where they were.
LEMMA RoomStays ==
  ASSUME RoomInv, DgramTyped, DgramTyped', TableTyped, part = "internet", part' = part, UNCHANGED icmpq,
         \A n \in Devices : netqs'[n].queued <= netqs[n].queued,
         \A q \in Procs : cont[q].at \in {"receive", "echo"} =>
           cont'[q] = cont[q] /\ (cont[q].at = "receive" => QueueOf(cont[q].ix)' = QueueOf(cont[q].ix))
  PROVE  RoomInv'
<1>1. At(netout, "echo") => At(netout, "echo")'
  BY NetProcsAssumption DEF At
<1>2. ASSUME NEW n \in Devices, NetinWaitsAt(n)' PROVE Receivers(n)' # {}
  <2>1. NetinWaitsAt(n)
    BY <1>2, DatagramAssumption DEF NetinWaitsAt, DgramTyped, QueueTable
  <2>2. PICK q \in Procs : cont[q].at = "receive" /\ QueueOf(cont[q].ix) = n
    BY <2>1 DEF RoomInv, Receivers, At
  <2>3. cont'[q].at = "receive" /\ QueueOf(cont[q].ix)' = n
    BY <2>2
  <2>4. q \in Receivers(n)'
    BY <2>3 DEF Receivers, At
  <2>5. QED  BY <2>4
<1>3. QED  BY <1>1, <1>2, RoomKept

LEMMA CallRoom ==
  ASSUME RoomInv, DgramInv, AnswerInv, ContTyped, TableTyped, part = "internet", part' = part,
         NEW p \in Procs, DatagramStep(p)
  PROVE  RoomInv'
<1>1. CallShape(p) /\ DgramTyped /\ DgramTyped'
  BY DatagramShape DEF AnswerInv, AskedTyped, DgramInv, CallShape
<1>2. UNCHANGED icmpq
  BY DEF DatagramStep, Dgmopen, Dgclose, DgcntlSetmode, DgcntlClear, ClearsOn, Dgread,
         DgreadTimesOut, DgreadOn, Preceived, Dgwrite, DgwriteOn, dgVars
<1>3. ASSUME NEW q \in Procs \ {p}, cont[q].at = "receive"
      PROVE  cont'[q] = cont[q] /\ QueueOf(cont[q].ix)' = QueueOf(cont[q].ix)
  <2> DEFINE d == cont[q].ix
  <2>1. d \in Devices /\ Opened(q, d) /\ cont'[q] = cont[q]
    BY <1>1, <1>3 DEF DgramInv, OwnersInv, Owning, CallShape
  <2>2. dgtab'[d].netq = dgtab[d].netq
    BY <1>1, <2>1 DEF CallShape, OthersDevices, QueueOf
  <2>3. QED  BY <2>1, <2>2 DEF QueueOf
<1>4. \A n \in Devices : netqs[n].queued \in Nat /\ netqs'[n].queued \in Nat
  BY <1>1 DEF DgramTyped, QueueTable
<1>5. CASE Preceived(p)
  <2> DEFINE e == cont[p].ix
             n == QueueOf(e)
  <2>1. cont[p].at = "receive" /\ e \in Devices
    BY <1>5 DEF Preceived, At, DgramInv, OwnersInv, Owning
  <2>2. n \in Devices /\ netqs[n].queued \in Nat
    BY <1>1, <2>1, QueueTyped
  <2>3. netqs[n].queued > 0
    BY <1>5 DEF Preceived
  <2>4. \/ netqs' = [netqs EXCEPT ![n].queued = @ - 1]
        \/ netqs' = [netqs EXCEPT ![n].queued = @ - 1, ![n].pid = Nobody]
    BY <1>5, <2>2, <2>3 DEF Preceived, Receives
  <2> HIDE DEF n
  <2>5. /\ netqs'[n].queued = netqs[n].queued - 1
        /\ \A m \in Devices \ {n} : netqs'[m].queued = netqs[m].queued
    BY <1>1, <2>2, <2>4 DEF DgramTyped, QueueTable
  <2>6. \A m \in Devices : netqs'[m].queued <= netqs[m].queued
    BY <1>4, <2>2, <2>5
  <2>7. ~(netqs'[n].queued > NETQLEN)
    <3>1. netqs[n].queued <= NETQLEN + 1 /\ NETQLEN \in Nat
      BY <2>2, DatagramAssumption DEF RoomInv
    <3>2. QED  BY <2>2, <2>5, <3>1
  <2>8. ASSUME NEW m \in Devices, NetinWaitsAt(m)' PROVE Receivers(m)' # {}
    <3>1. m # n /\ NetinWaitsAt(m)
      BY <2>5, <2>7, <2>8 DEF NetinWaitsAt
    <3>2. PICK q \in Procs : cont[q].at = "receive" /\ QueueOf(cont[q].ix) = m
      BY <3>1 DEF RoomInv, Receivers, At
    <3>3. q # p
      BY <3>1, <3>2 DEF n
    <3>4. cont'[q].at = "receive" /\ QueueOf(cont[q].ix)' = m
      BY <1>3, <3>2, <3>3
    <3>5. QED  BY <3>4 DEF Receivers, At
  <2>9. At(netout, "echo") => At(netout, "echo")'
    BY <1>1, <2>1, NetProcsAssumption DEF At, CallShape
  <2>10. QED  BY <1>1, <1>2, <2>6, <2>8, <2>9, RoomKept
<1>6. CASE ~Preceived(p)
  <2>1. cont[p].at \notin {"receive", "echo"}
    BY <1>6 DEF DatagramStep, Dgmopen, Dgclose, DgcntlSetmode, DgcntlClear, ClearsOn, Dgread,
                DgreadTimesOut, DgreadOn, Dgwrite, DgwriteOn, Calls, At
  <2>2. \A q \in Procs : cont[q].at \in {"receive", "echo"} =>
          cont'[q] = cont[q] /\ (cont[q].at = "receive" => QueueOf(cont[q].ix)' = QueueOf(cont[q].ix))
    BY <1>1, <1>3, <2>1 DEF CallShape
  <2>3. \A n \in Devices : netqs'[n].queued <= netqs[n].queued
    <3>1. CASE \A n \in Devices : netqs'[n].queued = netqs[n].queued
      BY <1>4, <3>1
    <3>2. ASSUME NEW d \in Devices, Receives(p, d) PROVE \A n \in Devices : netqs'[n].queued <= netqs[n].queued
      <4>1. CASE UNCHANGED netqs
        BY <1>4, <4>1
      <4>2. CASE netqs' = [netqs EXCEPT ![QueueOf(d)].queued = @ - 1]
        BY <1>1, <1>4, <4>2 DEF DgramTyped, QueueTable
      <4>3. QED  BY <3>2, <4>1, <4>2 DEF Receives
    <3>3. ASSUME NEW d \in Devices, Disposes(d) PROVE \A n \in Devices : netqs'[n].queued <= netqs[n].queued
      <4> DEFINE n == QueueOf(d)
                 k == IF netqs[n].queued > 0 /\ Frees(pool) THEN 1 ELSE netqs[n].queued
      <4>1. n \in Devices /\ netqs[n].queued \in Nat
        BY <1>1, QueueTyped
      <4>2. k \in Nat /\ k <= netqs[n].queued
        BY <4>1
      <4>3. netqs' = [netqs EXCEPT ![n].queued = @ - k]
        BY <3>3 DEF Disposes
      <4> HIDE DEF k, n
      <4>4. netqs'[n].queued = netqs[n].queued - k /\ \A m \in Devices \ {n} : netqs'[m] = netqs[m]
        BY <1>1, <4>1, <4>3 DEF DgramTyped, QueueTable
      <4>5. QED  BY <1>4, <4>1, <4>2, <4>4
    <3>4. ASSUME NEW m, NEW r, netqs' = [netqs EXCEPT ![m].pid = r]
          PROVE  \A n \in Devices : netqs'[n].queued = netqs[n].queued
      BY <1>1, <3>4 DEF DgramTyped, QueueTable
    <3>5. CASE \E u \in UdpPorts \cup {0} : Dgmopen(p, u)
      <4>1. CASE UNCHANGED netqs
        BY <3>1, <4>1
      <4>2. ASSUME NEW d, NEW n, NEW v, Opens(p, d, n, v)
            PROVE  \A m \in Devices : netqs'[m].queued = netqs[m].queued
        BY <1>1, <4>2 DEF Opens, DgramTyped, QueueTable
      <4>3. QED  BY <3>1, <3>5, <4>1, <4>2 DEF Dgmopen
    <3>6. CASE \E d \in Devices : Dgclose(p, d) \/ DgcntlSetmode(p, d)
      <4>1. \A n \in Devices : netqs'[n].queued = netqs[n].queued
        BY <1>1, <3>6 DEF Dgclose, DgcntlSetmode, DgramTyped, QueueTable
      <4>2. QED  BY <3>1, <4>1
    <3>7. CASE \E d \in Devices : DgcntlClear(p, d)
      BY <3>3, <3>7 DEF DgcntlClear
    <3>8. CASE \E d \in Devices : Dgread(p, d)
      <4>1. PICK d \in Devices : Dgread(p, d)
        BY <3>8
      <4>2. Receives(p, d) \/ UNCHANGED netqs \/ \E m, r : netqs' = [netqs EXCEPT ![m].pid = r]
        BY <4>1 DEF Dgread
      <4>3. QED  BY <3>1, <3>2, <3>4, <4>2
    <3>9. CASE (\E d \in Devices, a \in Hosts \cup {Broadcast, Nobody} : Dgwrite(p, d, a)) \/ DgwriteOn(p)
      BY <3>1, <3>9 DEF Dgwrite, DgwriteOn, dgVars
    <3>10. CASE ClearsOn(p)
      <4>1. cont[p].ix \in Devices
        BY <3>10 DEF ClearsOn, At, DgramInv, OwnersInv, Owning
      <4>2. Disposes(cont[p].ix) \/ UNCHANGED netqs
        BY <3>10 DEF ClearsOn
      <4>3. QED  BY <3>1, <3>3, <4>1, <4>2
    <3>11. CASE DgreadTimesOut(p)
      <4>1. \E m, r : netqs' = [netqs EXCEPT ![m].pid = r]
        BY <3>11 DEF DgreadTimesOut
      <4>2. QED  BY <3>1, <3>4, <4>1
    <3>12. CASE DgreadOn(p)
      <4>1. cont[p].ix \in Devices /\ Receives(p, cont[p].ix)
        BY <3>12 DEF DgreadOn, At, DgramInv, OwnersInv, Owning
      <4>2. QED  BY <3>2, <4>1
    <3>13. QED
      BY <1>6, <3>5, <3>6, <3>7, <3>8, <3>9, <3>10, <3>11, <3>12 DEF DatagramStep
  <2>4. QED  BY <1>1, <1>2, <2>2, <2>3, RoomStays
<1>7. QED  BY <1>5, <1>6

\* netin runs only when it does not wait: no port is over its length.
LEMMA NotBlocked ==
  ASSUME RoomInv, DgramTyped, TableTyped, ~NetinBlocked
  PROVE  /\ Len(icmpq) <= NETFQ /\ Len(icmpq) \in Nat
         /\ \A n \in Devices : netqs[n].queued <= NETQLEN /\ ~NetinWaitsAt(n)
BY DatagramAssumption DEF NetinBlocked, NetinWaitsAt, TableTyped, DgramTyped, QueueTable

\* psend of a packet that comes in waits for a receiver that has been released.
LEMMA ReleasedReceiver ==
  ASSUME DgramTyped, NEW n \in Devices, Pcount(n) < NETQLEN, netqs[n].queued >= NETQLEN
  PROVE  Receivers(n) # {}
<1>1. SUFFICES ASSUME Receivers(n) = {} PROVE FALSE
  OBVIOUS
<1>2. Cardinality(Receivers(n)) = 0
  BY <1>1, FS_EmptySet
<1>3. netqs[n].queued \in Nat /\ NETQLEN \in Nat
  BY DatagramAssumption DEF DgramTyped, QueueTable
<1>4. QED  BY <1>2, <1>3 DEF Pcount

LEMMA UdpRoom ==
  ASSUME RoomInv, DgramTyped, DgramTyped', TableTyped, part = "internet", part' = part,
         NEW u \in UdpPorts, UdpIn(u)
  PROVE  RoomInv'
<1> DEFINE bound == {n \in Devices : netqs[n].uport = u}
           n == Min(bound)
<1>1. UNCHANGED <<cont, dgtab, icmpq>> /\ ~NetinBlocked
  BY DEF UdpIn, Arrives
<1>2. \A m \in Devices : Receivers(m)' = Receivers(m)
  BY <1>1 DEF Receivers, At, QueueOf
<1>3. /\ Len(icmpq) <= NETFQ /\ Len(icmpq) \in Nat /\ NETQLEN \in Nat
      /\ \A m \in Devices : netqs[m].queued <= NETQLEN /\ ~NetinWaitsAt(m) /\ netqs[m].queued \in Nat
  BY <1>1, NotBlocked, DatagramAssumption DEF DgramTyped, QueueTable
<1>4. EchoAwaited' = EchoAwaited
  BY <1>1 DEF EchoAwaited, At
<1>5. CASE UNCHANGED netqs
  <2>1. \A m \in Devices : NetinWaitsAt(m)' <=> NetinWaitsAt(m)
    BY <1>5 DEF NetinWaitsAt
  <2>2. QED  BY <1>1, <1>2, <1>4, <1>5, <2>1 DEF RoomInv
<1>6. CASE bound # {} /\ Delivered(n)
  <2>1. n \in Devices
    <3>1. bound \subseteq Nat
      BY DEF Devices
    <3>2. n \in bound
      <4> HIDE DEF bound
      <4>1. QED  BY <1>6, <3>1, MinNat
    <3>3. QED  BY <3>2
  <2> HIDE DEF n, bound
  <2>2. /\ \A m \in Devices \ {n} : netqs'[m].queued = netqs[m].queued
        /\ netqs'[n].queued \in {netqs[n].queued, netqs[n].queued + 1}
    BY <1>6, <2>1 DEF Delivered, DgramTyped, QueueTable
  <2>3. netqs'[n].queued > NETQLEN => Receivers(n) # {}
    <3>1. CASE Pcount(n) < NETQLEN /\ netqs[n].queued >= NETQLEN
      BY <2>1, <3>1, ReleasedReceiver
    <3>2. CASE \/ UNCHANGED netqs \/ netqs' = [netqs EXCEPT ![n].pid = Nobody]
               \/ netqs[n].queued < NETQLEN
      BY <1>3, <2>1, <2>2, <3>2 DEF DgramTyped, QueueTable
    <3>3. QED  BY <1>6, <3>1, <3>2 DEF Delivered
  <2>4. \A m \in Devices : netqs'[m].queued <= NETQLEN + 1
    BY <1>3, <2>1, <2>2
  <2>5. \A m \in Devices : NetinWaitsAt(m)' => m = n /\ Receivers(m)' # {}
    BY <1>2, <1>3, <2>1, <2>2, <2>3 DEF NetinWaitsAt
  <2>6. Len(icmpq') <= NETFQ + EchoAwaited' /\ Len(icmpq') <= NETFQ
    BY <1>1, <1>3, <1>4 DEF RoomInv
  <2>7. QED  BY <2>4, <2>5, <2>6 DEF RoomInv
<1>7. QED  BY <1>5, <1>6 DEF UdpIn

LEMMA InternetRoom ==
  ASSUME RoomInv, DgramInv, DgramTyped', AnswerInv, ContTyped, TableTyped, part = "internet", part' = part,
         InternetNext
  PROVE  RoomInv'
<1>1. DgramTyped /\ NETFQ \in Nat /\ NETQLEN \in Nat /\ Len(icmpq) \in Nat /\ netout \in Procs
  BY DatagramAssumption, NetProcsAssumption DEF DgramInv, TableTyped
<1>2. \A n \in Devices : netqs[n].queued \in Nat
  BY <1>1 DEF DgramTyped, QueueTable
<1>3. ASSUME UNCHANGED dgVars,
             \A q \in Procs : cont[q].at \in {"receive", "echo"} => cont'[q] = cont[q]
      PROVE  RoomInv'
  <2>1. \A q \in Procs : cont[q].at \in {"receive", "echo"} =>
          cont'[q] = cont[q] /\ (cont[q].at = "receive" => QueueOf(cont[q].ix)' = QueueOf(cont[q].ix))
    BY <1>3 DEF QueueOf, dgVars
  <2>2. UNCHANGED icmpq /\ \A n \in Devices : netqs'[n].queued <= netqs[n].queued
    BY <1>2, <1>3 DEF dgVars
  <2>3. QED  BY <1>1, <2>1, <2>2, RoomStays
<1>4. CASE (Sndrarp \/ RarpAnswered \/ RarpTimesOut) /\ UNCHANGED dgVars
  <2>1. cont[netout].at \in {"boot", "rarp"} /\ \A q \in Procs \ {netout} : cont[q].at = "unborn"
    BY <1>1, <1>4 DEF Sndrarp, RarpAnswered, RarpTimesOut, At, AnswerInv, BootInv
  <2>2. QED  BY <1>3, <1>4, <2>1
<1>5. CASE \E p \in Procs : RouteStep(p) /\ UNCHANGED dgVars
  <2>1. PICK p \in Procs : RouteStep(p)
    BY <1>5
  <2>2. RouteShape(p)
    BY <2>1, RouteStepShape DEF AnswerInv, AskedTyped
  <2>3. cont[p].at \notin {"receive", "echo"} /\ \A q \in Procs \ {p} : cont'[q] = cont[q]
    BY <2>2 DEF RouteShape, RoutePlaces, TablePlaces
  <2>4. QED  BY <1>3, <1>5, <2>3
<1>6. CASE RouteIn /\ UNCHANGED dgVars
  <2>1. UNCHANGED cont
    BY <1>6 DEF RouteIn, ArpRequestIn, ArpReplyIn, EntersBeyond, RarpReplyIn
  <2>2. QED  BY <1>3, <1>6, <2>1
<1>7. CASE \E p \in Procs : DatagramStep(p)
  BY <1>7, CallRoom
<1>8. CASE NetoutListens
  <2>1. cont[netout].at = "serve" /\ Comes(netout, "echo") /\ UNCHANGED dgVars
    <3>1. "echo" \in Labels("internet")
      BY DEF Labels
    <3>2. QED  BY <1>1, <1>8, <3>1, ThenAt DEF NetoutListens, At, Comes
  <2>2. QED  BY <1>3, <2>1 DEF Comes
<1>9. CASE NetoutTakes
  <2>1. /\ cont[netout].at \in {"serve", "echo"} /\ UNCHANGED <<netqs, dgtab>>
        /\ icmpq # <<>> /\ icmpq' = Tail(icmpq) /\ icmpq \in Seq(Hosts)
        /\ Then(netout, [Where("route") EXCEPT !.to = Head(icmpq)]) /\ Head(icmpq) \in Hosts
    BY <1>9 DEF NetoutTakes, At, TableTyped
  <2>2. Comes(netout, "route")
    <3>1. "route" \in Labels("internet")
      BY DEF Labels
    <3>2. QED  BY <1>1, <2>1, <3>1, ThenAt DEF Comes
  <2>3. Len(icmpq') = Len(icmpq) - 1
    BY <2>1
  <2>4. Len(icmpq') <= NETFQ /\ EchoAwaited' = 0
    <3>1. Len(icmpq) <= NETFQ + EchoAwaited /\ EchoAwaited \in {0, 1}
      BY DEF RoomInv, EchoAwaited
    <3>2. Len(icmpq') <= NETFQ
      BY <1>1, <2>3, <3>1
    <3>3. EchoAwaited' = 0
      BY <1>1, <2>2 DEF EchoAwaited, At, Comes
    <3>4. QED  BY <3>2, <3>3
  <2>5. \A n \in Devices : Receivers(n) \subseteq Receivers(n)' /\ (NetinWaitsAt(n)' <=> NetinWaitsAt(n))
    BY <1>1, <2>1, <2>2 DEF Receivers, At, QueueOf, Comes, NetinWaitsAt
  <2>6. \A n \in Devices : NetinWaitsAt(n)' => Receivers(n)' # {}
    BY <2>5 DEF RoomInv
  <2>7. Len(icmpq') <= NETFQ + EchoAwaited'
    BY <1>1, <2>4
  <2>8. QED  BY <2>1, <2>4, <2>5, <2>6, <2>7 DEF RoomInv
<1>10. CASE \E u \in UdpPorts : UdpIn(u)
  BY <1>1, <1>10, UdpRoom
<1>11. CASE \E a \in Hosts : IcmpIn(a)
  <2>1. PICK a \in Hosts : IcmpIn(a)
    BY <1>11
  <2>2. UNCHANGED <<cont, netqs, dgtab>> /\ ~NetinBlocked /\ icmpq \in Seq(Hosts)
    BY <2>1 DEF IcmpIn, Arrives, TableTyped
  <2>3. EchoAwaited' = EchoAwaited /\ EchoAwaited \in Nat
    BY <2>2 DEF EchoAwaited, At
  <2>4. \A n \in Devices : ~NetinWaitsAt(n)'
    BY <1>1, <2>2, NotBlocked DEF NetinWaitsAt
  <2>5. Len(icmpq') <= NETFQ + EchoAwaited'
    <3>1. CASE icmpq' = Append(icmpq, a) /\ Len(icmpq) - EchoAwaited < NETFQ
      <4>1. Len(icmpq') = Len(icmpq) + 1
        BY <2>2, <3>1
      <4>2. QED  BY <1>1, <2>3, <3>1, <4>1
    <3>2. CASE UNCHANGED icmpq
      BY <2>3, <3>2 DEF RoomInv
    <3>3. QED  BY <2>1, <3>1, <3>2 DEF IcmpIn
  <2>6. \A n \in Devices : netqs'[n].queued <= NETQLEN + 1
    BY <2>2 DEF RoomInv
  <2>7. QED  BY <2>4, <2>5, <2>6 DEF RoomInv
<1>12. QED
  BY <1>4, <1>5, <1>6, <1>7, <1>8, <1>9, <1>10, <1>11 DEF InternetNext

LEMMA RoomHolds == NetSpec => []RoomInv
<1>1. NetInit => RoomInv
  <2>1. SUFFICES ASSUME NetInit PROVE RoomInv
    OBVIOUS
  <2>2. icmpq = <<>> /\ Len(icmpq) = 0 /\ \A n \in Devices : netqs[n].queued = 0
    BY <2>1 DEF NetInit, InternetInit
  <2>3. NETFQ \in Nat /\ NETQLEN \in Nat /\ EchoAwaited \in Nat
    BY DatagramAssumption DEF EchoAwaited
  <2>4. \A n \in Devices : ~NetinWaitsAt(n)
    BY <2>2, <2>3 DEF NetinWaitsAt
  <2>5. QED  BY <2>2, <2>3, <2>4 DEF RoomInv
<1>2. RoomInv /\ ContTyped /\ TableTyped /\ DgramInv /\ AnswerInv /\ [NetNext]_netVars /\ DgramInv' => RoomInv'
  <2>1. SUFFICES ASSUME RoomInv, ContTyped, TableTyped, DgramInv, AnswerInv, [NetNext]_netVars, DgramInv'
                 PROVE  RoomInv'
    OBVIOUS
  <2>2. CASE part = "internet" /\ InternetNext /\ part' = part
    BY <2>1, <2>2, InternetRoom DEF DgramInv
  <2>3. CASE part # "internet" /\ UNCHANGED <<dgramOwn, part>>
    <3>1. icmpq' = <<>> /\ Len(icmpq') = 0 /\ \A n \in Devices : netqs'[n].queued = 0
      BY <2>1, <2>3 DEF RoomInv, dgramOwn, dgVars
    <3>2. NETFQ \in Nat /\ NETQLEN \in Nat /\ EchoAwaited' \in Nat
      BY DatagramAssumption DEF EchoAwaited
    <3>3. Len(icmpq') <= NETFQ + EchoAwaited'
      <4>1. \A m, k \in Nat : 0 <= m + k
        OBVIOUS
      <4>2. 0 <= NETFQ + EchoAwaited'
        BY ONLY <3>2, <4>1
      <4>3. Len(icmpq') = 0
        BY <3>1
      <4>4. QED  BY ONLY <4>2, <4>3
    <3>4. ASSUME NEW n \in Devices PROVE netqs'[n].queued = 0 /\ netqs'[n].queued <= NETQLEN + 1 /\ ~NetinWaitsAt(n)'
      <4>1. netqs'[n].queued = 0
        BY <3>1
      <4>2. ~(netqs'[n].queued > NETQLEN) /\ netqs'[n].queued <= NETQLEN + 1
        BY ONLY <3>2, <4>1
      <4>3. QED  BY ONLY <4>1, <4>2 DEF NetinWaitsAt
    <3>5. QED  BY ONLY <3>1, <3>3, <3>4 DEF RoomInv
  <2>4. CASE UNCHANGED <<dgramOwn, cont, part>>
    <3>1. UNCHANGED <<icmpq, netqs, dgtab>>
      BY <2>4 DEF dgramOwn, dgVars
    <3>2. /\ EchoAwaited' = EchoAwaited
          /\ \A n \in Devices : Receivers(n)' = Receivers(n) /\ (NetinWaitsAt(n)' <=> NetinWaitsAt(n))
      BY <2>4, <3>1 DEF EchoAwaited, At, Receivers, QueueOf, NetinWaitsAt
    <3>3. QED  BY <2>1, <2>4, <3>1, <3>2 DEF RoomInv
  <2>5. QED  BY <2>1, <2>2, <2>3, <2>4 DEF NetNext, netVars
<1>3. QED  BY <1>1, <1>2, NetTyped, DgramAnswerHold, PTL DEF NetSpec

------------------------------------------------------------------------------
(* The network buffers: where each of them is. *)

\* The places of a process that has a packet, or waits for the buffer of one it writes, and
\* how many buffers the process has or waits for at place l.
Packeted == {"write"} \cup RoutePlaces
Weight(l) == (IF l \in Packeted THEN 1 ELSE 0) + (IF l = "ask" THEN 1 ELSE 0)
Cost == Cardinality(AtAny(Packeted)) + Cardinality(AtAny({"ask"}))

\* netin has a buffer or waits for one, but for the time it waits in psend.
Handled == IF NetinBlocked THEN 0 ELSE 1
Rest == Len(icmpq) + Cardinality(InQueues) + leaked + lost
Elsewhere == Handled + Rest

PoolQueue ==
  /\ Sound(pool) /\ ToSet(pool.q) \subseteq {netin} \cup AtAny({"write", "ask"})
  /\ NetinBlocked => netin \notin ToSet(pool.q)
PoolBounds == leaked \in Nat /\ lost \in Nat /\ RoomInv
PoolInv == PoolQueue /\ PoolBounds /\ pool.n + Cost + Elsewhere = NETBUFS

LEMMA SignaledBySound ==
  ASSUME NEW s, Sound(s), NEW k \in Nat
  PROVE  /\ Sound(SignaledBy(s, k)) /\ SignaledBy(s, k).n = s.n + k
         /\ ToSet(SignaledBy(s, k).q) \subseteq ToSet(s.q)
<1> DEFINE j == IF ~Frees(s) THEN 0 ELSE IF k < -s.n THEN k ELSE -s.n
           b == SubSeq(s.q, 1 + j, Len(s.q))
<1>1. /\ s.ok /\ s.n \in Int /\ s.q \in Seq(All) /\ IsInjective(s.q)
      /\ Len(s.q) = (IF s.n < 0 THEN -s.n ELSE 0)
      /\ s = [ok |-> s.ok, n |-> s.n, q |-> s.q]
  BY SoundFacts
<1>2. /\ j \in 0 .. Len(s.q) /\ 1 + j = j + 1
      /\ Len(s.q) - j = (IF s.n + k < 0 THEN -(s.n + k) ELSE 0)
  BY <1>1 DEF Frees
<1>3. SignaledBy(s, k) = [s EXCEPT !.n = s.n + k, !.q = b]
  BY DEF SignaledBy
<1>4. b = SubSeq(s.q, j + 1, Len(s.q))
  BY <1>2
<1> HIDE DEF j
<1>5. b \in Seq(All) /\ IsInjective(b) /\ Len(b) = Len(s.q) - j /\ ToSet(b) \subseteq ToSet(s.q)
  <2> DEFINE q == s.q
  <2>1. q \in Seq(All) /\ IsInjective(q) /\ j \in 0 .. Len(q) /\ b = SubSeq(q, j + 1, Len(q))
    BY <1>1, <1>2, <1>4
  <2> HIDE DEF b, q
  <2>2. b \in Seq(All) /\ IsInjective(b) /\ Len(b) = Len(q) - j /\ ToSet(b) \subseteq ToSet(q)
    BY <2>1, SplitDistinct
  <2>3. QED  BY <2>2 DEF q
<1> HIDE DEF b
<1> DEFINE t == [ok |-> TRUE, n |-> s.n + k, q |-> b]
<1>6. SignaledBy(s, k) = t
  BY <1>1, <1>3
<1>7. t.ok /\ t.n = s.n + k /\ t.q = b /\ t \in [ok : BOOLEAN, n : Int, q : Seq(All)]
  BY <1>1, <1>5
<1> HIDE DEF t
<1>8. Sound(t)
  BY <1>1, <1>2, <1>5, <1>7 DEF Sound, SemGood
<1>9. QED  BY <1>5, <1>6, <1>7, <1>8

LEMMA AtAnyFinite ==
  ASSUME NEW X
  PROVE  IsFiniteSet(AtAny(X)) /\ Cardinality(AtAny(X)) \in Nat
<1>1. AtAny(X) \in SUBSET Procs /\ IsFiniteSet(Procs)
  BY NetProcsAssumption DEF AtAny
<1>2. QED  BY <1>1, FS_Subset, FS_CardinalityType

LEMMA AtAnyCount ==
  ASSUME NEW p \in Procs, NEW l, Comes(p, l), NEW X
  PROVE  Cardinality(AtAny(X)') = Cardinality(AtAny(X)) + (IF l \in X THEN 1 ELSE 0)
                                    - (IF cont[p].at \in X THEN 1 ELSE 0)
<1> DEFINE A == AtAny(X)
           B == AtAny(X)'
<1>1. IsFiniteSet(A) /\ Cardinality(A) \in Nat /\ (p \in A <=> cont[p].at \in X)
  BY AtAnyFinite DEF AtAny
<1>2. (l \in X => B = A \cup {p}) /\ (l \notin X => B = A \ {p})
  BY ComesAtAny
<1>3. /\ Cardinality(A \cup {p}) = IF p \in A THEN Cardinality(A) ELSE Cardinality(A) + 1
      /\ Cardinality(A \ {p}) = IF p \in A THEN Cardinality(A) - 1 ELSE Cardinality(A)
  BY <1>1, FS_AddElement, FS_RemoveElement
<1> HIDE DEF A, B
<1>4. Cardinality(B) = Cardinality(A) + (IF l \in X THEN 1 ELSE 0) - (IF cont[p].at \in X THEN 1 ELSE 0)
  <2> DEFINE c == Cardinality(A)
             d == Cardinality(B)
  <2>1. /\ l \in X => d = Cardinality(A \cup {p})
        /\ l \notin X => d = Cardinality(A \ {p})
    BY ONLY <1>2, Zenon
  <2>2. /\ l \in X => d = IF p \in A THEN c ELSE c + 1
        /\ l \notin X => d = IF p \in A THEN c - 1 ELSE c
    BY <1>3, <2>1
  <2>3. c \in Nat /\ (p \in A <=> cont[p].at \in X)
    BY <1>1
  <2> HIDE DEF c, d
  <2>4. d = c + (IF l \in X THEN 1 ELSE 0) - (IF cont[p].at \in X THEN 1 ELSE 0)
    BY <2>2, <2>3
  <2>5. QED  BY <2>4 DEF c, d
<1>5. QED  BY <1>4 DEF A, B

LEMMA CostMoves ==
  ASSUME NEW p \in Procs, NEW l, Comes(p, l)
  PROVE  Cost \in Nat /\ Cost' = Cost + Weight(l) - Weight(cont[p].at)
<1> DEFINE c == Cardinality(AtAny(Packeted))
           d == Cardinality(AtAny({"ask"}))
           e == Cardinality(AtAny(Packeted)')
           f == Cardinality(AtAny({"ask"})')
<1>1. c \in Nat /\ d \in Nat /\ Cost = c + d /\ Cost' = e + f
  BY AtAnyFinite DEF Cost, Packeted, RoutePlaces, TablePlaces
<1>2. e = c + (IF l \in Packeted THEN 1 ELSE 0) - (IF cont[p].at \in Packeted THEN 1 ELSE 0)
  BY AtAnyCount
<1>3. f = d + (IF l = "ask" THEN 1 ELSE 0) - (IF cont[p].at = "ask" THEN 1 ELSE 0)
  <2>1. f = d + (IF l \in {"ask"} THEN 1 ELSE 0) - (IF cont[p].at \in {"ask"} THEN 1 ELSE 0)
    BY AtAnyCount
  <2>2. QED  BY <2>1
<1> HIDE DEF c, d, e, f
<1>4. QED  BY <1>1, <1>2, <1>3 DEF Weight

LEMMA Weights ==
  /\ \A l \in {"boot", "unborn", "rarp", "user", "serve", "echo", "clear", "receive", "timed"} : Weight(l) = 0
  /\ \A l \in {"write", "route", "turn", "insert", "advance", "rewind", "mark", "name", "zero", "found",
               "request", "await", "answered", "test", "gate"} : Weight(l) = 1
  /\ Weight("ask") = 2
<1>1. Packeted = {"write", "route", "turn", "insert", "advance", "rewind", "mark", "name", "zero", "found",
                  "request", "ask", "await", "answered", "test", "gate"}
  BY DEF Packeted, RoutePlaces, TablePlaces
<1>2. QED  BY <1>1 DEF Weight

\* The queues: a change in one of them is a change of the sum.
LEMMA InQueuesAre ==
  ASSUME DgramTyped
  PROVE  InQueues = {x \in Devices \X Nat : x[2] \in 1 .. netqs[x[1]].queued}
<1>1. ASSUME NEW x, x \in InQueues PROVE x \in Devices \X Nat /\ x[2] \in 1 .. netqs[x[1]].queued
  <2>1. PICK n \in Devices : x \in {n} \X (1 .. netqs[n].queued)
    BY <1>1 DEF InQueues
  <2>2. QED  BY <2>1
<1>2. ASSUME NEW x \in Devices \X Nat, x[2] \in 1 .. netqs[x[1]].queued PROVE x \in InQueues
  <2>1. x[1] \in Devices /\ x \in {x[1]} \X (1 .. netqs[x[1]].queued)
    BY <1>2
  <2>2. QED  BY <2>1 DEF InQueues
<1>3. QED  BY <1>1, <1>2

LEMMA InQueuesFinite ==
  ASSUME DgramTyped, PoolBounds
  PROVE  IsFiniteSet(InQueues) /\ Cardinality(InQueues) \in Nat
<1>1. IsFiniteSet(Devices)
  <2>1. 0 \in Int /\ Ndg - 1 \in Int
    BY DatagramAssumption
  <2>2. QED  BY <2>1, FS_Interval DEF Devices
<1>2. IsFiniteSet(1 .. NETQLEN + 1) /\ NETQLEN \in Nat
  BY DatagramAssumption, FS_Interval
<1>3. IsFiniteSet(Devices \X (1 .. NETQLEN + 1))
  BY <1>1, <1>2, FS_Product
<1>4. InQueues \in SUBSET (Devices \X (1 .. NETQLEN + 1))
  BY <1>2, InQueuesAre DEF PoolBounds, RoomInv, DgramTyped, QueueTable
<1>5. QED  BY <1>3, <1>4, FS_Subset, FS_CardinalityType

LEMMA InQueuesSame ==
  ASSUME DgramTyped, DgramTyped', \A n \in Devices : netqs'[n].queued = netqs[n].queued
  PROVE  InQueues' = InQueues
<1>1. InQueues' = UNION {{n} \X (1 .. netqs'[n].queued) : n \in Devices}
  BY DEF InQueues
<1>2. {{n} \X (1 .. netqs'[n].queued) : n \in Devices} = {{n} \X (1 .. netqs[n].queued) : n \in Devices}
  OBVIOUS
<1>3. QED  BY <1>1, <1>2 DEF InQueues

LEMMA InQueuesMove ==
  ASSUME DgramTyped, DgramTyped', PoolBounds, NEW n \in Devices, OnlyQueue(n)
  PROVE  Cardinality(InQueues') = Cardinality(InQueues) + netqs'[n].queued - netqs[n].queued
<1> DEFINE a == netqs[n].queued
           b == netqs'[n].queued
           A == InQueues
           B == InQueues'
           R == {x \in InQueues : x[1] # n}
           C == {n} \X (1 .. a)
           D == {n} \X (1 .. b)
<1>1. a \in Nat /\ b \in Nat
  BY DEF DgramTyped, QueueTable
<1>2. A = {x \in Devices \X Nat : x[2] \in 1 .. netqs[x[1]].queued}
  BY InQueuesAre
<1>3. B = {x \in Devices \X Nat : x[2] \in 1 .. netqs'[x[1]].queued}
  <2>1. (DgramTyped => InQueues = {x \in Devices \X Nat : x[2] \in 1 .. netqs[x[1]].queued})'
    BY InQueuesAre, PTL
  <2>2. QED  BY <2>1
<1>4. \A m \in Devices \ {n} : netqs'[m].queued = netqs[m].queued
  BY DEF OnlyQueue
<1>5. A = R \cup C /\ R \cap C = {}
  BY <1>1, <1>2
<1>6. B = R \cup D /\ R \cap D = {}
  BY <1>1, <1>2, <1>3, <1>4
<1>7. IsFiniteSet(R)
  <2>1. IsFiniteSet(A) /\ R \in SUBSET A
    BY InQueuesFinite
  <2>2. QED  BY <2>1, FS_Subset
<1>8. ASSUME NEW m \in Nat PROVE IsFiniteSet({n} \X (1 .. m)) /\ Cardinality({n} \X (1 .. m)) = m
  <2>1. IsFiniteSet(1 .. m) /\ Cardinality(1 .. m) = m
    BY FS_Interval
  <2>2. IsFiniteSet({n}) /\ Cardinality({n}) = 1
    BY FS_Singleton
  <2>3. QED  BY <2>1, <2>2, FS_Product
<1>9. IsFiniteSet(C) /\ Cardinality(C) = a /\ IsFiniteSet(D) /\ Cardinality(D) = b
  BY <1>1, <1>8
<1> HIDE DEF a, b, A, B, C, D, R
<1>10. Cardinality({}) = 0 /\ Cardinality(R) \in Nat
  BY <1>7, FS_EmptySet, FS_CardinalityType
<1>11. Cardinality(A) = Cardinality(R) + a /\ Cardinality(B) = Cardinality(R) + b
  <2>1. /\ Cardinality(R \cup C) = Cardinality(R) + Cardinality(C) - Cardinality(R \cap C)
        /\ Cardinality(R \cup D) = Cardinality(R) + Cardinality(D) - Cardinality(R \cap D)
    BY <1>7, <1>9, FS_Union
  <2>2. /\ Cardinality(A) = Cardinality(R \cup C) /\ Cardinality(R \cap C) = Cardinality({})
        /\ Cardinality(B) = Cardinality(R \cup D) /\ Cardinality(R \cap D) = Cardinality({})
    BY ONLY <1>5, <1>6, Zenon
  <2>3. QED  BY <1>1, <1>9, <1>10, <2>1, <2>2
<1>12. Cardinality(B) = Cardinality(A) + b - a
  BY <1>1, <1>10, <1>11
<1>13. QED  BY <1>12 DEF a, b, A, B

LEMMA ElsewhereTyped ==
  ASSUME DgramTyped, TableTyped, PoolBounds
  PROVE  /\ Elsewhere \in Nat /\ Rest \in Nat /\ Handled \in {0, 1}
         /\ Len(icmpq) \in Nat /\ Cardinality(InQueues) \in Nat /\ leaked \in Nat /\ lost \in Nat
<1>1. Len(icmpq) \in Nat /\ Cardinality(InQueues) \in Nat /\ leaked \in Nat /\ lost \in Nat
  BY InQueuesFinite DEF TableTyped, PoolBounds
<1>2. Handled \in {0, 1}
  BY DEF Handled
<1>3. QED  BY <1>1, <1>2 DEF Elsewhere, Rest

LEMMA ElsewhereSame ==
  ASSUME DgramTyped, DgramTyped', UNCHANGED <<icmpq, leaked, lost>>,
         \A n \in Devices : netqs'[n].queued = netqs[n].queued
  PROVE  /\ Elsewhere' = Elsewhere /\ (NetinBlocked' <=> NetinBlocked)
         /\ PoolBounds /\ RoomInv' => PoolBounds'
<1>1. InQueues' = InQueues
  BY InQueuesSame
<1>2. NetinBlocked' <=> NetinBlocked
  BY DEF NetinBlocked, NetinWaitsAt
<1>3. Elsewhere' = Elsewhere
  BY <1>1, <1>2 DEF Elsewhere, Handled, Rest
<1>4. QED  BY <1>2, <1>3 DEF PoolBounds

\* One queue changes.
LEMMA RestMoves ==
  ASSUME DgramTyped, DgramTyped', TableTyped, PoolBounds, UNCHANGED <<icmpq, leaked, lost>>,
         NEW n \in Devices, OnlyQueue(n)
  PROVE  /\ Rest' = Rest + netqs'[n].queued - netqs[n].queued
         /\ RoomInv' => PoolBounds'
<1>1. Cardinality(InQueues') = Cardinality(InQueues) + netqs'[n].queued - netqs[n].queued
  BY InQueuesMove
<1>2. /\ netqs'[n].queued \in Nat /\ netqs[n].queued \in Nat
      /\ Len(icmpq) \in Nat /\ Cardinality(InQueues) \in Nat /\ leaked \in Nat /\ lost \in Nat
  BY ElsewhereTyped DEF DgramTyped, QueueTable
<1>3. Rest' = Len(icmpq) + Cardinality(InQueues') + leaked + lost
  BY DEF Rest
<1>4. Rest' = Rest + netqs'[n].queued - netqs[n].queued
  BY <1>1, <1>2, <1>3 DEF Rest
<1>5. RoomInv' => PoolBounds'
  BY DEF PoolBounds
<1>6. QED  BY <1>4, <1>5

\* Packets leave a queue that netin does not wait at.
LEMMA QueueLess ==
  ASSUME DgramTyped, DgramTyped', TableTyped, PoolBounds, RoomInv', UNCHANGED <<icmpq, leaked, lost>>,
         NEW n \in Devices, OnlyQueue(n), ~NetinWaitsAt(n), NEW k \in Nat,
         netqs'[n].queued = netqs[n].queued - k
  PROVE  /\ Elsewhere' = Elsewhere - k /\ Elsewhere \in Nat /\ PoolBounds'
         /\ NetinBlocked' <=> NetinBlocked
<1>1. netqs[n].queued \in Nat /\ netqs'[n].queued \in Nat /\ NETQLEN \in Nat
  BY DatagramAssumption DEF DgramTyped, QueueTable
<1>2. \A m \in Devices : netqs'[m].queued > NETQLEN <=> netqs[m].queued > NETQLEN
  BY <1>1 DEF OnlyQueue, NetinWaitsAt
<1>3. NetinBlocked' <=> NetinBlocked
  BY <1>2 DEF NetinBlocked, NetinWaitsAt
<1>4. Handled' = Handled
  BY <1>3 DEF Handled
<1>5. Rest' = Rest + netqs'[n].queued - netqs[n].queued /\ PoolBounds'
  BY RestMoves
<1>6. Rest \in Nat /\ Handled \in {0, 1} /\ Elsewhere \in Nat
  BY ElsewhereTyped
<1>7. Elsewhere' = Handled' + Rest' /\ Elsewhere = Handled + Rest
  BY DEF Elsewhere
<1>8. Elsewhere' = Elsewhere - k
  BY ONLY <1>1, <1>4, <1>5, <1>6, <1>7, netqs'[n].queued = netqs[n].queued - k, k \in Nat
<1>9. QED  BY <1>3, <1>5, <1>6, <1>8

\* netin waits for nobody but a receiver: not at the queue of a program that does something else.
LEMMA OwnQueueOpen ==
  ASSUME RoomInv, DgramInv, part = "internet", NEW p \in Procs, NEW d \in Devices, Opened(p, d),
         cont[p].at # "receive"
  PROVE  ~NetinWaitsAt(QueueOf(d))
<1>1. SUFFICES ASSUME NetinWaitsAt(QueueOf(d)) PROVE FALSE
  OBVIOUS
<1>2. QueueOf(d) \in Devices
  BY QueueTyped DEF DgramInv
<1>3. PICK q \in Procs : cont[q].at = "receive" /\ QueueOf(cont[q].ix) = QueueOf(d)
  BY <1>1, <1>2 DEF RoomInv, Receivers, At
<1>4. cont[q].ix \in Devices /\ Opened(q, cont[q].ix)
  BY <1>3 DEF DgramInv, OwnersInv, Owning
<1>5. cont[q].ix = d
  BY <1>3, <1>4 DEF DgramInv, DevicesApart, Opened
<1>6. QED  BY <1>3, <1>4, <1>5 DEF Opened

\* A step of process p to place l, and one that leaves all processes where they are.
LEMMA PoolGoes ==
  ASSUME PoolInv, NEW p \in Procs, NEW l, Comes(p, l), Elsewhere \in Nat, Elsewhere' \in Int, PoolBounds',
         Sound(pool'), ToSet(pool'.q) \subseteq ToSet(pool.q) \cup {p, netin},
         NetinBlocked' => netin \notin ToSet(pool'.q),
         l \in {"write", "ask"} \/ p \notin ToSet(pool'.q),
         pool'.n + Weight(l) + Elsewhere' = pool.n + Weight(cont[p].at) + Elsewhere
  PROVE  PoolInv'
<1> DEFINE WA == {"write", "ask"}
<1>1. (l \in WA => AtAny(WA)' = AtAny(WA) \cup {p}) /\ (l \notin WA => AtAny(WA)' = AtAny(WA) \ {p})
  BY ComesAtAny
<1>2. ToSet(pool'.q) \subseteq {netin} \cup AtAny(WA)'
  BY <1>1 DEF PoolInv, PoolQueue
<1>3. Cost \in Nat /\ Cost' = Cost + Weight(l) - Weight(cont[p].at)
  BY CostMoves
<1>4. pool.n \in Int /\ pool'.n \in Int /\ Weight(l) \in Nat /\ Weight(cont[p].at) \in Nat
  <2>1. pool.n \in Int /\ pool'.n \in Int
    BY SoundFacts DEF PoolInv, PoolQueue
  <2>2. Weight(l) \in Nat /\ Weight(cont[p].at) \in Nat
    BY DEF Weight
  <2>3. QED  BY <2>1, <2>2
<1>5. pool.n + Cost + Elsewhere = NETBUFS
  BY DEF PoolInv
<1>6. pool'.n + Cost' + Elsewhere' = NETBUFS
  <2> DEFINE v == Weight(l)
             w == Weight(cont[p].at)
             n == pool.n
             m == pool'.n
             c == Cost'
             e == Elsewhere'
  <2>1. v \in Nat /\ w \in Nat /\ n \in Int /\ m \in Int /\ Cost \in Nat /\ Elsewhere \in Nat /\ e \in Int
    BY <1>3, <1>4
  <2>2. c = Cost + v - w /\ m + v + e = n + w + Elsewhere /\ n + Cost + Elsewhere = NETBUFS
    BY <1>3, <1>5
  <2> HIDE DEF v, w, n, m, c, e
  <2>3. m + c + e = NETBUFS
    BY ONLY <2>1, <2>2
  <2>4. QED  BY <2>3 DEF m, c, e
<1>7. QED  BY <1>2, <1>6 DEF PoolInv, PoolQueue

LEMMA PoolStays ==
  ASSUME PoolInv, UNCHANGED cont, Elsewhere \in Nat, Elsewhere' \in Int, PoolBounds',
         Sound(pool'), ToSet(pool'.q) \subseteq ToSet(pool.q) \cup {netin},
         NetinBlocked' => netin \notin ToSet(pool'.q),
         pool'.n + Elsewhere' = pool.n + Elsewhere
  PROVE  PoolInv'
<1>1. \A X : AtAny(X)' = AtAny(X)
  BY DEF AtAny
<1>2. Cost' = Cost /\ Cost \in Nat
  BY <1>1, AtAnyFinite DEF Cost
<1>3. pool.n \in Int /\ pool'.n \in Int /\ NETBUFS \in Nat
  BY SoundFacts, RouteAssumption DEF PoolInv, PoolQueue
<1>4. pool.n + Cost + Elsewhere = NETBUFS
  BY DEF PoolInv
<1>5. pool'.n + Cost' + Elsewhere' = NETBUFS
  BY <1>2, <1>3, <1>4
<1>6. ToSet(pool'.q) \subseteq {netin} \cup AtAny({"write", "ask"})'
  BY <1>1 DEF PoolInv, PoolQueue
<1>7. QED  BY <1>5, <1>6 DEF PoolInv, PoolQueue

LEMMA NotInPool ==
  ASSUME PoolQueue, NEW p \in Procs, cont[p].at \notin {"write", "ask"} \/ ~Contains(pool.q, p)
  PROVE  p \notin ToSet(pool.q)
<1>1. Contains(pool.q, p) <=> p \in ToSet(pool.q)
  BY ContainsIn DEF PoolQueue
<1>2. QED  BY <1>1, RouteAssumption DEF PoolQueue, AtAny

\* netin takes another buffer for the one it gives away, or frees.
LEMMA NextBufferPool ==
  ASSUME PoolInv, Reads, NextBuffer
  PROVE  /\ Sound(pool') /\ pool'.n = pool.n
         /\ ToSet(pool'.q) \subseteq ToSet(pool.q) \cup {netin}
<1> DEFINE s == Signaled(pool)
<1>1. Sound(pool) /\ netin \notin ToSet(pool.q)
  BY ContainsIn DEF PoolInv, PoolQueue, Reads
<1>2. /\ Sound(s) /\ s.n = pool.n + 1
      /\ ToSet(s.q) \subseteq ToSet(pool.q)
  <2>1. pool.n \in Int
    BY <1>1, SoundFacts
  <2>2. QED  BY <1>1, <2>1, SignaledSound
<1> HIDE DEF s
<1>3. netin \in All /\ netin \notin ToSet(s.q)
  BY <1>1, <1>2 DEF All
<1>4. /\ Sound(Waited(s, netin)) /\ Waited(s, netin).n = s.n - 1
      /\ ToSet(Waited(s, netin).q) \subseteq ToSet(s.q) \cup {netin}
  BY <1>2, <1>3, WaitedSound
<1>5. pool' = Waited(s, netin)
  BY DEF NextBuffer, s
<1>6. pool.n \in Int
  BY <1>1, SoundFacts
<1>7. QED  BY <1>2, <1>4, <1>5, <1>6

LEMMA WaitedPool ==
  ASSUME PoolInv, NEW p \in All, p \notin ToSet(pool.q), pool' = Waited(pool, p)
  PROVE  /\ Sound(pool') /\ pool'.n = pool.n - 1 /\ pool.n \in Int
         /\ ToSet(pool'.q) \subseteq ToSet(pool.q) \cup {p}
<1>1. Sound(pool) /\ pool.n \in Int
  BY SoundFacts DEF PoolInv, PoolQueue
<1>2. QED  BY <1>1, WaitedSound

LEMMA SignaledPool ==
  ASSUME PoolInv, pool' = Signaled(pool)
  PROVE  /\ Sound(pool') /\ pool'.n = pool.n + 1 /\ pool.n \in Int
         /\ ToSet(pool'.q) \subseteq ToSet(pool.q)
<1>1. Sound(pool) /\ pool.n \in Int
  BY SoundFacts DEF PoolInv, PoolQueue
<1>2. QED  BY <1>1, SignaledSound

\* The steps that change no queue.
LEMMA PoolCall ==
  ASSUME PoolInv, DgramTyped, DgramTyped', TableTyped, RoomInv', NEW p \in Procs, NEW l, Comes(p, l),
         UNCHANGED <<icmpq, leaked, lost>>, \A n \in Devices : netqs'[n].queued = netqs[n].queued,
         \/ UNCHANGED pool /\ Weight(l) = Weight(cont[p].at)
         \/ pool' = Waited(pool, p) /\ l \in {"write", "ask"} /\ Weight(l) = Weight(cont[p].at) + 1
         \/ pool' = Signaled(pool) /\ Weight(cont[p].at) = Weight(l) + 1,
         cont[p].at \notin {"write", "ask"} \/ ~Contains(pool.q, p)
  PROVE  PoolInv'
<1>1. /\ p \notin ToSet(pool.q) /\ p \in All /\ p # netin /\ Sound(pool) /\ pool.n \in Int
      /\ Weight(l) \in Nat /\ Weight(cont[p].at) \in Nat
  BY NotInPool, SoundFacts, RouteAssumption DEF PoolInv, PoolQueue, All, Weight
<1>2. Elsewhere \in Nat /\ Elsewhere' = Elsewhere /\ PoolBounds' /\ (NetinBlocked' => netin \notin ToSet(pool.q))
  BY ElsewhereTyped, ElsewhereSame DEF PoolInv, PoolQueue
<1>3. CASE UNCHANGED pool /\ Weight(l) = Weight(cont[p].at)
  BY <1>1, <1>2, <1>3, PoolGoes
<1>4. CASE pool' = Waited(pool, p) /\ l \in {"write", "ask"} /\ Weight(l) = Weight(cont[p].at) + 1
  <2>1. /\ Sound(pool') /\ pool'.n = pool.n - 1
        /\ ToSet(pool'.q) \subseteq ToSet(pool.q) \cup {p}
    BY <1>1, <1>4, WaitedPool
  <2>2. pool'.n + Weight(l) + Elsewhere' = pool.n + Weight(cont[p].at) + Elsewhere
    BY <1>1, <1>2, <1>4, <2>1
  <2>3. ToSet(pool'.q) \subseteq ToSet(pool.q) \cup {p, netin} /\ (NetinBlocked' => netin \notin ToSet(pool'.q))
    BY <1>1, <1>2, <2>1
  <2>4. QED  BY <1>2, <1>4, <2>1, <2>2, <2>3, PoolGoes
<1>5. CASE pool' = Signaled(pool) /\ Weight(cont[p].at) = Weight(l) + 1
  <2>1. /\ Sound(pool') /\ pool'.n = pool.n + 1
        /\ ToSet(pool'.q) \subseteq ToSet(pool.q)
    BY <1>1, <1>5, SignaledPool
  <2>2. pool'.n + Weight(l) + Elsewhere' = pool.n + Weight(cont[p].at) + Elsewhere
    BY <1>1, <1>2, <1>5, <2>1
  <2>3. /\ p \notin ToSet(pool'.q) /\ ToSet(pool'.q) \subseteq ToSet(pool.q) \cup {p, netin} /\ Elsewhere' \in Int
        /\ NetinBlocked' => netin \notin ToSet(pool'.q)
    BY <1>1, <1>2, <2>1
  <2>4. QED  BY <1>2, <2>1, <2>2, <2>3, PoolGoes
<1>6. QED  BY <1>3, <1>4, <1>5

\* A packet written to device -1.
LEMMA PoolLost ==
  ASSUME PoolInv, DgramTyped, DgramTyped', TableTyped, RoomInv', NEW p \in Procs, NEW l, Comes(p, l),
         UNCHANGED <<pool, icmpq, leaked>>, lost' = lost + 1,
         \A n \in Devices : netqs'[n].queued = netqs[n].queued,
         Weight(cont[p].at) = Weight(l) + 1, cont[p].at \notin {"write", "ask"}
  PROVE  PoolInv'
<1>1. p \notin ToSet(pool.q) /\ pool.n \in Int /\ Sound(pool) /\ Weight(l) \in Nat
  BY NotInPool, SoundFacts DEF PoolInv, PoolQueue, Weight
<1>2. InQueues' = InQueues
  BY InQueuesSame
<1>3. NetinBlocked' <=> NetinBlocked
  BY DEF NetinBlocked, NetinWaitsAt
<1>4. /\ Elsewhere \in Nat /\ Handled \in {0, 1}
      /\ Len(icmpq) \in Nat /\ Cardinality(InQueues) \in Nat /\ leaked \in Nat /\ lost \in Nat
  BY ElsewhereTyped DEF PoolInv
<1>5. Elsewhere' = Handled + (Len(icmpq) + Cardinality(InQueues) + leaked + (lost + 1))
  BY <1>2, <1>3 DEF Elsewhere, Handled, Rest
<1>6. Elsewhere' = Elsewhere + 1
  BY <1>4, <1>5 DEF Elsewhere, Rest
<1>7. PoolBounds'
  BY <1>4 DEF PoolBounds
<1>8. pool'.n + Weight(l) + Elsewhere' = pool.n + Weight(cont[p].at) + Elsewhere
  BY <1>1, <1>4, <1>6
<1>9. NetinBlocked' => netin \notin ToSet(pool'.q)
  BY <1>3 DEF PoolInv, PoolQueue
<1>10. QED  BY <1>1, <1>4, <1>6, <1>7, <1>8, <1>9, PoolGoes

LEMMA RoutePool ==
  ASSUME PoolInv, DgramTyped, DgramTyped', TableTyped, ContTyped, RoomInv', part = "internet",
         UNCHANGED dgVars, NEW p \in Procs, RouteStep(p)
  PROVE  PoolInv'
<1> DEFINE L == Labels("internet")
           a == cont[p].at
<1>1. /\ {"user", "serve", "turn", "insert", "advance", "rewind", "mark", "name", "zero", "found",
          "request", "ask", "await", "answered", "test", "gate"} \subseteq L
      /\ cont \in [Procs -> Conts(L)] /\ cont[p] \in Conts(L) /\ cont[p].try \in Nat
  BY DEF ContTyped, Labels, Conts
<1>2. /\ UNCHANGED <<icmpq, leaked>> /\ \A n \in Devices : netqs'[n].queued = netqs[n].queued
  BY DEF dgVars
<1> HIDE DEF L
<1>3. ASSUME NEW l, Comes(p, l), Weight(l) = Weight(a), UNCHANGED <<pool, lost>>, a # "ask", a # "write"
      PROVE  PoolInv'
  BY <1>2, <1>3, PoolCall
<1>4. ASSUME NEW h, Leaves(p, h), a \in {"turn", "test"} PROVE PoolInv'
  <2>1. Comes(p, Home(p)) /\ Weight(a) = Weight(Home(p)) + 1 /\ a # "ask" /\ a # "write"
    BY <1>4, LeavesComes, Weights
  <2>2. \/ pool' = Signaled(pool) /\ UNCHANGED lost
        \/ UNCHANGED pool /\ lost' = lost + 1
    BY <1>4 DEF Leaves
  <2>3. QED  BY <1>2, <2>1, <2>2, PoolCall, PoolLost
<1>5. CASE \/ RouteTurn(p) \/ Answered(p) \/ Asked(p) \/ Found(p)
           \/ Advance(p) \/ Rewind(p) \/ MarkAlloc(p) \/ CopyIad(p) \/ ClearEad(p)
  <2> DEFINE M == {"turn", "answered", "test", "rewind", "mark", "name", "zero", "found", "request"}
             N == {"route", "await", "answered", "found", "advance", "rewind", "mark", "name", "zero"}
  <2>1. \E l \in M : Goes(p, l) /\ a \in N /\ UNCHANGED <<pool, lost>>
    BY <1>5 DEF RouteTurn, Answered, Asked, Found, Advance, Rewind, MarkAlloc, CopyIad, ClearEad, Fills, At, sentVars
  <2>2. \E l \in M : Comes(p, l) /\ a \in N /\ UNCHANGED <<pool, lost>>
    BY <1>1, <2>1, ThenAt DEF Comes, L
  <2>3. QED  BY <1>3, <2>2, Weights
<1>6. CASE Getpath(p)
  <2>1. a = "turn"
    BY <1>6 DEF Getpath, At
  <2>2. CASE Leaves(p, Broadcast)
    BY <1>4, <2>1, <2>2
  <2>3. CASE Goes(p, "insert") /\ UNCHANGED <<pool, sentVars>>
    <3>1. Comes(p, "insert") /\ UNCHANGED lost
      BY <1>1, <2>3, ThenAt DEF Comes, L, sentVars
    <3>2. QED  BY <1>3, <2>1, <2>3, <3>1, Weights
  <2>4. CASE /\ cont' = [cont EXCEPT ![p].ix = Min(Known(cont[p].to)), ![p].try = 0, ![p].at = "found"]
             /\ UNCHANGED <<pool, sentVars>>
    <3> DEFINE i == Min(Known(cont[p].to))
    <3>1. cont' = [cont EXCEPT ![p].ix = i, ![p].try = 0, ![p].at = "found"] /\ UNCHANGED lost
      BY <2>4 DEF sentVars
    <3> HIDE DEF i
    <3>2. Comes(p, "found")
      BY <1>1, <3>1 DEF Comes, Conts
    <3>3. QED  BY <1>3, <2>1, <2>4, <3>1, <3>2, Weights
  <2>5. QED  BY <1>6, <2>2, <2>3, <2>4 DEF Getpath
<1>7. CASE Insert(p)
  <2>1. /\ cont' = [cont EXCEPT ![p].ix = atabnxt, ![p].try = 0, ![p].at = "advance"]
        /\ a = "insert" /\ UNCHANGED <<pool, lost>>
    BY <1>7 DEF Insert, At, sentVars
  <2>2. Comes(p, "advance")
    BY <1>1, <2>1 DEF Comes, Conts
  <2>3. QED  BY <1>3, <2>1, <2>2, Weights
<1>8. CASE Mkarp(p)
  <2>1. a = "request" /\ pool' = Waited(pool, p) /\ Goes(p, "ask") /\ UNCHANGED lost
    BY <1>8 DEF Mkarp, At, sentVars
  <2>2. Comes(p, "ask") /\ Weight("ask") = Weight(a) + 1
    BY <1>1, <2>1, ThenAt, Weights DEF Comes, L
  <2>3. QED  BY <1>2, <2>1, <2>2, PoolCall
<1>9. CASE Ask(p)
  <2>1. a = "ask" /\ ~Contains(pool.q, p) /\ pool' = Signaled(pool) /\ Goes(p, "await") /\ UNCHANGED lost
    BY <1>9 DEF Ask, At, sentVars
  <2>2. Comes(p, "await") /\ Weight(a) = Weight("await") + 1
    BY <1>1, <2>1, ThenAt, Weights DEF Comes, L
  <2>3. QED  BY <1>2, <2>1, <2>2, PoolCall
<1>10. CASE TimesOut(p)
  <2> DEFINE t == cont[p].try + 1
             l == IF t < AR_RTRY THEN "request" ELSE "answered"
  <2>1. cont' = [cont EXCEPT ![p].try = t, ![p].at = l] /\ a = "await" /\ UNCHANGED <<pool, lost>>
    BY <1>10 DEF TimesOut, At, sentVars
  <2>2. l \in {"request", "answered"}
    OBVIOUS
  <2> HIDE DEF t, l
  <2>3. Comes(p, l)
    BY <1>1, <2>1 DEF Comes, Conts
  <2>4. QED  BY <1>3, <2>1, <2>2, <2>3, Weights
<1>11. CASE Test(p)
  <2>1. a = "test"
    BY <1>11 DEF Test, At
  <2>2. ASSUME NEW h, Leaves(p, h) PROVE PoolInv'
    BY <1>4, <2>1, <2>2
  <2>3. CASE UNCHANGED <<pool, sentVars>> /\ (UNCHANGED cont \/ Goes(p, "gate"))
    <3>1. (Comes(p, "test") \/ Comes(p, "gate")) /\ UNCHANGED lost
      BY <1>1, <2>1, <2>3, ThenAt DEF Comes, L, sentVars
    <3>2. QED  BY <1>3, <2>1, <2>3, <3>1, Weights
  <2>4. QED  BY <1>11, <2>2, <2>3 DEF Test
<1>12. CASE Gate(p)
  <2> DEFINE c == [Where("turn") EXCEPT !.to = Gateway, !.via = TRUE]
  <2>1. c \in Conts(L) /\ c.at = "turn" /\ Then(p, c) /\ a = "gate" /\ UNCHANGED <<pool, lost>>
    BY <1>1, <1>12, WhereTyped, RouteAssumption DEF Gate, At, sentVars
  <2> HIDE DEF c
  <2>2. Comes(p, "turn")
    BY <1>1, <2>1, ThenTyped DEF Comes
  <2>3. QED  BY <1>3, <2>1, <2>2, Weights
<1>13. QED
  BY <1>5, <1>6, <1>7, <1>8, <1>9, <1>10, <1>11, <1>12 DEF RouteStep

\* preceive, and freebuf of the packet.
LEMMA ReceivesPool ==
  ASSUME PoolInv, DgramTyped, DgramTyped', TableTyped, ContTyped, RoomInv', part = "internet",
         NEW p \in Procs, NEW d \in Devices, Receives(p, d), UNCHANGED <<icmpq, leaked, lost>>,
         ~NetinWaitsAt(QueueOf(d)), cont[p].at \in {"user", "receive", "timed"}
  PROVE  PoolInv'
<1> DEFINE n == QueueOf(d)
<1>1. n \in Devices /\ netqs[n].queued \in Nat /\ d \in Nat
  BY QueueTyped
<1>2. {"user", "receive"} \subseteq Labels("internet")
  BY DEF Labels
<1>3. Weight(cont[p].at) = 0 /\ Weight("user") = 0 /\ Weight("receive") = 0
  BY Weights
<1>4. CASE netqs[n].queued = 0
  <2>1. Awaits(p, "receive", d) /\ UNCHANGED <<pool, netqs>>
    BY <1>4 DEF Receives
  <2>2. Comes(p, "receive")
    BY <1>1, <1>2, <2>1, AwaitsAt DEF Comes
  <2>3. cont[p].at \notin {"write", "ask"}
    OBVIOUS
  <2>4. QED  BY <1>3, <2>1, <2>2, <2>3, PoolCall
<1>5. CASE netqs[n].queued # 0
  <2>1. Then(p, Where("user")) /\ netqs' = [netqs EXCEPT ![n].queued = @ - 1] /\ pool' = Signaled(pool)
    BY <1>5 DEF Receives
  <2>2. Comes(p, "user")
    BY <1>2, <2>1, ThenAt DEF Comes
  <2>3. 1 \in Nat /\ 1 <= netqs[n].queued /\ ~NetinWaitsAt(n)
    BY <1>1, <1>5
  <2> HIDE DEF n
  <2>4. OnlyQueue(n) /\ netqs'[n].queued = netqs[n].queued - 1
    BY <1>1, <2>1, <2>3, QueueEmptied
  <2>5. Elsewhere' = Elsewhere - 1 /\ Elsewhere \in Nat /\ PoolBounds' /\ (NetinBlocked' <=> NetinBlocked)
    BY <1>1, <2>3, <2>4, QueueLess DEF PoolInv
  <2>6. /\ Sound(pool') /\ pool'.n = pool.n + 1 /\ pool.n \in Int
        /\ ToSet(pool'.q) \subseteq ToSet(pool.q)
    BY <2>1, SignaledPool
  <2>7. /\ p \notin ToSet(pool'.q) /\ ToSet(pool'.q) \subseteq ToSet(pool.q) \cup {p, netin}
        /\ NetinBlocked' => netin \notin ToSet(pool'.q)
    BY <2>5, <2>6, NotInPool DEF PoolInv, PoolQueue
  <2>8. pool'.n + Weight("user") + Elsewhere' = pool.n + Weight(cont[p].at) + Elsewhere /\ Elsewhere' \in Int
    BY <1>3, <2>5, <2>6
  <2>9. QED  BY <2>2, <2>5, <2>6, <2>7, <2>8, PoolGoes
<1>6. QED  BY <1>4, <1>5

\* The same where netin waits for the room: it goes on, to wait for a buffer.
LEMMA ReleasesPool ==
  ASSUME PoolInv, DgramTyped, DgramTyped', TableTyped, ContTyped, RoomInv', part = "internet",
         NEW p \in Procs, cont[p].at = "receive", NEW n \in Devices, NetinWaitsAt(n),
         netqs' = [netqs EXCEPT ![n].queued = @ - 1, ![n].pid = Nobody],
         pool' = Signaled(Waited(pool, netin)), Then(p, Where("user")), UNCHANGED <<icmpq, leaked, lost>>
  PROVE  PoolInv'
<1>1. netqs[n].queued \in Nat /\ NETQLEN \in Nat /\ NETFQ \in Nat /\ Len(icmpq) \in Nat
  BY DatagramAssumption DEF DgramTyped, QueueTable, TableTyped
<1>2. netqs[n].queued = NETQLEN + 1 /\ NetinBlocked
  BY <1>1 DEF PoolInv, PoolBounds, RoomInv, NetinWaitsAt, NetinBlocked
<1>3. OnlyQueue(n) /\ netqs'[n].queued = NETQLEN
  <2> DEFINE k == netqs[n].queued - 1
  <2>1. k \in Nat /\ k = NETQLEN
    BY <1>1, <1>2
  <2>2. netqs' = [netqs EXCEPT ![n].queued = k, ![n].pid = Nobody]
    OBVIOUS
  <2> HIDE DEF k
  <2>3. OnlyQueue(n) /\ netqs'[n].queued = k
    BY <2>1, <2>2, QueueSet
  <2>4. QED  BY <2>1, <2>3
<1>4. ~NetinBlocked'
  <2>1. Len(icmpq) <= NETFQ /\ \A m \in Devices \ {n} : ~NetinWaitsAt(m)
    BY DEF PoolInv, PoolBounds, RoomInv
  <2>2. \A m \in Devices \ {n} : netqs'[m] = netqs[m]
    BY ONLY <1>3 DEF OnlyQueue
  <2>3. ASSUME NEW m \in Devices PROVE ~NetinWaitsAt(m)'
    <3>1. CASE m = n
      BY ONLY <1>1, <1>3, <3>1 DEF NetinWaitsAt
    <3>2. CASE m # n
      BY ONLY <2>1, <2>2, <3>2, m \in Devices DEF NetinWaitsAt
    <3>3. QED  BY <3>1, <3>2
  <2>4. ~(Len(icmpq') > NETFQ)
    BY <1>1, <2>1
  <2>5. QED  BY ONLY <2>3, <2>4 DEF NetinBlocked
<1>5. Rest' = Rest - 1 /\ PoolBounds' /\ Rest \in Nat /\ Elsewhere \in Nat
  <2>1. Rest \in Nat /\ Elsewhere \in Nat
    BY ElsewhereTyped DEF PoolInv
  <2>2. Rest' = Rest + netqs'[n].queued - netqs[n].queued /\ PoolBounds'
    BY <1>3, RestMoves DEF PoolInv
  <2>3. QED  BY <1>1, <1>2, <1>3, <2>1, <2>2
<1>6. Elsewhere' = Elsewhere
  BY <1>2, <1>4, <1>5 DEF Elsewhere, Handled
<1>7. /\ Sound(pool') /\ pool'.n = pool.n /\ pool.n \in Int
      /\ ToSet(pool'.q) \subseteq ToSet(pool.q) \cup {netin}
  <2> DEFINE s == Waited(pool, netin)
  <2>1. Sound(pool) /\ pool.n \in Int /\ netin \in All /\ netin \notin ToSet(pool.q)
    BY <1>2, SoundFacts DEF PoolInv, PoolQueue, All
  <2>2. Sound(s) /\ s.n = pool.n - 1 /\ ToSet(s.q) \subseteq ToSet(pool.q) \cup {netin}
    BY <2>1, WaitedSound
  <2> HIDE DEF s
  <2>3. Sound(Signaled(s)) /\ Signaled(s).n = s.n + 1 /\ ToSet(Signaled(s).q) \subseteq ToSet(s.q)
    <3>1. s.n < 0 \/ s.n >= 0
      BY <2>1, <2>2
    <3>2. QED  BY <2>2, <3>1, SignaledSound
  <2>4. pool' = Signaled(s)
    BY DEF s
  <2>5. QED  BY <2>1, <2>2, <2>3, <2>4
<1>8. Comes(p, "user")
  <2>1. "user" \in Labels("internet")
    BY DEF Labels
  <2>2. QED  BY <2>1, ThenAt DEF Comes
<1>9. p \notin ToSet(pool'.q)
  BY <1>7, NotInPool, RouteAssumption DEF PoolInv
<1>10. pool'.n + Weight("user") + Elsewhere' = pool.n + Weight(cont[p].at) + Elsewhere
  BY <1>6, <1>7, Weights
<1>11. QED  BY <1>4, <1>5, <1>6, <1>7, <1>8, <1>9, <1>10, PoolGoes

\* DG_CLEAR frees the packets it takes.
LEMMA ClearsPool ==
  ASSUME PoolInv, DgramTyped, DgramTyped', TableTyped, RoomInv', NEW p \in Procs, NEW d \in Devices,
         Disposes(d), ~NetinWaitsAt(QueueOf(d)), UNCHANGED <<icmpq, leaked, lost>>,
         cont[p].at \in {"user", "clear"}, Comes(p, "clear")
  PROVE  PoolInv'
<1> DEFINE n == QueueOf(d)
           k == IF netqs[n].queued > 0 /\ Frees(pool) THEN 1 ELSE netqs[n].queued
<1>1. n \in Devices /\ netqs[n].queued \in Nat /\ ~NetinWaitsAt(n)
  BY QueueTyped
<1>2. k \in Nat /\ k <= netqs[n].queued
  BY <1>1
<1>3. netqs' = [netqs EXCEPT ![n].queued = @ - k] /\ pool' = SignaledBy(pool, k)
  BY DEF Disposes
<1> HIDE DEF k, n
<1>4. OnlyQueue(n) /\ netqs'[n].queued = netqs[n].queued - k
  BY <1>1, <1>2, <1>3, QueueEmptied
<1>5. Elsewhere' = Elsewhere - k /\ Elsewhere \in Nat /\ PoolBounds' /\ (NetinBlocked' <=> NetinBlocked)
  BY <1>1, <1>2, <1>4, QueueLess DEF PoolInv
<1>6. /\ Sound(pool') /\ pool'.n = pool.n + k /\ pool.n \in Int
      /\ ToSet(pool'.q) \subseteq ToSet(pool.q)
  <2>1. Sound(pool) /\ pool.n \in Int
    BY SoundFacts DEF PoolInv, PoolQueue
  <2>2. QED  BY <1>2, <1>3, <2>1, SignaledBySound
<1>7. /\ p \notin ToSet(pool'.q) /\ ToSet(pool'.q) \subseteq ToSet(pool.q) \cup {p, netin}
      /\ NetinBlocked' => netin \notin ToSet(pool'.q)
  BY <1>5, <1>6, NotInPool DEF PoolInv, PoolQueue
<1>8. Weight(cont[p].at) = 0 /\ Weight("clear") = 0
  BY Weights
<1>9. pool'.n + Weight("clear") + Elsewhere' = pool.n + Weight(cont[p].at) + Elsewhere /\ Elsewhere' \in Int
  BY <1>2, <1>5, <1>6, <1>8
<1>10. QED  BY <1>5, <1>6, <1>7, <1>9, PoolGoes

\* A call that leaves its process where it was, or takes it from one wait to another.
LEMMA DatagramPool ==
  ASSUME PoolInv, DgramInv, DgramTyped', TableTyped, ContTyped, RoomInv', part = "internet",
         NEW p \in Procs, DatagramStep(p)
  PROVE  PoolInv'
<1>1. /\ {"user", "write", "route", "receive", "timed", "clear"} \subseteq Labels("internet") /\ DgramTyped
      /\ UNCHANGED <<icmpq, leaked, lost>> /\ RoomInv
  BY DEF Labels, DgramInv, PoolInv, PoolBounds, DatagramStep, Dgmopen, Dgclose, DgcntlSetmode, DgcntlClear,
         ClearsOn, Dgread, DgreadTimesOut, DgreadOn, Preceived, Dgwrite, DgwriteOn, dgVars, routeVars, routeOwn, sentVars
<1>2. CASE \E u \in UdpPorts \cup {0} : Dgmopen(p, u)
  <2>1. PICK u \in UdpPorts \cup {0} : Dgmopen(p, u)
    BY <1>2
  <2>2. UNCHANGED <<pool, cont>>
    BY <2>1 DEF Dgmopen, routeVars, routeOwn
  <2>3. \A n \in Devices : netqs'[n].queued = netqs[n].queued
    <3>1. CASE UNCHANGED netqs
      BY <3>1
    <3>2. ASSUME NEW d, NEW n, NEW v, Opens(p, d, n, v)
          PROVE  \A m \in Devices : netqs'[m].queued = netqs[m].queued
      BY <1>1, <3>2 DEF Opens, DgramTyped, QueueTable
    <3>3. QED  BY <2>1, <3>1, <3>2 DEF Dgmopen
  <2>4. Elsewhere \in Nat /\ Elsewhere' = Elsewhere /\ PoolBounds' /\ (NetinBlocked' <=> NetinBlocked)
    BY <1>1, <2>2, <2>3, ElsewhereTyped, ElsewhereSame DEF PoolInv
  <2>5. QED  BY <2>2, <2>4, PoolStays DEF PoolInv, PoolQueue
<1>3. CASE \E d \in Devices : Dgclose(p, d) \/ DgcntlSetmode(p, d)
  <2>1. UNCHANGED <<pool, cont>>
    BY <1>3 DEF Dgclose, DgcntlSetmode, routeVars, routeOwn
  <2>2. \A n \in Devices : netqs'[n].queued = netqs[n].queued
    BY <1>1, <1>3 DEF Dgclose, DgcntlSetmode, DgramTyped, QueueTable
  <2>3. Elsewhere \in Nat /\ Elsewhere' = Elsewhere /\ PoolBounds' /\ (NetinBlocked' <=> NetinBlocked)
    BY <1>1, <2>1, <2>2, ElsewhereTyped, ElsewhereSame DEF PoolInv
  <2>4. QED  BY <2>1, <2>3, PoolStays DEF PoolInv, PoolQueue
<1>4. CASE \E d \in Devices : DgcntlClear(p, d)
  <2>1. PICK d \in Devices : Disposes(d) /\ cont[p].at = "user" /\ Opened(p, d) /\ Awaits(p, "clear", d)
    BY <1>4 DEF DgcntlClear, Calls, At
  <2>2. Comes(p, "clear")
    BY <1>1, <2>1, AwaitsAt, QueueTyped DEF Comes
  <2>3. ~NetinWaitsAt(QueueOf(d))
    BY <1>1, <2>1, OwnQueueOpen
  <2>4. cont[p].at \in {"user", "clear"}
    BY <2>1
  <2>5. QED  BY <1>1, <2>1, <2>2, <2>3, <2>4, ClearsPool
<1>5. CASE \E d \in Devices : Dgread(p, d)
  <2>1. PICK d \in Devices : Dgread(p, d)
    BY <1>5
  <2> DEFINE n == QueueOf(d)
  <2>2. /\ n \in Devices /\ netqs[n].queued \in Nat /\ d \in Nat
        /\ cont[p].at = "user" /\ Opened(p, d)
    BY <1>1, <2>1 DEF Dgread, Calls, At, DgramTyped, DeviceTable, QueueTable, QueueOf, Devices
  <2>3. CASE Receives(p, d)
    <3>1. ~NetinWaitsAt(QueueOf(d)) /\ cont[p].at \in {"user", "receive", "timed"}
      BY <1>1, <2>2, OwnQueueOpen
    <3>2. QED  BY <1>1, <2>3, <3>1, ReceivesPool
  <2>4. CASE UNCHANGED <<pool, netqs, cont>>
    <3>1. Elsewhere \in Nat /\ Elsewhere' = Elsewhere /\ PoolBounds' /\ (NetinBlocked' <=> NetinBlocked)
      BY <1>1, <2>2, <2>4, ElsewhereTyped, ElsewhereSame DEF PoolInv
    <3>2. QED  BY <2>4, <3>1, PoolStays DEF PoolInv, PoolQueue
  <2>5. CASE /\ netqs' = [netqs EXCEPT ![n].pid = p] /\ UNCHANGED pool
             /\ Awaits(p, IF mail[p] THEN "receive" ELSE "timed", d)
    <3> DEFINE l == IF mail[p] THEN "receive" ELSE "timed"
    <3>1. l \in Labels("internet") /\ l \in {"receive", "timed"} /\ Awaits(p, l, d)
      BY <1>1, <2>5
    <3> HIDE DEF l
    <3>2. Comes(p, l) /\ Weight(l) = Weight(cont[p].at)
      BY <2>2, <3>1, AwaitsAt, Weights DEF Comes
    <3>3. \A m \in Devices : netqs'[m].queued = netqs[m].queued
      BY <1>1, <2>5 DEF DgramTyped, QueueTable
    <3>4. cont[p].at \notin {"write", "ask"}
      BY <2>2
    <3>5. QED  BY <1>1, <2>2, <2>5, <3>2, <3>3, <3>4, PoolCall
  <2>6. QED  BY <2>1, <2>3, <2>4, <2>5 DEF Dgread
<1>6. CASE \E d \in Devices, a \in Hosts \cup {Broadcast, Nobody} : Dgwrite(p, d, a)
  <2>1. PICK d \in Devices, a \in Hosts \cup {Broadcast, Nobody} : Dgwrite(p, d, a)
    BY <1>6
  <2>2. /\ cont[p].at = "user" /\ pool' = Waited(pool, p) /\ UNCHANGED netqs
        /\ Then(p, [Where("write") EXCEPT !.to = a])
    BY <2>1 DEF Dgwrite, Calls, At, dgVars
  <2>3. Comes(p, "write") /\ Weight("write") = Weight(cont[p].at) + 1
    <3>1. cont'[p].at = "write" /\ \A q \in Procs \ {p} : cont'[q] = cont[q]
      BY <1>1, <2>2, ThenAt
    <3>2. QED  BY <2>2, <3>1, Weights DEF Comes
  <2>4. QED  BY <1>1, <2>2, <2>3, PoolCall
<1>7. CASE DgwriteOn(p)
  <2>1. /\ cont[p].at = "write" /\ ~Contains(pool.q, p) /\ UNCHANGED netqs
        /\ \/ Goes(p, "route") /\ UNCHANGED pool
           \/ Then(p, Where("user")) /\ pool' = Signaled(pool)
    BY <1>7 DEF DgwriteOn, At, dgVars
  <2>2. CASE Goes(p, "route") /\ UNCHANGED pool
    <3>1. Comes(p, "route") /\ Weight("route") = Weight(cont[p].at)
      BY <1>1, <2>1, <2>2, ThenAt, Weights DEF Comes
    <3>2. QED  BY <1>1, <2>1, <2>2, <3>1, PoolCall
  <2>3. CASE Then(p, Where("user")) /\ pool' = Signaled(pool)
    <3>1. Comes(p, "user") /\ Weight(cont[p].at) = Weight("user") + 1
      BY <1>1, <2>1, <2>3, ThenAt, Weights DEF Comes
    <3>2. QED  BY <1>1, <2>1, <2>3, <3>1, PoolCall
  <2>4. QED  BY <2>1, <2>2, <2>3
<1>8. CASE ClearsOn(p)
  <2> DEFINE d == cont[p].ix
  <2>1. cont[p].at = "clear" /\ d \in Devices /\ Opened(p, d)
    BY <1>8 DEF ClearsOn, At, DgramInv, OwnersInv, Owning
  <2>2. CASE Disposes(d) /\ UNCHANGED cont
    <3>1. Comes(p, "clear") /\ ~NetinWaitsAt(QueueOf(d)) /\ cont[p].at \in {"user", "clear"}
      BY <1>1, <2>1, <2>2, OwnQueueOpen DEF Comes
    <3> HIDE DEF d
    <3>2. QED  BY <1>1, <2>1, <2>2, <3>1, ClearsPool
  <2>3. CASE Then(p, Where("user")) /\ UNCHANGED <<pool, netqs>>
    <3>1. Comes(p, "user") /\ Weight("user") = Weight(cont[p].at)
      BY <1>1, <2>1, <2>3, ThenAt, Weights DEF Comes
    <3>2. QED  BY <1>1, <2>1, <2>3, <3>1, PoolCall
  <2>4. QED  BY <1>8, <2>2, <2>3 DEF ClearsOn
<1>9. CASE DgreadTimesOut(p)
  <2>1. /\ cont[p].at = "timed" /\ Then(p, Where("user")) /\ UNCHANGED pool
        /\ \A m \in Devices : netqs'[m].queued = netqs[m].queued
    BY <1>1, <1>9 DEF DgreadTimesOut, At, DgramTyped, QueueTable
  <2>2. Comes(p, "user") /\ Weight("user") = Weight(cont[p].at)
    BY <1>1, <2>1, ThenAt, Weights DEF Comes
  <2>3. QED  BY <1>1, <2>1, <2>2, PoolCall
<1>10. CASE DgreadOn(p)
  <2> DEFINE d == cont[p].ix
  <2>1. cont[p].at = "timed" /\ Receives(p, d) /\ d \in Devices /\ Opened(p, d)
    BY <1>10 DEF DgreadOn, At, DgramInv, OwnersInv, Owning
  <2>2. ~NetinWaitsAt(QueueOf(d)) /\ cont[p].at \in {"user", "receive", "timed"}
    BY <1>1, <2>1, OwnQueueOpen
  <2> HIDE DEF d
  <2>3. QED  BY <1>1, <2>1, <2>2, ReceivesPool
<1>11. CASE Preceived(p)
  <2> DEFINE d == cont[p].ix
             n == QueueOf(d)
  <2>1. cont[p].at = "receive" /\ d \in Devices
    BY <1>11 DEF Preceived, At, DgramInv, OwnersInv, Owning
  <2>2. n \in Devices
    BY <1>1, <2>1, QueueTyped
  <2>3. CASE ~NetinWaitsAt(n) /\ Receives(p, d)
    <3>1. ~NetinWaitsAt(QueueOf(d)) /\ cont[p].at \in {"user", "receive", "timed"}
      BY <2>1, <2>3
    <3> HIDE DEF d
    <3>2. QED  BY <1>1, <2>1, <2>3, <3>1, ReceivesPool
  <2>4. CASE /\ NetinWaitsAt(n) /\ netqs' = [netqs EXCEPT ![n].queued = @ - 1, ![n].pid = Nobody]
             /\ pool' = Signaled(Waited(pool, netin)) /\ Then(p, Where("user"))
    <3> HIDE DEF n
    <3>1. QED  BY <1>1, <2>1, <2>2, <2>4, ReleasesPool
  <2>5. QED  BY <1>11, <2>3, <2>4 DEF Preceived
<1>12. QED
  BY <1>2, <1>3, <1>4, <1>5, <1>6, <1>7, <1>8, <1>9, <1>10, <1>11 DEF DatagramStep

\* Until the machine has its address no process has a buffer.
LEMMA BootPool ==
  ASSUME PoolInv, DgramTyped, DgramTyped', TableTyped, ContTyped, AnswerInv, RoomInv', part = "internet",
         UNCHANGED dgVars, Sndrarp \/ RarpAnswered \/ RarpTimesOut
  PROVE  PoolInv'
<1> DEFINE L == Labels("internet")
<1>1. /\ {"user", "serve", "boot", "rarp"} \subseteq L /\ netout \in Procs
      /\ cont \in [Procs -> Conts(L)] /\ cont[netout] \in Conts(L) /\ cont[netout].try \in Nat
  BY NetProcsAssumption DEF ContTyped, Labels, Conts
<1>2. /\ cont[netout].at \in {"boot", "rarp"} /\ \A q \in Procs \ {netout} : cont[q].at = "unborn"
      /\ UNCHANGED <<pool, netqs, icmpq, leaked, lost>>
  BY <1>1 DEF Sndrarp, RarpAnswered, RarpTimesOut, At, AnswerInv, BootInv, dgVars, sentVars
<1> HIDE DEF L
<1>3. ASSUME NEW l \in {"boot", "rarp"}, Comes(netout, l) PROVE PoolInv'
  <2>1. Weight(l) = Weight(cont[netout].at) /\ cont[netout].at \notin {"write", "ask"}
    BY <1>2, <1>3, Weights
  <2>2. QED  BY <1>1, <1>2, <1>3, <2>1, PoolCall
<1>4. CASE Sndrarp
  <2>1. Comes(netout, "rarp")
    BY <1>1, <1>4, ThenAt DEF Sndrarp, Comes, L
  <2>2. QED  BY <1>3, <2>1
<1>5. CASE RarpTimesOut
  <2> DEFINE t == cont[netout].try + 1
  <2>1. cont' = [cont EXCEPT ![netout].at = "boot", ![netout].try = t]
    BY <1>5 DEF RarpTimesOut
  <2> HIDE DEF t
  <2>2. Comes(netout, "boot")
    BY <1>1, <2>1 DEF Comes, Conts
  <2>3. QED  BY <1>3, <2>2
<1>6. CASE RarpAnswered
  <2>1. \A q \in Procs : cont'[q] = Where(Home(q)) /\ Home(q) \in {"user", "serve"}
    BY <1>6 DEF RarpAnswered, Home
  <2>2. \A q \in Procs : cont'[q].at \in {"user", "serve"} /\ cont[q].at \in {"boot", "rarp", "unborn"}
    <3>1. \A l : Where(l).at = l
      BY DEF Where
    <3>2. QED  BY <1>2, <2>1, <3>1
  <2>3. {"boot", "rarp", "unborn", "user", "serve"} \cap (Packeted \cup {"write", "ask"}) = {}
    BY DEF Packeted, RoutePlaces, TablePlaces
  <2>4. /\ AtAny(Packeted) = {} /\ AtAny({"ask"}) = {} /\ AtAny({"write", "ask"}) = {}
        /\ AtAny(Packeted)' = {} /\ AtAny({"ask"})' = {} /\ AtAny({"write", "ask"})' = {}
    BY <2>2, <2>3 DEF AtAny, Packeted, RoutePlaces, TablePlaces
  <2>5. Cost' = Cost
    BY <2>4 DEF Cost, Packeted, RoutePlaces, TablePlaces
  <2>6. Elsewhere' = Elsewhere /\ PoolBounds' /\ (NetinBlocked' <=> NetinBlocked)
    BY <1>2, ElsewhereSame DEF PoolInv
  <2>7. PoolQueue'
    BY <1>2, <2>4, <2>6 DEF PoolInv, PoolQueue
  <2>8. QED  BY <1>2, <2>5, <2>6, <2>7 DEF PoolInv
<1>7. QED  BY <1>4, <1>5, <1>6

\* netin: what it does with a packet.
LEMMA UdpPool ==
  ASSUME PoolInv, DgramTyped, DgramTyped', TableTyped, RoomInv', NEW u \in UdpPorts, UdpIn(u)
  PROVE  PoolInv'
<1> DEFINE bound == {n \in Devices : netqs[n].uport = u}
           n == Min(bound)
<1>1. UNCHANGED <<cont, icmpq, lost>> /\ Reads /\ ~NetinBlocked
  BY DEF UdpIn, Arrives, sentVars
<1>2. /\ Elsewhere \in Nat /\ Rest \in Nat /\ Handled = 1 /\ Sound(pool) /\ pool.n \in Int
      /\ netin \in All /\ netin \notin ToSet(pool.q) /\ PoolBounds
  BY <1>1, ElsewhereTyped, ContainsIn, SoundFacts DEF PoolInv, PoolQueue, Reads, All, Handled
<1>3. /\ Len(icmpq) <= NETFQ /\ NETQLEN \in Nat
      /\ \A m \in Devices : netqs[m].queued <= NETQLEN /\ netqs[m].queued \in Nat
  BY <1>1, <1>2, NotBlocked, DatagramAssumption DEF PoolBounds, DgramTyped, QueueTable
<1>4. CASE NextBuffer /\ UNCHANGED <<netqs, leaked>>
  <2>1. Elsewhere' = Elsewhere /\ PoolBounds' /\ ~NetinBlocked'
    BY <1>1, <1>2, <1>4, ElsewhereSame
  <2>2. QED  BY <1>1, <1>2, <1>4, <2>1, NextBufferPool, PoolStays
<1>5. ASSUME pool' = Waited(pool, netin), Rest' = Rest + 1, ~NetinBlocked', PoolBounds' PROVE PoolInv'
  <2>1. /\ Sound(pool') /\ pool'.n = pool.n - 1
        /\ ToSet(pool'.q) \subseteq ToSet(pool.q) \cup {netin}
    BY <1>2, <1>5, WaitedPool
  <2>2. Elsewhere' = 1 + (Rest + 1) /\ Elsewhere = 1 + Rest
    BY <1>2, <1>5 DEF Elsewhere, Handled
  <2>3. pool'.n + Elsewhere' = pool.n + Elsewhere /\ Elsewhere' \in Int
    BY <1>2, <2>1, <2>2
  <2>4. QED  BY <1>1, <1>2, <1>5, <2>1, <2>3, PoolStays
<1>6. CASE bound # {} /\ Delivered(n)
  <2>1. n \in Devices
    <3>1. bound \subseteq Nat
      BY DEF Devices
    <3>2. n \in bound
      <4> HIDE DEF bound
      <4>1. QED  BY <1>6, <3>1, MinNat
    <3>3. QED  BY <3>2
  <2> HIDE DEF n, bound
  <2>2. CASE /\ leaked' = leaked + 1 /\ netqs' = [netqs EXCEPT ![n].pid = Nobody]
             /\ pool' = Waited(pool, netin)
    <3>1. \A m \in Devices : netqs'[m].queued = netqs[m].queued
      BY <2>1, <2>2 DEF DgramTyped, QueueTable
    <3>2. InQueues' = InQueues
      BY <3>1, InQueuesSame
    <3>3. ~NetinBlocked'
      BY <1>1, <3>1 DEF NetinBlocked, NetinWaitsAt
    <3>4. Rest' = Len(icmpq) + Cardinality(InQueues) + (leaked + 1) + lost
      BY <1>1, <2>2, <3>2 DEF Rest
    <3>5. Len(icmpq) \in Nat /\ Cardinality(InQueues) \in Nat /\ leaked \in Nat /\ lost \in Nat
      BY <1>2, ElsewhereTyped
    <3>6. Rest' = Rest + 1
      BY <3>4, <3>5 DEF Rest
    <3>7. PoolBounds'
      BY <1>1, <2>2, <3>5 DEF PoolBounds
    <3>8. QED  BY <1>5, <2>2, <3>3, <3>6, <3>7
  <2>3. CASE NextBuffer /\ UNCHANGED <<netqs, leaked>>
    BY <1>4, <2>3
  <2>4. CASE /\ netqs[n].queued < NETQLEN
             /\ netqs' = [netqs EXCEPT ![n].queued = @ + 1, ![n].pid = Nobody]
             /\ pool' = Waited(pool, netin) /\ UNCHANGED leaked
    <3>1. OnlyQueue(n) /\ netqs'[n].queued = netqs[n].queued + 1
      BY <2>1, <2>4, QueueFilled
    <3>2. Rest' = Rest + netqs'[n].queued - netqs[n].queued /\ PoolBounds'
      BY <1>1, <1>2, <2>1, <2>4, <3>1, RestMoves
    <3>3. \A m \in Devices : ~(netqs'[m].queued > NETQLEN)
      <4>1. netqs[n].queued < NETQLEN /\ \A m \in Devices \ {n} : netqs'[m] = netqs[m]
        BY <2>4, <3>1 DEF OnlyQueue
      <4>2. QED  BY ONLY <1>3, <2>1, <3>1, <4>1
    <3>4. ~NetinBlocked'
      BY <1>1, <3>3 DEF NetinBlocked, NetinWaitsAt
    <3>5. Rest' = Rest + 1
      BY <1>2, <1>3, <2>1, <3>1, <3>2
    <3>6. QED  BY <1>5, <2>4, <3>2, <3>4, <3>5
  <2>5. CASE /\ netqs[n].queued >= NETQLEN
             /\ netqs' = [netqs EXCEPT ![n].queued = @ + 1] /\ UNCHANGED <<pool, leaked>>
    <3>1. OnlyQueue(n) /\ netqs'[n].queued = netqs[n].queued + 1
      BY <2>1, <2>5, QueueLonger
    <3>2. Rest' = Rest + netqs'[n].queued - netqs[n].queued /\ PoolBounds'
      BY <1>1, <1>2, <2>1, <2>5, <3>1, RestMoves
    <3>3. netqs'[n].queued > NETQLEN
      BY <1>3, <2>1, <2>5, <3>1
    <3>4. NetinBlocked'
      BY <2>1, <3>3 DEF NetinBlocked, NetinWaitsAt
    <3>5. Rest' = Rest + 1
      BY <1>2, <1>3, <2>1, <3>1, <3>2
    <3>6. Elsewhere' = 0 + (Rest + 1) /\ Elsewhere = 1 + Rest
      BY <1>2, <3>4, <3>5 DEF Elsewhere, Handled
    <3>7. pool'.n + Elsewhere' = pool.n + Elsewhere /\ Elsewhere' \in Int
      BY <1>2, <2>5, <3>6
    <3>8. QED  BY <1>1, <1>2, <2>5, <3>2, <3>7, PoolStays
  <2>6. QED  BY <1>6, <2>2, <2>3, <2>4, <2>5 DEF Delivered
<1>7. QED  BY <1>4, <1>6 DEF UdpIn

LEMMA IcmpPool ==
  ASSUME PoolInv, DgramTyped, DgramTyped', TableTyped, RoomInv', NEW a \in Hosts, IcmpIn(a)
  PROVE  PoolInv'
<1>1. UNCHANGED <<cont, netqs, leaked, lost>> /\ Reads /\ ~NetinBlocked /\ icmpq \in Seq(Hosts)
  BY DEF IcmpIn, Arrives, sentVars, TableTyped
<1>2. /\ Elsewhere \in Nat /\ Rest \in Nat /\ Handled = 1 /\ Sound(pool) /\ pool.n \in Int
      /\ netin \in All /\ netin \notin ToSet(pool.q) /\ PoolBounds
      /\ Len(icmpq) \in Nat /\ Cardinality(InQueues) \in Nat /\ leaked \in Nat /\ lost \in Nat
  BY <1>1, ElsewhereTyped, ContainsIn, SoundFacts DEF PoolInv, PoolQueue, Reads, All, Handled
<1>3. CASE NextBuffer /\ UNCHANGED icmpq
  <2>1. Elsewhere' = Elsewhere /\ PoolBounds' /\ ~NetinBlocked'
    BY <1>1, <1>2, <1>3, ElsewhereSame
  <2>2. QED  BY <1>1, <1>2, <1>3, <2>1, NextBufferPool, PoolStays
<1>4. CASE icmpq' = Append(icmpq, a) /\ pool' = (IF Len(icmpq) < NETFQ THEN Waited(pool, netin) ELSE pool)
  <2>1. Len(icmpq') = Len(icmpq) + 1 /\ NETFQ \in Nat /\ Len(icmpq) <= NETFQ
    BY <1>1, <1>2, <1>4, NotBlocked, DatagramAssumption DEF PoolBounds
  <2>2. InQueues' = InQueues
    BY <1>1, InQueuesSame
  <2>3. Rest' = Len(icmpq') + Cardinality(InQueues) + leaked + lost
    BY <1>1, <2>2 DEF Rest
  <2>4. Rest' = Rest + 1
    BY <1>2, <2>1, <2>3 DEF Rest
  <2>5. PoolBounds'
    BY <1>1, <1>2 DEF PoolBounds
  <2>6. NetinBlocked' <=> ~(Len(icmpq) < NETFQ)
    <3>1. \A n \in Devices : ~NetinWaitsAt(n)'
      BY <1>1 DEF NetinBlocked, NetinWaitsAt
    <3>2. Len(icmpq') > NETFQ <=> ~(Len(icmpq) < NETFQ)
      BY <1>2, <2>1
    <3>3. QED  BY <3>1, <3>2 DEF NetinBlocked
  <2>7. CASE Len(icmpq) < NETFQ
    <3>1. /\ Sound(pool') /\ pool'.n = pool.n - 1
          /\ ToSet(pool'.q) \subseteq ToSet(pool.q) \cup {netin}
      BY <1>2, <1>4, <2>7, WaitedPool
    <3>2. Elsewhere' = 1 + (Rest + 1) /\ Elsewhere = 1 + Rest /\ ~NetinBlocked'
      BY <1>2, <2>4, <2>6, <2>7 DEF Elsewhere, Handled
    <3>3. pool'.n + Elsewhere' = pool.n + Elsewhere /\ Elsewhere' \in Int
      BY <1>2, <3>1, <3>2
    <3>4. QED  BY <1>1, <1>2, <2>5, <3>1, <3>2, <3>3, PoolStays
  <2>8. CASE ~(Len(icmpq) < NETFQ)
    <3>1. UNCHANGED pool
      BY <1>4, <2>8
    <3>2. Elsewhere' = 0 + (Rest + 1) /\ Elsewhere = 1 + Rest
      BY <1>2, <2>4, <2>6, <2>8 DEF Elsewhere, Handled
    <3>3. pool'.n + Elsewhere' = pool.n + Elsewhere /\ Elsewhere' \in Int
      BY <1>2, <3>1, <3>2
    <3>4. QED  BY <1>1, <1>2, <2>5, <3>1, <3>3, PoolStays
  <2>9. QED  BY <2>7, <2>8
<1>5. QED  BY <1>3, <1>4 DEF IcmpIn

\* netout takes an echo; netin, if it waits for the room, goes on to wait for a buffer.
LEMMA NetoutPool ==
  ASSUME PoolInv, DgramTyped, DgramTyped', TableTyped, ContTyped, RoomInv', part = "internet", NetoutTakes
  PROVE  PoolInv'
<1>1. /\ cont[netout].at \in {"serve", "echo"} /\ netout \in Procs /\ UNCHANGED <<netqs, leaked, lost>>
      /\ icmpq # <<>> /\ icmpq' = Tail(icmpq) /\ icmpq \in Seq(Hosts)
      /\ Then(netout, [Where("route") EXCEPT !.to = Head(icmpq)]) /\ Head(icmpq) \in Hosts
      /\ pool' = IF Len(icmpq) > NETFQ THEN Waited(pool, netin) ELSE pool
  BY NetProcsAssumption DEF NetoutTakes, At, TableTyped, sentVars
<1>2. Comes(netout, "route") /\ Weight("route") = 1 /\ Weight(cont[netout].at) = 0
  <2>1. "route" \in Labels("internet")
    BY DEF Labels
  <2>2. cont'[netout].at = "route" /\ \A q \in Procs \ {netout} : cont'[q] = cont[q]
    BY <1>1, <2>1, ThenAt
  <2>3. QED  BY <1>1, <2>2, Weights DEF Comes
<1>3. Len(icmpq') = Len(icmpq) - 1 /\ Len(icmpq) \in Nat
  BY <1>1
<1>4. /\ Elsewhere \in Nat /\ Rest \in Nat /\ Handled \in {0, 1} /\ Sound(pool) /\ pool.n \in Int
      /\ Cardinality(InQueues) \in Nat /\ leaked \in Nat /\ lost \in Nat /\ NETFQ \in Nat
  BY ElsewhereTyped, SoundFacts, DatagramAssumption DEF PoolInv, PoolQueue
<1>5. Rest' = Rest - 1
  <2>1. InQueues' = InQueues
    BY <1>1, InQueuesSame
  <2>2. Rest' = Len(icmpq') + Cardinality(InQueues) + leaked + lost
    BY <1>1, <2>1 DEF Rest
  <2>3. QED  BY <1>3, <1>4, <2>2 DEF Rest
<1>6. PoolBounds'
  BY <1>1, <1>4 DEF PoolBounds
<1>7. netout \notin ToSet(pool.q) /\ netout # netin
  BY <1>1, NotInPool, RouteAssumption DEF PoolInv
<1>8. \A n \in Devices : NetinWaitsAt(n)' <=> NetinWaitsAt(n)
  BY <1>1 DEF NetinWaitsAt
<1>9. CASE Len(icmpq) > NETFQ
  <2>1. NetinBlocked /\ Handled = 0 /\ netin \notin ToSet(pool.q) /\ netin \in All
    BY <1>9 DEF NetinBlocked, Handled, PoolInv, PoolQueue, All
  <2>2. ~NetinBlocked'
    <3>1. Len(icmpq) <= NETFQ + 1
      BY <1>4 DEF PoolInv, PoolBounds, RoomInv, EchoAwaited
    <3>2. \A n \in Devices : ~NetinWaitsAt(n)
      BY <1>3, <1>4, <1>9 DEF PoolInv, PoolBounds, RoomInv
    <3>3. ~(Len(icmpq') > NETFQ)
      BY <1>3, <1>4, <3>1
    <3>4. QED  BY <1>8, <3>2, <3>3 DEF NetinBlocked
  <2>3. /\ Sound(pool') /\ pool'.n = pool.n - 1
        /\ ToSet(pool'.q) \subseteq ToSet(pool.q) \cup {netin}
    BY <1>1, <1>9, <2>1, WaitedPool
  <2>4. Elsewhere' = 1 + (Rest - 1) /\ Elsewhere = 0 + Rest
    BY <1>5, <2>1, <2>2 DEF Elsewhere, Handled
  <2>5. pool'.n + Weight("route") + Elsewhere' = pool.n + Weight(cont[netout].at) + Elsewhere
        /\ Elsewhere' \in Int
    BY <1>2, <1>4, <2>3, <2>4
  <2>6. netout \notin ToSet(pool'.q) /\ ToSet(pool'.q) \subseteq ToSet(pool.q) \cup {netout, netin}
    BY <1>7, <2>3
  <2>7. QED  BY <1>1, <1>2, <1>4, <1>6, <2>2, <2>3, <2>5, <2>6, PoolGoes
<1>10. CASE ~(Len(icmpq) > NETFQ)
  <2>1. UNCHANGED pool
    BY <1>1, <1>10
  <2>2. ~(Len(icmpq') > NETFQ)
    BY <1>3, <1>4, <1>10
  <2>3. NetinBlocked' <=> NetinBlocked
    BY <1>8, <1>10, <2>2 DEF NetinBlocked
  <2>4. Elsewhere' = Handled + (Rest - 1) /\ Elsewhere = Handled + Rest
    BY <1>5, <2>3 DEF Elsewhere, Handled
  <2>5. pool'.n + Weight("route") + Elsewhere' = pool.n + Weight(cont[netout].at) + Elsewhere
        /\ Elsewhere' \in Int
    BY <1>2, <1>4, <2>1, <2>4
  <2>6. NetinBlocked' => netin \notin ToSet(pool'.q)
    BY <2>1, <2>3 DEF PoolInv, PoolQueue
  <2>7. QED  BY <1>1, <1>2, <1>4, <1>6, <1>7, <2>1, <2>5, <2>6, PoolGoes
<1>11. QED  BY <1>9, <1>10

LEMMA InternetPool ==
  ASSUME PoolInv, DgramInv, DgramTyped', TableTyped, ContTyped, AnswerInv, RoomInv', part = "internet",
         InternetNext
  PROVE  PoolInv'
<1>1. DgramTyped
  BY DEF DgramInv
<1>2. CASE (Sndrarp \/ RarpAnswered \/ RarpTimesOut) /\ UNCHANGED dgVars
  BY <1>1, <1>2, BootPool
<1>3. CASE \E p \in Procs : RouteStep(p) /\ UNCHANGED dgVars
  BY <1>1, <1>3, RoutePool
<1>4. CASE RouteIn /\ Arrives /\ UNCHANGED dgVars
  <2>1. UNCHANGED <<cont, netqs, icmpq, leaked, lost>> /\ Reads /\ (NextBuffer \/ UNCHANGED pool)
    BY <1>4 DEF RouteIn, ArpRequestIn, ArpReplyIn, EntersBeyond, RarpReplyIn, dgVars, sentVars
  <2>2. Elsewhere \in Nat /\ Elsewhere' = Elsewhere /\ PoolBounds' /\ (NetinBlocked' <=> NetinBlocked)
    BY <1>1, <2>1, ElsewhereTyped, ElsewhereSame DEF PoolInv
  <2>3. ~NetinBlocked'
    BY <1>4, <2>2 DEF Arrives
  <2>4. CASE NextBuffer
    BY <2>1, <2>2, <2>3, <2>4, NextBufferPool, PoolStays
  <2>5. CASE UNCHANGED pool
    BY <2>1, <2>2, <2>3, <2>5, PoolStays DEF PoolInv, PoolQueue
  <2>6. QED  BY <2>1, <2>4, <2>5
<1>5. CASE \E p \in Procs : DatagramStep(p)
  BY <1>5, DatagramPool
<1>6. CASE NetoutTakes
  BY <1>1, <1>6, NetoutPool
<1>7. CASE NetoutListens
  <2>1. cont[netout].at = "serve" /\ Goes(netout, "echo") /\ netout \in Procs
        /\ UNCHANGED <<pool, netqs, icmpq, leaked, lost>>
    BY <1>7, NetProcsAssumption DEF NetoutListens, At, routeOwn, sentVars, dgVars
  <2>2. Comes(netout, "echo") /\ Weight("echo") = Weight(cont[netout].at)
    <3>1. "echo" \in Labels("internet")
      BY DEF Labels
    <3>2. cont'[netout].at = "echo" /\ \A q \in Procs \ {netout} : cont'[q] = cont[q]
      BY <2>1, <3>1, ThenAt
    <3>3. QED  BY <2>1, <3>2, Weights DEF Comes
  <2>3. QED  BY <1>1, <2>1, <2>2, PoolCall
<1>8. CASE \E u \in UdpPorts : UdpIn(u)
  BY <1>1, <1>8, UdpPool
<1>9. CASE \E a \in Hosts : IcmpIn(a)
  BY <1>1, <1>9, IcmpPool
<1>10. QED
  BY <1>2, <1>3, <1>4, <1>5, <1>6, <1>7, <1>8, <1>9 DEF InternetNext

LEMMA PoolHolds == NetSpec => []PoolInv
<1>1. NetInit /\ DgramInv /\ TableTyped /\ RoomInv => PoolInv
  <2>1. SUFFICES ASSUME NetInit, DgramInv, TableTyped, RoomInv PROVE PoolInv
    OBVIOUS
  <2>2. /\ pool = Waited(Sem(NETBUFS), netin) /\ icmpq = <<>> /\ Len(icmpq) = 0 /\ leaked = 0 /\ lost = 0
        /\ \A n \in Devices : netqs[n].queued = 0
    BY <2>1 DEF NetInit, InternetInit, RouteInit
  <2>3. NETBUFS \in Nat /\ NETBUFS > 1 /\ NETQLEN \in Nat /\ NETFQ \in Nat
    BY RouteAssumption, DatagramAssumption
  <2>4. \A p \in Procs : cont[p].at \in {"user", "boot", "unborn"}
    BY <2>1 DEF NetInit, Booting, Where
  <2>5. AtAny(Packeted) = {} /\ AtAny({"ask"}) = {}
    BY <2>4 DEF AtAny, Packeted, RoutePlaces, TablePlaces
  <2>6. PoolBounds /\ ~NetinBlocked
    BY <2>1, <2>2, <2>3 DEF PoolBounds, NetinBlocked, NetinWaitsAt
  <2>7. InQueues = {}
    BY <2>1, <2>2, InQueuesAre DEF DgramInv
  <2>8. Cardinality({}) = 0
    BY FS_EmptySet
  <2>9. Cost = 0 /\ Elsewhere = 1
    <3>1. Cardinality(AtAny(Packeted)) = 0 /\ Cardinality(AtAny({"ask"})) = 0 /\ Cardinality(InQueues) = 0
      BY ONLY <2>5, <2>7, <2>8, Zenon
    <3>2. Len(icmpq) = 0 /\ leaked = 0 /\ lost = 0 /\ Handled = 1
      BY <2>2, <2>6 DEF Handled
    <3>3. Cost = 0
      BY ONLY <3>1 DEF Cost
    <3>4. Elsewhere = 1
      BY ONLY <3>1, <3>2 DEF Elsewhere, Rest
    <3>5. QED  BY <3>3, <3>4
  <2>10. pool.n = NETBUFS - 1 /\ Sound(pool) /\ ToSet(pool.q) = {}
    <3> DEFINE t == [ok |-> TRUE, n |-> NETBUFS, q |-> <<>>]
    <3>1. Sem(NETBUFS) = t
      BY DEF Sem
    <3>2. t.ok /\ t.n = NETBUFS /\ t.q = <<>> /\ t \in [ok : BOOLEAN, n : Int, q : Seq(All)]
      BY <2>3
    <3> HIDE DEF t
    <3>3. IsInjective(<<>>) /\ Len(<<>>) = 0 /\ ToSet(<<>>) = {}
      BY DEF IsInjective, ToSet
    <3>4. Sound(t) /\ netin \in All /\ netin \notin ToSet(t.q)
      BY <2>3, <3>2, <3>3 DEF Sound, SemGood, All
    <3>5. /\ Sound(Waited(t, netin)) /\ Waited(t, netin).n = t.n - 1
          /\ ToSet(Waited(t, netin).q) = IF t.n <= 0 THEN ToSet(t.q) \cup {netin} ELSE {}
      BY <3>4, WaitedSound
    <3>6. QED  BY <2>2, <2>3, <3>1, <3>2, <3>5
  <2>11. pool.n + Cost + Elsewhere = NETBUFS
    BY <2>3, <2>9, <2>10
  <2>12. QED  BY <2>6, <2>10, <2>11 DEF PoolInv, PoolQueue
<1>2. /\ PoolInv /\ ContTyped /\ TableTyped /\ DgramInv /\ AnswerInv /\ [NetNext]_netVars
      /\ ContTyped' /\ DgramInv' /\ RoomInv'
      => PoolInv'
  <2>1. SUFFICES ASSUME PoolInv, ContTyped, TableTyped, DgramInv, AnswerInv, [NetNext]_netVars,
                        ContTyped', DgramInv', RoomInv'
                 PROVE  PoolInv'
    OBVIOUS
  <2>2. CASE part = "internet" /\ InternetNext
    BY <2>1, <2>2, InternetPool DEF DgramInv
  <2>3. ASSUME UNCHANGED dgramOwn, \A X \in {Packeted, {"ask"}, {"write", "ask"}} : AtAny(X)' = AtAny(X)
        PROVE  PoolInv'
    <3>1. UNCHANGED <<pool, netqs, icmpq, leaked, lost>>
      BY <2>3 DEF dgramOwn, routeOwn, dgVars, sentVars
    <3>2. Elsewhere' = Elsewhere /\ PoolBounds' /\ (NetinBlocked' <=> NetinBlocked)
      BY <2>1, <3>1, ElsewhereSame DEF PoolInv, DgramInv
    <3>3. Cost' = Cost
      BY <2>3 DEF Cost, Packeted, RoutePlaces, TablePlaces
    <3>4. PoolQueue'
      BY <2>1, <2>3, <3>1, <3>2 DEF PoolInv, PoolQueue
    <3>5. QED  BY <2>1, <3>1, <3>2, <3>3, <3>4 DEF PoolInv
  <2>4. CASE part # "internet" /\ UNCHANGED <<dgramOwn, part>>
    <3>1. \A p \in Procs : cont[p].at \in Labels(part) /\ cont'[p].at \in Labels(part)
      BY <2>1, <2>4 DEF ContTyped, Conts
    <3>2. Labels(part) \cap (Packeted \cup {"write", "ask"}) = {}
      BY <2>4 DEF Labels, Packeted, RoutePlaces, TablePlaces
    <3>3. \A X \in {Packeted, {"ask"}, {"write", "ask"}} : AtAny(X)' = AtAny(X)
      BY <3>1, <3>2 DEF AtAny, Packeted, RoutePlaces, TablePlaces
    <3>4. QED  BY <2>3, <2>4, <3>3
  <2>5. CASE UNCHANGED <<dgramOwn, cont, part>>
    BY <2>3, <2>5 DEF AtAny, Packeted, RoutePlaces, TablePlaces
  <2>6. QED  BY <2>1, <2>2, <2>4, <2>5 DEF NetNext, netVars
<1>3. QED  BY <1>1, <1>2, NetTyped, DgramAnswerHold, RoomHolds, PTL DEF NetSpec

\* From the sum over all to the sum over those that have their buffer.
LEMMA PoolAccounts ==
  ASSUME PoolInv, DgramTyped, TableTyped
  PROVE  PacketBuffers
<1> DEFINE Q == ToSet(pool.q)
           P == AtAny(Packeted)
           A == AtAny({"ask"})
           W == AtAny({"write"})
           J == IF Contains(pool.q, netin) THEN 1 ELSE 0
           I == IF Contains(pool.q, netin) \/ NetinBlocked THEN 0 ELSE 1
<1>1. /\ Sound(pool) /\ pool.n \in Int /\ pool.q \in Seq(All) /\ IsInjective(pool.q)
      /\ Len(pool.q) = IF pool.n < 0 THEN -pool.n ELSE 0
  BY SoundFacts DEF PoolInv, PoolQueue
<1>2. IsFiniteSet(Q) /\ Cardinality(Q) = Len(pool.q)
  BY <1>1, DistinctCount
<1>3. Max({pool.n, 0}) = pool.n + Len(pool.q)
  <2> DEFINE m == pool.n
             T == {m, 0}
  <2>1. \E z \in T : \A y \in T : z >= y
    BY <1>1
  <2>2. Max(T) \in T /\ \A y \in T : Max(T) >= y
    BY <2>1 DEF Max
  <2>3. QED  BY <1>1, <2>2
<1>4. /\ \A p \in Procs : Contains(pool.q, p) <=> p \in Q
      /\ Contains(pool.q, netin) <=> netin \in Q
  BY <1>1, ContainsIn
<1>5. Packeted = {"write"} \cup HoldingAt /\ "write" \notin HoldingAt /\ "ask" \in HoldingAt
  BY DEF Packeted, RoutePlaces, TablePlaces, HoldingAt
<1>6. Q \subseteq {netin} \cup W \cup A /\ netin \notin Procs
  BY RouteAssumption DEF PoolInv, PoolQueue, AtAny
<1>7. Holding = P \ (W \cap Q) /\ Asking = A \ Q
  BY <1>4, <1>5 DEF Holding, Asking, AtAny, At
<1>8. W \subseteq P /\ W \cap A = {} /\ netin \notin W /\ netin \notin A
  BY <1>5, <1>6 DEF AtAny
<1>9. IsFiniteSet(P) /\ IsFiniteSet(A) /\ IsFiniteSet(W)
  BY AtAnyFinite
<1> HIDE DEF Q, P, A, W
<1>10. /\ Cardinality(Holding) = Cardinality(P) - Cardinality(W \cap Q)
       /\ Cardinality(Asking) = Cardinality(A) - Cardinality(A \cap Q)
  <2>1. /\ Cardinality(P \ (W \cap Q)) = Cardinality(P) - Cardinality(P \cap (W \cap Q))
        /\ Cardinality(A \ Q) = Cardinality(A) - Cardinality(A \cap Q)
    BY <1>9, FS_Difference
  <2>2. P \cap (W \cap Q) = W \cap Q
    BY <1>8
  <2>3. /\ Cardinality(P \cap (W \cap Q)) = Cardinality(W \cap Q)
        /\ Cardinality(Holding) = Cardinality(P \ (W \cap Q)) /\ Cardinality(Asking) = Cardinality(A \ Q)
    BY ONLY <1>7, <2>2, Zenon
  <2>4. QED  BY <2>1, <2>3
<1>11. Cardinality(Q) = Cardinality(W \cap Q) + Cardinality(A \cap Q) + J
  <2> DEFINE N == Q \cap {netin}
             V == W \cap Q
             B == A \cap Q
             U == V \cup B
  <2>1. IsFiniteSet(V) /\ IsFiniteSet(B)
    BY <1>9, FS_Intersection
  <2>2. IsFiniteSet(U) /\ Cardinality(U) = Cardinality(V) + Cardinality(B) - Cardinality(V \cap B)
    BY <2>1, FS_Union
  <2>3. V \cap B = {} /\ netin \notin U
    BY <1>8
  <2>4. /\ netin \in Q => Q = U \cup {netin}
        /\ netin \notin Q => Q = U
    BY <1>6
  <2>5. Cardinality(U \cup {netin}) = Cardinality(U) + 1
    BY <2>2, <2>3, FS_AddElement
  <2>6. Cardinality({}) = 0
    BY FS_EmptySet
  <2> HIDE DEF V, B, U
  <2>7. /\ Cardinality(V \cap B) = 0
        /\ netin \in Q => Cardinality(Q) = Cardinality(U \cup {netin})
        /\ netin \notin Q => Cardinality(Q) = Cardinality(U)
    BY ONLY <2>3, <2>4, <2>6, Zenon
  <2>8. Cardinality(V) \in Nat /\ Cardinality(B) \in Nat
    BY <2>1, FS_CardinalityType
  <2>9. Cardinality(Q) = Cardinality(V) + Cardinality(B) + J
    BY <1>4, <2>2, <2>5, <2>7, <2>8
  <2>10. QED  BY <2>9 DEF V, B
<1>12. /\ Cardinality(P) \in Nat /\ Cardinality(A) \in Nat
       /\ Cardinality(W \cap Q) \in Nat /\ Cardinality(A \cap Q) \in Nat
  BY <1>9, FS_CardinalityType, FS_Intersection
<1>13. pool.n + (Cardinality(P) + Cardinality(A)) + Elsewhere = NETBUFS
  BY DEF PoolInv, Cost, P, A
<1>14. I = Handled - J
  BY <1>4 DEF Handled, PoolInv, PoolQueue, Q
<1>15. NETBUFS = Max({pool.n, 0}) + I + Cardinality(Holding) + Cardinality(Asking) + Len(icmpq)
                   + Cardinality(InQueues) + leaked + lost
  <2> DEFINE x == Max({pool.n, 0})
             h == Cardinality(Holding)
             a == Cardinality(Asking)
             c == Cardinality(P)
             d == Cardinality(A)
             v == Cardinality(W \cap Q)
             w == Cardinality(A \cap Q)
             m == Len(pool.q)
             e == Len(icmpq)
             f == Cardinality(InQueues)
             b == Handled
  <2>1. /\ pool.n \in Int /\ m \in Nat /\ c \in Nat /\ d \in Nat /\ v \in Nat /\ w \in Nat
        /\ I \in Nat /\ J \in Nat /\ b \in Nat
        /\ e \in Nat /\ f \in Nat /\ leaked \in Nat /\ lost \in Nat
    BY <1>1, <1>12, ElsewhereTyped DEF PoolInv
  <2>2. /\ x = pool.n + m /\ h = c - v /\ a = d - w /\ m = v + w + J /\ I = b - J
        /\ pool.n + (c + d) + (b + (e + f + leaked + lost)) = NETBUFS
    BY <1>2, <1>3, <1>10, <1>11, <1>13, <1>14 DEF Elsewhere, Rest
  <2> HIDE DEF x, h, a, c, d, v, w, m, e, f, b, I, J
  <2>3. NETBUFS = x + I + h + a + e + f + leaked + lost
    BY ONLY <2>1, <2>2
  <2>4. QED  BY <2>3 DEF x, h, a, e, f
<1>16. ASSUME NEW n \in Devices
       PROVE  /\ netqs[n].queued <= NETQLEN + Cardinality(Receivers(n))
              /\ Len(icmpq) > NETFQ => ~NetinWaitsAt(n)
              /\ \A m \in Devices : NetinWaitsAt(n) /\ NetinWaitsAt(m) => m = n
  <2>1. /\ netqs[n].queued <= NETQLEN + 1 /\ (NetinWaitsAt(n) => Receivers(n) # {} /\ Len(icmpq) <= NETFQ)
        /\ \A m \in Devices : NetinWaitsAt(n) /\ NetinWaitsAt(m) => m = n
    BY DEF PoolInv, PoolBounds, RoomInv
  <2>2. netqs[n].queued \in Nat /\ NETQLEN \in Nat /\ NETFQ \in Nat /\ Len(icmpq) \in Nat
    BY DatagramAssumption DEF DgramTyped, QueueTable, TableTyped
  <2>3. IsFiniteSet(Receivers(n))
    <3>1. Receivers(n) \in SUBSET Procs /\ IsFiniteSet(Procs)
      BY NetProcsAssumption DEF Receivers
    <3>2. QED  BY <3>1, FS_Subset
  <2>4. Cardinality(Receivers(n)) \in Nat /\ (Receivers(n) # {} => Cardinality(Receivers(n)) # 0)
    BY <2>3, FS_CardinalityType, FS_EmptySet
  <2>5. netqs[n].queued <= NETQLEN + Cardinality(Receivers(n))
    <3> DEFINE c == Cardinality(Receivers(n))
    <3>1. c \in Nat /\ (netqs[n].queued > NETQLEN => c # 0)
      BY <2>1, <2>4 DEF NetinWaitsAt
    <3> HIDE DEF c
    <3>2. netqs[n].queued <= NETQLEN + c
      BY <2>1, <2>2, <3>1
    <3>3. QED  BY <3>2 DEF c
  <2>6. Len(icmpq) > NETFQ => ~NetinWaitsAt(n)
    BY <2>1, <2>2
  <2>7. QED  BY <2>1, <2>5, <2>6
<1>17. Len(icmpq) <= NETFQ + EchoAwaited
  BY DEF PoolInv, PoolBounds, RoomInv
<1>18. QED  BY <1>15, <1>16, <1>17 DEF PacketBuffers, I

\* Each network buffer has its place but for those ip_in loses and those written to device -1,
\* and no queue is longer than it may be by more than the packet that netin waits in psend to
\* put into it, for a receiver that has been released (getbuf and freebuf of Net.netpool in
\* netin, dgwrite, dgread, dgcntl, mkarp, ethwrite; pcount and psend in ip_in and icmp_in).
THEOREM PacketBuffersCorrect == NetSpec => []PacketBuffers
<1>1. PoolInv /\ DgramInv /\ TableTyped => PacketBuffers
  BY PoolAccounts DEF DgramInv
<1>2. QED  BY <1>1, PoolHolds, DgramAnswerHold, NetTyped, PTL
------------------------------------------------------------------------------
(* Remote files: the one packet, and what the server has done. *)

OpNames == {"none", "open", "io", "seek", "close", "name", "error"}
FileNames == Files \cup {Nobody}
Requests == [op : OpNames, name : FileNames, pos : Nat, id : Nat]
Datagrams ==
  [kind : {"request", "reply"}, id : Nat, try : Nat, op : OpNames, name : FileNames, pos : Nat]
RfTyped ==
  /\ rftab \in [Slots -> [used : BOOLEAN, name : FileNames, pos : Nat]]
  /\ wants \in [Procs -> Requests] /\ packet \in Requests /\ ids \in Nat
  /\ flying \subseteq Datagrams /\ inbox \in Seq(Datagrams)

PacketMutex == Mutex(rmutex, AtAny({"rfturn"}), AtAny({"reply"}))

\* A datagram of the request in the packet, or one that the server answered because it did it.
AsAsked(m) ==
  m.kind = "request" =>
    m.id = packet.id /\ m.op = packet.op /\ m.name = packet.name /\ m.pos = packet.pos
AnswersPacket(m) == m.kind = "reply" /\ m.op # "error" => packet \in served
OnlyOurs ==
  /\ \A m \in flying : AsAsked(m) /\ AnswersPacket(m)
  /\ \A i \in 1 .. Len(inbox) : inbox[i].kind = "reply" /\ AnswersPacket(inbox[i])
PacketInv ==
  \A p \in Procs : cont[p].at = "reply" => packet = wants[p] /\ (~crossed => OnlyOurs)
RemoteInv ==
  /\ RfTyped
  /\ part \in {"files", "names"} =>
       /\ \A p \in Procs : cont[p].at = "file" => cont[p].ix \in Slots
       /\ PacketMutex /\ PacketInv

LEMMA FilesAt ==
  ASSUME ContTyped, part = "files", NEW p \in Procs, NEW l \in Labels("files"),
         Then(p, Where(l)) \/ Goes(p, l)
  PROVE  Comes(p, l)
<1> DEFINE L == Labels("files")
<1>1. cont \in [Procs -> Conts(L)] /\ l \in L
  BY DEF ContTyped
<1> HIDE DEF L
<1>2. CASE Goes(p, l)
  BY <1>1, <1>2, GoesTyped DEF Comes
<1>3. CASE Then(p, Where(l))
  <2>1. Where(l) \in Conts(L) /\ Where(l).at = l
    BY <1>1 DEF Where, Conts
  <2>2. QED  BY <1>1, <1>3, <2>1, ThenTyped DEF Comes
<1>4. QED  BY <1>2, <1>3

LEMMA PlacesAt ==
  ASSUME ContTyped, part = "files", NEW p \in Procs, NEW l \in Labels("files"), NEW i \in Nat, Places(p, l, i)
  PROVE  Comes(p, l) /\ cont'[p].ix = i
<1> DEFINE L == Labels("files")
           c == [Where(l) EXCEPT !.ix = i]
<1>1. cont \in [Procs -> Conts(L)] /\ l \in L
  BY DEF ContTyped
<1> HIDE DEF L
<1>2. c \in Conts(L) /\ c.at = l /\ c.ix = i
  BY <1>1 DEF Where, Conts
<1>3. Then(p, c)
  BY DEF Places
<1> HIDE DEF c
<1>4. QED  BY <1>1, <1>2, <1>3, ThenTyped DEF Comes

\* What a process does before and after its turn with the packet.
FileStep(p) ==
  /\ RfTyped' /\ UNCHANGED <<packet, rmutex, flying, served, crossed>> /\ inbox' \in {inbox, <<>>}
  /\ \A q \in Procs \ {p} : wants'[q] = wants[q]
  /\ cont[p].at \in {"user", "file", "unopen"}
  /\ \E l \in {"user", "file", "packet", "unopen"} :
       Comes(p, l) /\ (l = "file" => cont'[p].ix \in Slots)

LEMMA WantsTyped ==
  ASSUME RfTyped, NEW p \in Procs, NEW op \in OpNames, NEW name \in FileNames, NEW pos \in Nat,
         Wants(p, op, name, pos)
  PROVE  wants' \in [Procs -> Requests] /\ \A q \in Procs \ {p} : wants'[q] = wants[q]
<1> DEFINE r == [op |-> op, name |-> name, pos |-> pos, id |-> ids + 1]
<1>1. r \in Requests
  BY DEF RfTyped, Requests
<1>2. wants' = [wants EXCEPT ![p] = r]
  BY DEF Wants
<1> HIDE DEF r
<1>3. QED  BY <1>1, <1>2 DEF RfTyped

LEMMA NoRequestTyped == NoRequest \in Requests
BY DEF NoRequest, Requests, OpNames, FileNames

LEMMA CallsFile ==
  ASSUME RfTyped, ContTyped, part = "files", NEW p \in Procs,
         \/ \E name \in Files : Rfopen(p, name) \/ Rfcntl(p, name)
         \/ \E i \in Slots : \/ Rfio(p, i) \/ Rfclose(p, i)
                             \/ \E pos \in 0 .. MaxPos : Rfseek(p, i, pos)
         \/ RfcntlClear(p)
  PROVE  FileStep(p)
<1>1. /\ cont[p].at = "user" /\ ids' = ids + 1
      /\ UNCHANGED <<packet, rmutex, flying, served, crossed>> /\ inbox' \in {inbox, <<>>}
  BY DEF Rfopen, Rfcntl, Rfio, Rfseek, Rfclose, RfcntlClear, NewCall, At, serverVars
<1>2. ids' \in Nat /\ inbox' \in Seq(Datagrams) /\ packet' \in Requests /\ flying' \subseteq Datagrams
  <2>1. <<>> \in Seq(Datagrams) /\ inbox \in Seq(Datagrams)
    BY DEF RfTyped
  <2>2. inbox' \in Seq(Datagrams)
    BY <1>1, <2>1
  <2>3. ids' \in Nat
    BY <1>1 DEF RfTyped
  <2>4. packet' \in Requests /\ flying' \subseteq Datagrams
    BY <1>1 DEF RfTyped
  <2>5. QED  BY <2>2, <2>3, <2>4
<1>3. {"user", "file", "packet"} \subseteq Labels("files") /\ Slots \subseteq Nat /\ Nrf \in Nat /\ MaxPos \in Nat
  BY RemoteAssumption DEF Labels, Slots
<1>4. {"open", "io", "seek", "close", "name"} \subseteq OpNames /\ Nobody \in FileNames /\ Files \subseteq FileNames
      /\ 0 \in Nat /\ 0 .. MaxPos \subseteq Nat
  BY <1>3 DEF OpNames, FileNames
<1>5. Comes(p, "user") \/ ~UNCHANGED cont
  BY <1>1 DEF Comes
<1>6. ASSUME rftab' \in [Slots -> [used : BOOLEAN, name : FileNames, pos : Nat]],
             UNCHANGED <<wants, cont>>
      PROVE  FileStep(p)
  <2>1. wants' \in [Procs -> Requests]
    BY <1>6 DEF RfTyped
  <2>2. RfTyped'
    BY <1>2, <1>6, <2>1 DEF RfTyped
  <2>3. QED  BY <1>1, <1>5, <1>6, <2>2 DEF FileStep
<1>7. ASSUME rftab' \in [Slots -> [used : BOOLEAN, name : FileNames, pos : Nat]],
             NEW op \in OpNames, NEW name \in FileNames, NEW pos \in Nat, Wants(p, op, name, pos),
             NEW l \in {"file", "packet"}, NEW i \in Nat, Places(p, l, i), l = "file" => i \in Slots
      PROVE  FileStep(p)
  <2>1. wants' \in [Procs -> Requests] /\ \A q \in Procs \ {p} : wants'[q] = wants[q]
    BY <1>7, WantsTyped
  <2>2. RfTyped'
    BY <1>2, <1>7, <2>1 DEF RfTyped
  <2>3. Comes(p, l) /\ cont'[p].ix = i
    BY <1>3, <1>7, PlacesAt
  <2>4. QED  BY <1>1, <1>7, <2>1, <2>2, <2>3 DEF FileStep
<1>8. ASSUME NEW name \in Files, Rfopen(p, name) PROVE FileStep(p)
  <2> DEFINE free == {i \in Slots : ~rftab[i].used}
             e == Min(free)
             r == [used |-> TRUE, name |-> name, pos |-> 0]
  <2>1. CASE free = {}
    <3>1. UNCHANGED <<rftab, wants, cont>>
      BY <1>8, <2>1 DEF Rfopen
    <3>2. QED  BY <1>6, <3>1 DEF RfTyped
  <2>2. CASE free # {}
    <3>1. free \subseteq Nat
      BY <1>3
    <3>2. e \in Slots
      <4>1. e \in free
        <5> HIDE DEF free
        <5>1. QED  BY <2>2, <3>1, MinNat
      <4>2. QED  BY <4>1
    <3>3. rftab' = [rftab EXCEPT ![e] = r] /\ Wants(p, "open", name, 0) /\ Places(p, "file", e)
      BY <1>8, <2>2 DEF Rfopen
    <3>4. r \in [used : BOOLEAN, name : FileNames, pos : Nat]
      BY <1>4
    <3> HIDE DEF e, r, free
    <3>5. rftab' \in [Slots -> [used : BOOLEAN, name : FileNames, pos : Nat]]
      BY <3>3, <3>4 DEF RfTyped
    <3>6. "open" \in OpNames /\ name \in FileNames /\ 0 \in Nat /\ e \in Nat
      BY <1>3, <1>4, <3>2
    <3>7. QED  BY <1>7, <3>2, <3>3, <3>5, <3>6
  <2>3. QED  BY <2>1, <2>2
<1>9. ASSUME NEW name \in Files, Rfcntl(p, name) PROVE FileStep(p)
  <2>1. rftab' = rftab /\ Wants(p, "name", name, 0) /\ Places(p, "packet", Nrf)
    BY <1>9 DEF Rfcntl
  <2>2. QED  BY <1>3, <1>4, <1>7, <2>1 DEF RfTyped
<1>10. ASSUME NEW i \in Slots, Rfio(p, i) PROVE FileStep(p)
  <2>1. rftab' = rftab /\ Wants(p, "io", Nobody, 0) /\ Places(p, "file", i)
    BY <1>10 DEF Rfio
  <2>2. QED  BY <1>3, <1>4, <1>7, <2>1 DEF RfTyped
<1>11. ASSUME NEW i \in Slots, NEW pos \in 0 .. MaxPos, Rfseek(p, i, pos) PROVE FileStep(p)
  <2>1. rftab' = rftab /\ Wants(p, "seek", Nobody, pos) /\ Places(p, "file", i)
    BY <1>11 DEF Rfseek
  <2>2. pos \in Nat /\ i \in Nat
    BY <1>3, <1>4
  <2>3. QED  BY <1>3, <1>4, <1>7, <2>1, <2>2 DEF RfTyped
<1>12. ASSUME NEW i \in Slots, Rfclose(p, i) PROVE FileStep(p)
  <2>1. CASE ~rftab[i].used
    <3>1. UNCHANGED <<rftab, wants, cont>>
      BY <1>12, <2>1 DEF Rfclose
    <3>2. QED  BY <1>6, <3>1 DEF RfTyped
  <2>2. CASE rftab[i].used
    <3>1. rftab' = rftab /\ Wants(p, "close", Nobody, 0) /\ Places(p, "file", i)
      BY <1>12, <2>2 DEF Rfclose
    <3>2. QED  BY <1>3, <1>4, <1>7, <3>1 DEF RfTyped
  <2>3. QED  BY <2>1, <2>2
<1>13. ASSUME RfcntlClear(p) PROVE FileStep(p)
  <2>1. UNCHANGED <<rftab, wants, cont>>
    BY <1>13 DEF RfcntlClear
  <2>2. QED  BY <1>6, <2>1 DEF RfTyped
<1>14. QED
  BY <1>8, <1>9, <1>10, <1>11, <1>12, <1>13

LEMMA HasFile ==
  ASSUME RemoteInv, ContTyped, part = "files", NEW p \in Procs, Locked(p) \/ Unopens(p)
  PROVE  FileStep(p)
<1> DEFINE i == SlotOf(p)
<1>1. RfTyped /\ {"user", "packet", "unopen"} \subseteq Labels("files")
  BY DEF RemoteInv, Labels
<1>2. /\ cont[p].at \in {"file", "unopen"}
      /\ UNCHANGED <<packet, rmutex, flying, served, crossed, inbox, ids>>
      /\ cont[p].at = "file" => i \in Slots
  BY DEF Locked, Unopens, At, serverVars, RemoteInv, SlotOf
<1>3. wants[p] \in Requests
  BY <1>1 DEF RfTyped
<1>4. ASSUME rftab' \in [Slots -> [used : BOOLEAN, name : FileNames, pos : Nat]],
             NEW w \in Requests, wants' = [wants EXCEPT ![p] = w],
             NEW l \in {"user", "packet", "unopen"}, Then(p, Where(l)) \/ Goes(p, l)
      PROVE  FileStep(p)
  <2>1. wants' \in [Procs -> Requests] /\ \A q \in Procs \ {p} : wants'[q] = wants[q]
    BY <1>1, <1>4 DEF RfTyped
  <2>2. Comes(p, l)
    BY <1>1, <1>4, FilesAt
  <2>3. RfTyped'
    BY <1>1, <1>2, <1>4, <2>1 DEF RfTyped
  <2>4. QED  BY <1>2, <1>4, <2>1, <2>2, <2>3 DEF FileStep
<1>5. wants = [wants EXCEPT ![p] = wants[p]]
  BY <1>1 DEF RfTyped
<1>6. CASE Unopens(p)
  <2>1. /\ rftab' = [rftab EXCEPT ![i].used = FALSE] /\ wants' = [wants EXCEPT ![p] = NoRequest]
        /\ Then(p, Where("user"))
    BY <1>6 DEF Unopens
  <2> HIDE DEF i
  <2>2. rftab' \in [Slots -> [used : BOOLEAN, name : FileNames, pos : Nat]]
    BY <1>1, <2>1 DEF RfTyped
  <2>3. QED  BY <1>4, <2>1, <2>2, NoRequestTyped
<1>7. CASE Locked(p) /\ wants[p].op = "seek"
  <2>1. /\ rftab' = [rftab EXCEPT ![i].pos = wants[p].pos] /\ wants' = [wants EXCEPT ![p] = NoRequest]
        /\ Then(p, Where("user"))
    BY <1>7 DEF Locked
  <2>2. wants[p].pos \in Nat
    BY <1>3 DEF Requests
  <2> HIDE DEF i
  <2>3. rftab' \in [Slots -> [used : BOOLEAN, name : FileNames, pos : Nat]]
    BY <1>1, <2>1, <2>2 DEF RfTyped
  <2>4. QED  BY <1>4, <2>1, <2>3, NoRequestTyped
<1>8. CASE Locked(p) /\ wants[p].op \notin {"seek", "close"} /\ ~rftab[i].used
  <2>1. rftab' \in [Slots -> [used : BOOLEAN, name : FileNames, pos : Nat]]
    BY <1>1, <1>8 DEF Locked, RfTyped
  <2>2. CASE wants[p].op = "open"
    <3>1. Goes(p, "unopen") /\ wants' = wants
      BY <1>8, <2>2 DEF Locked
    <3>2. wants' = [wants EXCEPT ![p] = wants[p]]
      BY <1>5, <3>1
    <3>3. QED  BY <1>3, <1>4, <2>1, <3>1, <3>2
  <2>3. CASE wants[p].op # "open"
    <3>1. Then(p, Where("user")) /\ wants' = [wants EXCEPT ![p] = NoRequest]
      BY <1>8, <2>3 DEF Locked
    <3>2. QED  BY <1>4, <2>1, <3>1, NoRequestTyped
  <2>4. QED  BY <2>2, <2>3
<1>9. CASE Locked(p) /\ wants[p].op # "seek" /\ ~(wants[p].op # "close" /\ ~rftab[i].used)
  <2> DEFINE t == IF wants[p].op = "close" THEN 0 ELSE rftab[i].pos
             w == [wants[p] EXCEPT !.name = rftab[i].name, !.pos = t]
  <2>1. i \in Slots
    BY <1>2, <1>9 DEF Locked, At
  <2>2. rftab[i].name \in FileNames /\ t \in Nat
    BY <1>1, <2>1 DEF RfTyped
  <2>3. /\ wants' = [wants EXCEPT ![p].name = rftab[i].name, ![p].pos = t]
        /\ Goes(p, "packet") /\ rftab' = rftab
    BY <1>9 DEF Locked
  <2> HIDE DEF t, i
  <2>4. w \in Requests
    BY <1>3, <2>2 DEF Requests
  <2>5. wants' = [wants EXCEPT ![p] = w]
    BY <2>3
  <2> HIDE DEF w
  <2>6. rftab' \in [Slots -> [used : BOOLEAN, name : FileNames, pos : Nat]]
    BY <1>1, <2>3 DEF RfTyped
  <2>7. QED  BY <1>4, <2>3, <2>4, <2>5, <2>6
<1>10. QED
  BY <1>6, <1>7, <1>8, <1>9

LEMMA FileStepRemote ==
  ASSUME RemoteInv, part = "files", part' = part, NEW p \in Procs, FileStep(p)
  PROVE  RemoteInv'
<1>1. PICK l \in {"user", "file", "packet", "unopen"} : Comes(p, l) /\ (l = "file" => cont'[p].ix \in Slots)
  BY DEF FileStep
<1>2. \A q \in Procs : cont'[q].at = "file" => cont'[q].ix \in Slots
  BY <1>1 DEF RemoteInv, Comes
<1>3. AtAny({"rfturn"})' = AtAny({"rfturn"}) /\ AtAny({"reply"})' = AtAny({"reply"})
  BY <1>1 DEF AtAny, FileStep, Comes
<1>4. PacketMutex'
  BY <1>3 DEF PacketMutex, RemoteInv, FileStep
<1>5. OnlyOurs => OnlyOurs'
  <2>1. inbox' = inbox \/ Len(inbox') = 0
    BY DEF FileStep
  <2>2. QED  BY <2>1 DEF FileStep, OnlyOurs, AsAsked, AnswersPacket
<1>6. PacketInv'
  BY <1>1, <1>5 DEF PacketInv, RemoteInv, FileStep, Comes
<1>7. QED  BY <1>2, <1>4, <1>6 DEF RemoteInv, FileStep

\* The packet's only user: whoever is at reply is the one process that has the mutex.
LEMMA PacketAlone ==
  ASSUME PacketMutex, NEW p \in Procs, NEW q \in Procs, cont[q].at = "reply",
         cont[p].at = "reply" \/ (cont[p].at = "rfturn" /\ ~Contains(rmutex.q, p))
  PROVE  p = q
<1>1. p \in ToSet(rmutex.q) <=> Contains(rmutex.q, p)
  BY ContainsIn DEF PacketMutex, Mutex
<1>2. QED  BY <1>1 DEF PacketMutex, Mutex, AtAny

\* The end of an operation with the packet.
LEMMA PacketLeft ==
  ASSUME PacketMutex, NEW p \in Procs, NEW l \in {"user", "unopen"}, Comes(p, l), rmutex' = Signaled(rmutex),
         cont[p].at = "reply" \/ (cont[p].at = "rfturn" /\ ~Contains(rmutex.q, p))
  PROVE  PacketMutex' /\ \A q \in Procs : cont'[q].at # "reply"
<1> DEFINE W == AtAny({"rfturn"})
           H == AtAny({"reply"})
<1>1. p \in ToSet(rmutex.q) <=> Contains(rmutex.q, p)
  BY ContainsIn DEF PacketMutex, Mutex
<1>2. p \in (W \cup H) \ ToSet(rmutex.q)
  BY <1>1 DEF PacketMutex, Mutex, AtAny
<1>3. AtAny({"rfturn"})' = W \ {p} /\ AtAny({"reply"})' = H \ {p}
  BY ComesAtAny
<1> HIDE DEF W, H
<1>4. Mutex(rmutex, W, H)
  BY DEF PacketMutex, W, H
<1>5. Mutex(Signaled(rmutex), W \ {p}, H \ {p})
  BY <1>2, <1>4, MutexSignaled
<1>6. PacketMutex'
  BY <1>3, <1>5 DEF PacketMutex
<1>7. \A q \in Procs : cont'[q].at # "reply"
  BY PacketAlone DEF Comes
<1>8. QED  BY <1>6, <1>7

LEMMA FinishesRemote ==
  ASSUME RemoteInv, ContTyped, part = "files", part' = part, NEW p \in Procs, NEW ok \in BOOLEAN, Finishes(p, ok),
         cont[p].at = "reply" \/ (cont[p].at = "rfturn" /\ ~Contains(rmutex.q, p)),
         packet' \in Requests, inbox' \in Seq(Datagrams), UNCHANGED <<flying, ids>>
  PROVE  RemoteInv'
<1> DEFINE i == SlotOf(p)
           op == wants[p].op
<1>1. \E l \in {"user", "unopen"} : Comes(p, l)
  <2>1. {"user", "unopen"} \subseteq Labels("files")
    BY DEF Labels
  <2>2. QED  BY <2>1, FilesAt DEF Finishes
<1>2. PICK l \in {"user", "unopen"} : Comes(p, l)
  BY <1>1
<1>3. rmutex' = Signaled(rmutex)
  BY DEF Finishes
<1>4. PacketMutex' /\ \A q \in Procs : cont'[q].at # "reply"
  BY <1>2, <1>3, PacketLeft DEF RemoteInv
<1>5. wants' \in [Procs -> Requests]
  BY NoRequestTyped DEF Finishes, RemoteInv, RfTyped
<1>6. rftab' \in [Slots -> [used : BOOLEAN, name : FileNames, pos : Nat]]
  <2>1. rftab \in [Slots -> [used : BOOLEAN, name : FileNames, pos : Nat]]
    BY DEF RemoteInv, RfTyped
  <2>2. CASE i = Nrf
    BY <2>1, <2>2 DEF Finishes
  <2>3. CASE i \notin Slots
    <3>1. i = Nrf \/ rftab' = [rftab EXCEPT ![i].used = @ /\ op # "close",
                                           ![i].pos = IF ok /\ op = "io" THEN packet'.pos ELSE @]
      BY DEF Finishes
    <3>2. QED  BY <2>1, <2>2, <2>3, <3>1
  <2>4. CASE i # Nrf /\ i \in Slots
    <3> DEFINE u == rftab[i].used /\ op # "close"
               t == IF ok /\ op = "io" THEN packet'.pos ELSE rftab[i].pos
    <3>1. u \in BOOLEAN /\ t \in Nat
      BY <2>1, <2>4 DEF Requests
    <3>2. rftab' = [rftab EXCEPT ![i].used = u, ![i].pos = t]
      BY <2>4 DEF Finishes
    <3> HIDE DEF u, t, i
    <3>3. QED  BY <2>1, <3>1, <3>2
  <2>5. QED  BY <2>2, <2>3, <2>4
<1>7. RfTyped'
  BY <1>5, <1>6 DEF RemoteInv, RfTyped
<1>8. \A q \in Procs : cont'[q].at = "file" => cont'[q].ix \in Slots
  BY <1>2 DEF RemoteInv, Comes
<1>9. PacketInv'
  BY <1>4 DEF PacketInv
<1>10. QED  BY <1>4, <1>7, <1>8, <1>9 DEF RemoteInv

LEMMA RmutexTurnRemote ==
  ASSUME RemoteInv, ContTyped, part = "files", part' = part, NEW p \in Procs, RmutexTurn(p)
  PROVE  RemoteInv'
<1>1. /\ Comes(p, "rfturn") /\ cont[p].at = "packet" /\ rmutex' = Waited(rmutex, p)
      /\ UNCHANGED <<rftab, packet, wants, flying, inbox, served, crossed, ids>>
  <2>1. "rfturn" \in Labels("files")
    BY DEF Labels
  <2>2. QED  BY <2>1, FilesAt DEF RmutexTurn, At, serverVars
<1> DEFINE W == AtAny({"rfturn"})
           H == AtAny({"reply"})
<1>2. AtAny({"rfturn"})' = W \cup {p} /\ AtAny({"reply"})' = H \ {p} /\ p \notin W \cup H
  <2>1. p \notin W /\ p \notin H
    BY <1>1 DEF AtAny
  <2>2. AtAny({"rfturn"})' = W \cup {p} /\ AtAny({"reply"})' = H \ {p}
    BY <1>1, ComesAtAny
  <2>3. QED  BY <2>1, <2>2
<1> HIDE DEF W, H
<1>3. Mutex(rmutex, W, H)
  BY DEF RemoteInv, PacketMutex, W, H
<1>4. Mutex(Waited(rmutex, p), W \cup {p}, H)
  BY <1>2, <1>3, MutexWaited
<1>5. H \ {p} = H
  BY <1>2
<1>6. PacketMutex'
  BY <1>1, <1>2, <1>4, <1>5 DEF PacketMutex
<1>7. PacketInv' /\ RfTyped'
  BY <1>1 DEF RemoteInv, PacketInv, RfTyped, OnlyOurs, AsAsked, AnswersPacket, Comes
<1>8. \A q \in Procs : cont'[q].at = "file" => cont'[q].ix \in Slots
  BY <1>1 DEF RemoteInv, Comes
<1>9. QED  BY <1>6, <1>7, <1>8 DEF RemoteInv

LEMMA RequestTyped ==
  ASSUME RfTyped, NEW p \in Procs, NEW t \in Nat
  PROVE  /\ Request(p, t) \in Datagrams
         /\ Request(p, t).kind = "request" /\ Request(p, t).id = wants[p].id
         /\ Request(p, t).op = wants[p].op /\ Request(p, t).name = wants[p].name
         /\ Request(p, t).pos = wants[p].pos
<1>1. wants[p] \in Requests
  BY DEF RfTyped
<1>2. QED  BY <1>1 DEF Request, Requests, Datagrams

LEMMA RfsendRemote ==
  ASSUME RemoteInv, ContTyped, part = "files", part' = part, NEW p \in Procs, Rfsend(p)
  PROVE  RemoteInv'
<1> DEFINE L == Labels("files")
           m == Request(p, 1)
<1>1. /\ cont[p].at = "rfturn" /\ ~Contains(rmutex.q, p) /\ rmutex' = rmutex
      /\ cont' = [cont EXCEPT ![p].at = "reply", ![p].try = 1]
      /\ UNCHANGED <<rftab, wants, ids>>
      /\ packet' = wants[p] /\ inbox' = <<>> /\ flying' \in {flying \cup {m}, flying}
      /\ crossed' = (flying # {})
  BY DEF Rfsend, MakesPacket, At, Written
<1>2. cont \in [Procs -> Conts(L)]
  BY DEF ContTyped
<1> HIDE DEF L
<1>3. Comes(p, "reply")
  BY <1>1, <1>2 DEF Comes, Conts
<1>4. /\ m \in Datagrams /\ m.kind = "request" /\ m.id = wants[p].id /\ m.op = wants[p].op
      /\ m.name = wants[p].name /\ m.pos = wants[p].pos
  BY RequestTyped DEF RemoteInv
<1>4a. m' = m
  BY <1>1 DEF Request
<1> HIDE DEF m
<1>5. PacketMutex'
  <2> DEFINE W == AtAny({"rfturn"})
             H == AtAny({"reply"})
             V == AtAny({"rfturn"})'
             I == AtAny({"reply"})'
  <2>1. p \in ToSet(rmutex.q) <=> Contains(rmutex.q, p)
    BY ContainsIn DEF RemoteInv, PacketMutex, Mutex
  <2>2. V = W \ {p} /\ I = H \cup {p}
    BY <1>3, ComesAtAny
  <2>3. p \in W /\ p \notin ToSet(rmutex.q) /\ W \cap H = {} /\ ToSet(rmutex.q) \subseteq W
    BY <1>1, <2>1 DEF AtAny, RemoteInv, PacketMutex, Mutex
  <2>4. V \cup I = W \cup H /\ V \cap I = {} /\ ToSet(rmutex.q) \subseteq V
    BY <2>2, <2>3
  <2> HIDE DEF W, H, V, I
  <2>5. Mutex(rmutex, W, H)
    BY DEF RemoteInv, PacketMutex, W, H
  <2>6. Mutex(rmutex, V, I)
    BY <2>4, <2>5, MutexMoves
  <2>7. QED  BY <1>1, <2>6 DEF PacketMutex, V, I
<1>6. \A q \in Procs : cont'[q].at = "reply" => q = p
  BY <1>1, <1>3, PacketAlone DEF RemoteInv, Comes
<1>7. ~crossed' => OnlyOurs'
  <2>1. SUFFICES ASSUME ~crossed' PROVE OnlyOurs'
    OBVIOUS
  <2>2. flying' \subseteq {m} /\ Len(inbox') = 0
    BY <1>1, <2>1
  <2>3. AsAsked(m)' /\ AnswersPacket(m)'
    BY <1>1, <1>4, <1>4a DEF AsAsked, AnswersPacket
  <2>4. \A n \in flying' : AsAsked(n)' /\ AnswersPacket(n)'
    BY <1>4a, <2>2, <2>3
  <2>5. \A i \in 1 .. Len(inbox') : FALSE
    BY <2>2
  <2>6. QED  BY <2>4, <2>5 DEF OnlyOurs
<1>8. PacketInv'
  BY <1>1, <1>6, <1>7 DEF PacketInv
<1>9. RfTyped'
  <2>1. wants[p] \in Requests /\ <<>> \in Seq(Datagrams)
    BY DEF RemoteInv, RfTyped
  <2>2. flying' \subseteq Datagrams
    BY <1>1, <1>4 DEF RemoteInv, RfTyped
  <2>3. packet' \in Requests /\ inbox' \in Seq(Datagrams)
    BY <1>1, <2>1
  <2>4. QED  BY <1>1, <2>2, <2>3 DEF RemoteInv, RfTyped
<1>10. \A q \in Procs : cont'[q].at = "file" => cont'[q].ix \in Slots
  BY <1>3 DEF RemoteInv, Comes
<1>11. QED  BY <1>5, <1>8, <1>9, <1>10 DEF RemoteInv

LEMMA RetryRemote ==
  ASSUME RemoteInv, ContTyped, part = "files", part' = part, NEW p \in Procs, Retry(p)
  PROVE  RemoteInv'
<1> DEFINE L == Labels("files")
           t == cont[p].try + 1
           r == Request(p, t)
           m == [r EXCEPT !.id = packet.id, !.op = packet.op, !.name = packet.name, !.pos = packet.pos]
<1>1. cont \in [Procs -> Conts(L)] /\ t \in Nat
  BY DEF ContTyped, Conts
<1>2. /\ cont' = [cont EXCEPT ![p].try = t] /\ flying' \in {flying \cup {m}, flying}
      /\ UNCHANGED <<rftab, rmutex, packet, wants, inbox, served, ids, crossed>>
  BY DEF Retry, Written
<1> HIDE DEF L, t
<1>3. r \in Datagrams /\ r.kind = "request"
  BY <1>1, RequestTyped DEF RemoteInv
<1> HIDE DEF r
<1>4. /\ m \in Datagrams /\ m.kind = "request" /\ m.id = packet.id /\ m.op = packet.op
      /\ m.name = packet.name /\ m.pos = packet.pos
  BY <1>3 DEF RemoteInv, RfTyped, Requests, Datagrams
<1> HIDE DEF m
<1>5. \A q \in Procs : cont'[q].at = cont[q].at /\ cont'[q].ix = cont[q].ix
  BY <1>1, <1>2 DEF Conts
<1>6. PacketMutex'
  BY <1>2, <1>5 DEF RemoteInv, PacketMutex, AtAny
<1>7. OnlyOurs => OnlyOurs'
  BY <1>2, <1>4 DEF OnlyOurs, AsAsked, AnswersPacket
<1>8. PacketInv'
  BY <1>2, <1>5, <1>7 DEF RemoteInv, PacketInv
<1>9. RfTyped'
  BY <1>2, <1>4 DEF RemoteInv, RfTyped
<1>10. QED  BY <1>5, <1>6, <1>8, <1>9 DEF RemoteInv

LEMMA EndsRemote ==
  ASSUME RemoteInv, ContTyped, part = "files", part' = part, NEW p \in Procs,
         TooLong(p) \/ RfsendFails(p) \/ WriteFails(p) \/ GivesUp(p) \/ TakesReply(p)
  PROVE  RemoteInv'
<1>1. cont[p].at = "reply" \/ (cont[p].at = "rfturn" /\ ~Contains(rmutex.q, p))
  BY DEF TooLong, RfsendFails, WriteFails, MakesPacket, GivesUp, TakesReply, At
<1>2. UNCHANGED <<flying, ids>>
  BY DEF TooLong, RfsendFails, WriteFails, GivesUp, TakesReply, serverVars
<1>3. CASE TooLong(p) \/ RfsendFails(p) \/ WriteFails(p)
  <2>1. packet' = wants[p] /\ inbox' \in {inbox, <<>>} /\ Finishes(p, FALSE)
    BY <1>3 DEF TooLong, RfsendFails, WriteFails, MakesPacket, serverVars
  <2>2. packet' \in Requests /\ inbox' \in Seq(Datagrams)
    <3>1. wants[p] \in Requests /\ inbox \in Seq(Datagrams) /\ <<>> \in Seq(Datagrams)
      BY DEF RemoteInv, RfTyped
    <3>2. QED  BY ONLY <2>1, <3>1
  <2>3. QED  BY <1>1, <1>2, <2>1, <2>2, FinishesRemote
<1>4. CASE GivesUp(p)
  <2>1. packet' \in Requests /\ inbox' \in Seq(Datagrams) /\ Finishes(p, FALSE)
    BY <1>4 DEF GivesUp, RemoteInv, RfTyped, serverVars
  <2>2. QED  BY <1>1, <1>2, <2>1, FinishesRemote
<1>5. CASE TakesReply(p)
  <2> DEFINE r == Head(inbox)
             ok == r.op # "error"
  <2>1. inbox \in Seq(Datagrams) /\ inbox # <<>>
    BY <1>5 DEF TakesReply, RemoteInv, RfTyped
  <2>2. r \in Datagrams /\ Tail(inbox) \in Seq(Datagrams)
    BY <2>1
  <2>3. /\ packet' = [op |-> r.op, name |-> r.name, pos |-> r.pos, id |-> r.id]
        /\ inbox' = Tail(inbox) /\ Finishes(p, ok)
    BY <1>5 DEF TakesReply
  <2> HIDE DEF r
  <2>4. packet' \in Requests
    BY <2>2, <2>3 DEF Datagrams, Requests
  <2>5. ok \in BOOLEAN
    OBVIOUS
  <2> HIDE DEF ok
  <2>6. QED  BY <1>1, <1>2, <2>2, <2>3, <2>4, <2>5, FinishesRemote
<1>6. QED  BY <1>3, <1>4, <1>5

\* The network and the server: replies to our request only follow from what the server did.
LEMMA NetworkRemote ==
  ASSUME RemoteInv, part = "files", part' = part, NEW m \in flying, Lost(m) \/ Serves(m) \/ ReplyArrives(m)
  PROVE  RemoteInv'
<1>1. UNCHANGED <<rftab, rmutex, packet, wants, ids, crossed, cont>>
  BY DEF Lost, Serves, ReplyArrives
<1>2. m \in Datagrams /\ flying \subseteq Datagrams /\ inbox \in Seq(Datagrams) /\ packet \in Requests
  BY DEF RemoteInv, RfTyped
<1>3. SUFFICES /\ flying' \subseteq Datagrams /\ inbox' \in Seq(Datagrams)
               /\ OnlyOurs => OnlyOurs'
  <2>1. ASSUME flying' \subseteq Datagrams, inbox' \in Seq(Datagrams), OnlyOurs => OnlyOurs'
        PROVE  RemoteInv'
    <3>1. RfTyped'
      BY <1>1, <2>1 DEF RemoteInv, RfTyped
    <3>2. PacketMutex' /\ PacketInv'
      BY <1>1, <2>1 DEF RemoteInv, PacketMutex, PacketInv, AtAny
    <3>3. QED  BY <1>1, <3>1, <3>2 DEF RemoteInv
  <2>2. QED  BY <2>1
<1>4. CASE Lost(m)
  BY <1>1, <1>2, <1>4 DEF Lost, OnlyOurs, AsAsked, AnswersPacket
<1>5. CASE ReplyArrives(m)
  <2>1. /\ m.kind = "reply" /\ flying' = flying \ {m} /\ inbox' = Append(inbox, m) /\ served' = served
    BY <1>5 DEF ReplyArrives
  <2>2. /\ inbox' \in Seq(Datagrams) /\ Len(inbox') = Len(inbox) + 1
        /\ \A i \in 1 .. Len(inbox) : inbox'[i] = inbox[i]
        /\ inbox'[Len(inbox) + 1] = m
    BY <1>2, <2>1
  <2>3. ASSUME OnlyOurs PROVE OnlyOurs'
    <3>1. \A n \in flying' : AsAsked(n)' /\ AnswersPacket(n)'
      BY <1>1, <2>1, <2>3 DEF OnlyOurs, AsAsked, AnswersPacket
    <3>2. ASSUME NEW i \in 1 .. Len(inbox') PROVE inbox'[i].kind = "reply" /\ AnswersPacket(inbox[i])'
      <4>1. CASE i \in 1 .. Len(inbox)
        <5>1. inbox'[i] = inbox[i]
          BY <2>2, <4>1
        <5>2. QED  BY <1>1, <2>1, <2>3, <4>1, <5>1 DEF OnlyOurs, AnswersPacket
      <4>2. CASE i = Len(inbox) + 1
        <5>1. inbox'[i] = m
          BY <2>2, <4>2
        <5>2. QED  BY <1>1, <2>1, <2>3, <5>1 DEF OnlyOurs, AnswersPacket
      <4>3. QED  BY <1>2, <2>2, <3>2, <4>1, <4>2
    <3>3. QED  BY <3>1, <3>2 DEF OnlyOurs
  <2>4. flying' \subseteq Datagrams
    BY <1>2, <2>1
  <2>5. QED  BY <2>2, <2>3, <2>4
<1>6. CASE Serves(m)
  <2>1. PICK ok \in BOOLEAN :
          /\ served' = IF ok THEN served \cup {[id |-> m.id, op |-> m.op, name |-> m.name, pos |-> m.pos]}
                       ELSE served
          /\ flying' = (flying \ {m}) \cup {Reply(m, ok)}
    BY <1>6 DEF Serves
  <2> DEFINE o == IF ok THEN m.op ELSE "error"
             a == IF ok /\ m.op = "io" /\ m.pos < MaxPos THEN m.pos + 1 ELSE m.pos
             n == [m EXCEPT !.kind = "reply", !.op = o, !.pos = a]
             d == [id |-> m.id, op |-> m.op, name |-> m.name, pos |-> m.pos]
  <2>2. flying' = (flying \ {m}) \cup {n} /\ (ok => served' = served \cup {d}) /\ (~ok => served' = served)
    BY <2>1 DEF Reply
  <2>3. o \in OpNames /\ a \in Nat /\ (~ok => o = "error")
    BY <1>2 DEF Datagrams, OpNames
  <2> HIDE DEF o, a
  <2>4. n \in Datagrams /\ n.kind = "reply" /\ n.op = o
    BY <1>2, <2>3 DEF Datagrams
  <2> HIDE DEF n
  <2>5. m.kind = "request" /\ inbox' = inbox
    BY <1>6 DEF Serves
  <2>6. AsAsked(m) => d = packet
    BY <1>2, <2>5 DEF AsAsked, Requests
  <2> HIDE DEF d
  <2>7. ASSUME OnlyOurs PROVE OnlyOurs'
    <3>1. packet \in served => packet \in served'
      BY <2>2
    <3>2. ok => packet \in served'
      BY <2>2, <2>6, <2>7 DEF OnlyOurs
    <3>3. AsAsked(n)' /\ AnswersPacket(n)'
      BY <1>1, <2>3, <2>4, <3>2 DEF AsAsked, AnswersPacket
    <3>4. \A x \in flying \ {m} : AsAsked(x)' /\ AnswersPacket(x)'
      BY <1>1, <2>7, <3>1 DEF OnlyOurs, AsAsked, AnswersPacket
    <3>5. \A i \in 1 .. Len(inbox') : inbox'[i].kind = "reply" /\ AnswersPacket(inbox[i])'
      BY <1>1, <2>5, <2>7, <3>1 DEF OnlyOurs, AnswersPacket
    <3>6. QED  BY <2>2, <3>3, <3>4, <3>5 DEF OnlyOurs
  <2>8. flying' \subseteq Datagrams /\ inbox' \in Seq(Datagrams)
    BY <1>2, <2>2, <2>4, <2>5
  <2>9. QED  BY <2>7, <2>8
<1>7. QED  BY <1>4, <1>5, <1>6

LEMMA RemoteHolds == NetSpec => []RemoteInv
<1>1. NetInit => RemoteInv
  <2>1. SUFFICES ASSUME NetInit PROVE RemoteInv
    OBVIOUS
  <2>2. /\ rftab = [i \in Slots |-> [used |-> FALSE, name |-> Nobody, pos |-> 0]]
        /\ rmutex = Sem(1) /\ packet = NoRequest /\ wants = [p \in Procs |-> NoRequest]
        /\ flying = {} /\ inbox = <<>> /\ ids = 0
    BY <2>1 DEF NetInit, RemoteInit
  <2>3. RfTyped
    BY <2>2, NoRequestTyped DEF RfTyped, FileNames
  <2>4. \A p \in Procs : cont[p].at \in {"user", "boot", "unborn"}
    BY <2>1 DEF NetInit, Booting, Where
  <2>5. AtAny({"rfturn"}) = {} /\ AtAny({"reply"}) = {}
    BY <2>4 DEF AtAny
  <2>6. PacketMutex
    BY <2>2, <2>5, MutexNew DEF PacketMutex
  <2>7. QED  BY <2>3, <2>4, <2>6 DEF RemoteInv, PacketInv
<1>2. ContTyped /\ TableTyped /\ RemoteInv /\ [NetNext]_netVars => RemoteInv'
  <2>1. SUFFICES ASSUME ContTyped, TableTyped, RemoteInv, [NetNext]_netVars PROVE RemoteInv'
    OBVIOUS
  <2>2. CASE part = "files" /\ RemoteNext /\ part' = part
    <3>1. ASSUME NEW m \in flying, Lost(m) \/ Serves(m) \/ ReplyArrives(m) PROVE RemoteInv'
      BY <2>1, <2>2, <3>1, NetworkRemote
    <3>2. ASSUME NEW p \in Users, RemoteStep(p) PROVE RemoteInv'
      <4>1. p \in Procs /\ RfTyped
        BY <2>1 DEF Users, RemoteInv
      <4>2. CASE RmutexTurn(p) \/ Rfsend(p) \/ Retry(p)
        BY <2>1, <2>2, <4>1, <4>2, RmutexTurnRemote, RfsendRemote, RetryRemote
      <4>3. CASE TooLong(p) \/ RfsendFails(p) \/ WriteFails(p) \/ GivesUp(p) \/ TakesReply(p)
        BY <2>1, <2>2, <4>1, <4>3, EndsRemote
      <4>4. CASE Locked(p) \/ Unopens(p)
        BY <2>1, <2>2, <4>1, <4>4, HasFile, FileStepRemote
      <4>5. CASE \/ \E name \in Files : Rfopen(p, name) \/ Rfcntl(p, name)
                 \/ \E i \in Slots : \/ Rfio(p, i) \/ Rfclose(p, i)
                                     \/ \E pos \in 0 .. MaxPos : Rfseek(p, i, pos)
                 \/ RfcntlClear(p)
        <5>1. FileStep(p)
          BY <2>1, <2>2, <4>1, <4>5, CallsFile
        <5>2. QED  BY <2>1, <2>2, <4>1, <5>1, FileStepRemote
      <4>6. QED  BY <3>2, <4>2, <4>3, <4>4, <4>5 DEF RemoteStep
    <3>3. QED  BY <2>2, <3>1, <3>2 DEF RemoteNext
  <2>3. CASE part \notin {"files", "names"} /\ UNCHANGED <<rfOwn, part>>
    BY <2>1, <2>3 DEF RemoteInv, RfTyped, rfOwn
  <2>4. CASE UNCHANGED <<rfOwn, cont, part>>
    <3>1. UNCHANGED <<rftab, rmutex, packet, wants, flying, inbox, served, ids, crossed, cont, part>>
      BY <2>4 DEF rfOwn
    <3>2. QED
      BY <2>1, <3>1 DEF RemoteInv, RfTyped, PacketMutex, PacketInv, OnlyOurs, AsAsked, AnswersPacket, AtAny
  <2>5. QED  BY <2>1, <2>2, <2>3, <2>4 DEF NetNext, netVars
<1>3. QED  BY <1>1, <1>2, NetTyped, PTL DEF NetSpec

\* The packet is that of the process that waits, and an operation that succeeds was done by the
\* server as it was asked, for every number of processes, files and tries and every loss and
\* delay of datagrams, unless some of an earlier request were under way when it began (rfsend).
THEOREM AcknowledgedDoneCorrect == NetSpec => AcknowledgedDone
<1> DEFINE A == \A p \in Procs : At(p, "reply") =>
                  /\ packet = wants[p]
                  /\ TakesReply(p) /\ ~crossed /\ packet'.op # "error" => wants[p] \in served
<1>1. ContTyped /\ TableTyped /\ RemoteInv => A
  <2>1. SUFFICES ASSUME ContTyped, TableTyped, RemoteInv, NEW p \in Procs, cont[p].at = "reply"
                 PROVE  /\ packet = wants[p]
                        /\ TakesReply(p) /\ ~crossed /\ packet'.op # "error" => wants[p] \in served
    BY DEF At
  <2>2. part \in {"files", "names"}
    BY <2>1 DEF ContTyped, TableTyped, Labels, Conts
  <2>3. packet = wants[p] /\ (~crossed => OnlyOurs)
    BY <2>1, <2>2 DEF RemoteInv, PacketInv
  <2>4. ASSUME TakesReply(p), ~crossed, packet'.op # "error" PROVE wants[p] \in served
    <3>1. inbox \in Seq(Datagrams) /\ inbox # <<>> /\ packet'.op = Head(inbox).op
      BY <2>1, <2>4 DEF TakesReply, RemoteInv, RfTyped
    <3>2. Head(inbox) = inbox[1] /\ 1 \in 1 .. Len(inbox)
      BY <3>1
    <3>3. inbox[1].kind = "reply" /\ AnswersPacket(inbox[1])
      BY <2>3, <2>4, <3>2 DEF OnlyOurs
    <3>4. QED  BY <2>3, <2>4, <3>1, <3>2, <3>3 DEF AnswersPacket
  <2>5. QED  BY <2>3, <2>4
<1>2. ContTyped /\ TableTyped /\ RemoteInv => [A]_<<rfOwn, cont>>
  BY <1>1
<1>3. [](ContTyped /\ TableTyped /\ RemoteInv) => [][A]_<<rfOwn, cont>>
  <2> HIDE DEF A
  <2>1. QED  BY <1>2, PTL
<1>4. QED  BY <1>3, NetTyped, RemoteHolds, PTL DEF AcknowledgedDone

------------------------------------------------------------------------------
(* The name space. *)

NameStrings == Seq(Letters)
Mappings == [npre : NameStrings, ndev : Devs, nrepl : NameStrings]

\* The table holds entries, and no prefix twice.
NamesInv ==
  /\ nametab \in Seq(Mappings)
  /\ \A i, j \in DOMAIN nametab : nametab[i].npre = nametab[j].npre => i = j

LEMMA NamesAre == Names \subseteq NameStrings
BY NameAssumption DEF Names, NameStrings

LEMMA EntryIs ==
  ASSUME NEW prefix \in NameStrings, NEW dev \in Devs, NEW replace \in NameStrings
  PROVE  LET e == Entry(prefix, dev, replace) IN
         e \in Mappings /\ e.npre = prefix /\ e.ndev = dev /\ e.nrepl = replace
BY DEF Entry, Mappings

Fitting(t, n) == {i \in 1 .. Len(t) : IsPrefix(t[i].npre, n)}

\* What namrepl makes of a name is decided by the first entry that fits.
Replaced(e, n) ==
  LET new == e.nrepl \o SubSeq(n, Len(e.npre) + 1, Len(n)) IN
  IF Len(new) >= NAMLEN THEN [dev |-> SYSERR, name |-> <<>>] ELSE [dev |-> e.ndev, name |-> new]

LEMMA FirstFits ==
  ASSUME NEW t \in Seq(Mappings), NEW n, NEW k \in 1 .. Len(t), IsPrefix(t[k].npre, n),
         \A i \in 1 .. k - 1 : ~IsPrefix(t[i].npre, n)
  PROVE  NamreplIn(t, n) = Replaced(t[k], n)
<1>1. k \in Fitting(t, n) /\ Fitting(t, n) \subseteq Nat /\ Fitting(t, n) # {}
  BY DEF Fitting
<1>2. Min(Fitting(t, n)) \in Fitting(t, n) /\ \A i \in Fitting(t, n) : Min(Fitting(t, n)) <= i
  BY <1>1, MinNat
<1>3. \A i \in Fitting(t, n) : i \in 1 .. Len(t) /\ ~(i < k)
  BY DEF Fitting
<1>4. Min(Fitting(t, n)) = k
  BY <1>1, <1>2, <1>3
<1>5. QED  BY <1>1, <1>4, Zenon DEF NamreplIn, Fitting, Replaced

LEMMA NothingFits ==
  ASSUME NEW t, NEW n, \A i \in 1 .. Len(t) : ~IsPrefix(t[i].npre, n)
  PROVE  NamreplIn(t, n) = [dev |-> SYSERR, name |-> <<>>]
<1>1. Fitting(t, n) = {}
  BY DEF Fitting
<1>2. QED  BY <1>1, Zenon DEF NamreplIn, Fitting

LEMMA FirstOrNone ==
  ASSUME NEW t \in Seq(Mappings), NEW n
  PROVE  \/ \A i \in 1 .. Len(t) : ~IsPrefix(t[i].npre, n)
         \/ \E k \in 1 .. Len(t) : IsPrefix(t[k].npre, n) /\ \A i \in 1 .. k - 1 : ~IsPrefix(t[i].npre, n)
<1>1. CASE Fitting(t, n) = {}
  BY <1>1 DEF Fitting
<1>2. CASE Fitting(t, n) # {}
  <2>1. PICK k \in Fitting(t, n) : \A i \in Fitting(t, n) : k <= i
    <3>1. Fitting(t, n) \subseteq Nat
      BY DEF Fitting
    <3>2. QED  BY <1>2, <3>1, MinNat
  <2>2. k \in 1 .. Len(t) /\ IsPrefix(t[k].npre, n)
    BY <2>1 DEF Fitting
  <2>3. \A i \in 1 .. k - 1 : ~IsPrefix(t[i].npre, n)
    BY <2>1, <2>2 DEF Fitting
  <2>4. QED  BY <2>2, <2>3
<1>3. QED  BY <1>1, <1>2

\* An entry that does not fit a name can be put in without changing its meaning.
LEMMA MeaningKept ==
  ASSUME NEW s \in Seq(Mappings), NEW t \in Seq(Mappings), NEW m \in 1 .. Len(t), NEW n,
         Len(t) = Len(s) + 1, \A i \in 1 .. m - 1 : t[i] = s[i], ~IsPrefix(t[m].npre, n),
         \A i \in m + 1 .. Len(t) : t[i] = s[i-1]
  PROVE  NamreplIn(t, n) = NamreplIn(s, n)
<1>1. CASE \A i \in 1 .. Len(s) : ~IsPrefix(s[i].npre, n)
  <2>1. ASSUME NEW i \in 1 .. Len(t) PROVE ~IsPrefix(t[i].npre, n)
    <3>1. CASE i < m
      BY <1>1, <3>1
    <3>2. CASE i = m
      BY <3>2
    <3>3. CASE i > m
      <4>1. i - 1 \in 1 .. Len(s) /\ i \in m + 1 .. Len(t)
        BY <3>3
      <4>2. QED  BY <1>1, <4>1
    <3>4. QED  BY <3>1, <3>2, <3>3
  <2>2. QED  BY <1>1, <2>1, NothingFits
<1>2. ASSUME NEW k \in 1 .. Len(s), IsPrefix(s[k].npre, n), \A i \in 1 .. k - 1 : ~IsPrefix(s[i].npre, n)
      PROVE  NamreplIn(t, n) = NamreplIn(s, n)
  <2> DEFINE l == IF k < m THEN k ELSE k + 1
  <2>1. l \in 1 .. Len(t) /\ t[l] = s[k]
    <3>1. CASE k < m
      BY <3>1
    <3>2. CASE ~(k < m)
      <4>1. k + 1 \in m + 1 .. Len(t) /\ (k + 1) - 1 = k
        BY <3>2
      <4>2. t[k+1] = s[k]
        BY <4>1
      <4>3. QED  BY <3>2, <4>1, <4>2
    <3>3. QED  BY <3>1, <3>2
  <2>2. ASSUME NEW i \in 1 .. l - 1 PROVE ~IsPrefix(t[i].npre, n)
    <3>1. CASE i < m
      BY <1>2, <3>1
    <3>2. CASE i = m
      BY <3>2
    <3>3. CASE i > m
      <4>1. i - 1 \in 1 .. k - 1 /\ i \in m + 1 .. Len(t)
        BY <3>3
      <4>2. QED  BY <1>2, <4>1
    <3>4. QED  BY <3>1, <3>2, <3>3
  <2> HIDE DEF l
  <2>3. IsPrefix(t[l].npre, n)
    BY <1>2, <2>1
  <2>4. NamreplIn(t, n) = Replaced(t[l], n)
    BY <2>1, <2>2, <2>3, FirstFits
  <2>5. NamreplIn(s, n) = Replaced(s[k], n)
    BY <1>2, FirstFits
  <2>6. QED  BY <2>1, <2>4, <2>5
<1>3. QED  BY <1>1, <1>2, FirstOrNone

\* An entry's meaning is its own: changing it changes no name that it does not fit.
LEMMA OtherMeaningsKept ==
  ASSUME NEW s \in Seq(Mappings), NEW t \in Seq(Mappings), NEW m \in 1 .. Len(s), NEW n,
         Len(t) = Len(s), \A i \in 1 .. Len(s) : i # m => t[i] = s[i],
         ~IsPrefix(s[m].npre, n), ~IsPrefix(t[m].npre, n)
  PROVE  NamreplIn(t, n) = NamreplIn(s, n)
<1>1. \A i \in 1 .. Len(s) : IsPrefix(t[i].npre, n) <=> IsPrefix(s[i].npre, n)
  OBVIOUS
<1>2. CASE \A i \in 1 .. Len(s) : ~IsPrefix(s[i].npre, n)
  BY <1>1, <1>2, NothingFits
<1>3. ASSUME NEW k \in 1 .. Len(s), IsPrefix(s[k].npre, n), \A i \in 1 .. k - 1 : ~IsPrefix(s[i].npre, n)
      PROVE  NamreplIn(t, n) = NamreplIn(s, n)
  <2>1. t[k] = s[k] /\ \A i \in 1 .. k - 1 : ~IsPrefix(t[i].npre, n)
    BY <1>1, <1>3
  <2>2. k \in 1 .. Len(t) /\ IsPrefix(t[k].npre, n)
    BY <1>3, <2>1
  <2>3. NamreplIn(t, n) = Replaced(t[k], n)
    BY <2>1, <2>2, FirstFits
  <2>4. NamreplIn(s, n) = Replaced(s[k], n)
    BY <1>3, FirstFits
  <2>5. QED  BY <2>1, <2>3, <2>4
<1>4. QED  BY <1>2, <1>3, FirstOrNone

Meanings(prefix) ==
  /\ \A n \in Names : ~IsPrefix(prefix, n) => NamreplIn(nametab', n) = NamreplIn(nametab, n)
  /\ Len(nametab') > Len(nametab) /\ nametab # <<>> => Last(nametab') = Last(nametab)

LEMMA EntriesFound ==
  ASSUME NEW prefix, EntriesOf(prefix) # {}
  PROVE  /\ Min(EntriesOf(prefix)) \in 1 .. Len(nametab)
         /\ nametab[Min(EntriesOf(prefix))].npre = prefix
<1>1. EntriesOf(prefix) \subseteq Nat
  BY DEF EntriesOf
<1>2. Min(EntriesOf(prefix)) \in EntriesOf(prefix)
  BY <1>1, MinNat
<1>3. QED  BY <1>2 DEF EntriesOf

LEMMA MountKeeps ==
  ASSUME NamesInv, NEW prefix \in Names, NEW dev \in Devs, NEW replace \in Names,
         Mount(prefix, dev, replace)
  PROVE  NamesInv' /\ Meanings(prefix)
<1> DEFINE e == Entry(prefix, dev, replace)
           n == Len(nametab)
           m == Min(EntriesOf(prefix))
           s == nametab
           t == nametab'
<1>1. s \in Seq(Mappings) /\ n \in Nat /\ DOMAIN s = 1 .. n
      /\ \A i, j \in 1 .. n : s[i].npre = s[j].npre => i = j
  BY DEF NamesInv
<1>2. e \in Mappings /\ e.npre = prefix
  BY EntryIs, NamesAre
<1>3. t = IF EntriesOf(prefix) # {} THEN [s EXCEPT ![m] = e]
          ELSE IF n >= NNAMES THEN s ELSE IF n = 0 THEN <<e>> ELSE InsertAt(s, n, e)
  BY DEF Mount
<1>4. EntriesOf(prefix) = {} => \A i \in 1 .. n : s[i].npre # prefix
  BY DEF EntriesOf
<1>5. CASE EntriesOf(prefix) # {}
  <2>1. m \in 1 .. n /\ s[m].npre = prefix
    BY <1>5, EntriesFound
  <2> HIDE DEF m, e
  <2>2. t = [s EXCEPT ![m] = e]
    BY <1>3, <1>5
  <2>3. t \in Seq(Mappings) /\ Len(t) = n /\ t[m] = e /\ \A i \in 1 .. n : i # m => t[i] = s[i]
    BY <1>1, <1>2, <2>1, <2>2
  <2>4. \A i \in 1 .. n : t[i].npre = s[i].npre
    BY <1>2, <2>1, <2>3
  <2>5. NamesInv'
    BY <1>1, <2>3, <2>4 DEF NamesInv
  <2>6. ASSUME NEW x \in Names, ~IsPrefix(prefix, x) PROVE NamreplIn(t, x) = NamreplIn(s, x)
    BY <1>1, <1>2, <2>1, <2>3, <2>6, OtherMeaningsKept
  <2>7. QED  BY <1>1, <2>3, <2>5, <2>6 DEF Meanings
<1>6. CASE EntriesOf(prefix) = {} /\ n >= NNAMES
  BY <1>1, <1>3, <1>6 DEF NamesInv, Meanings
<1>7. CASE EntriesOf(prefix) = {} /\ ~(n >= NNAMES) /\ n = 0
  <2> HIDE DEF m, e
  <2>1. t = <<e>> /\ s = <<>>
    BY <1>1, <1>3, <1>7
  <2>2. t \in Seq(Mappings) /\ Len(t) = 1 /\ t[1] = e
    BY <1>2, <2>1
  <2>3. NamesInv'
    BY <2>2 DEF NamesInv
  <2>4. ASSUME NEW x \in Names, ~IsPrefix(prefix, x) PROVE NamreplIn(t, x) = NamreplIn(s, x)
    <3>1. \A i \in 1 .. Len(t) : ~IsPrefix(t[i].npre, x)
      BY <1>2, <2>2, <2>4
    <3>2. \A i \in 1 .. Len(s) : ~IsPrefix(s[i].npre, x)
      BY <1>7
    <3>3. QED  BY <3>1, <3>2, NothingFits
  <2>5. QED  BY <2>1, <2>3, <2>4 DEF Meanings
<1>8. CASE EntriesOf(prefix) = {} /\ ~(n >= NNAMES) /\ n # 0
  <2> HIDE DEF m, e
  <2>1. /\ t = InsertAt(s, n, e) /\ n \in 1 .. n + 1 /\ Len(s) = n
        /\ \A i \in 1 .. n : s[i].npre # prefix
    BY <1>1, <1>3, <1>4, <1>8
  <2> HIDE DEF s, n
  <2>2. /\ t \in Seq(Mappings) /\ Len(t) = n + 1 /\ t[n] = e
        /\ \A i \in 1 .. n - 1 : t[i] = s[i]
        /\ \A i \in n + 1 .. n + 1 : t[i] = s[i - 1]
    <3>1. /\ InsertAt(s, n, e) \in Seq(Mappings) /\ Len(InsertAt(s, n, e)) = Len(s) + 1
          /\ \A i \in 1 .. n - 1 : InsertAt(s, n, e)[i] = s[i]
          /\ InsertAt(s, n, e)[n] = e
          /\ \A i \in n + 1 .. Len(s) + 1 : InsertAt(s, n, e)[i] = s[i - 1]
      <4>1. n \in 1 .. Len(s) + 1 /\ s \in Seq(Mappings) /\ e \in Mappings
        BY <1>1, <1>2, <2>1
      <4>2. QED  BY ONLY <4>1, InsertAtList
    <3> HIDE DEF t
    <3>2. QED  BY ONLY <2>1, <3>1
  <2>3. t[n + 1] = s[n]
    BY <1>1, <2>2
  <2>4. ASSUME NEW i \in 1 .. n + 1, NEW j \in 1 .. n + 1, t[i].npre = t[j].npre PROVE i = j
    <3> DEFINE from(k) == IF k < n THEN k ELSE n
    <3>1. \A k \in 1 .. n + 1 : k # n => from(k) \in 1 .. n /\ t[k] = s[from(k)]
      <4>1. TAKE k \in 1 .. n + 1
      <4>2. CASE k < n
        BY <1>1, <2>2, <4>2
      <4>3. CASE k = n + 1
        BY <1>1, <2>1, <2>3, <4>3
      <4>4. QED  BY <1>1, <4>2, <4>3
    <3>2. \A k \in 1 .. n + 1 : k # n => t[k].npre # prefix
      BY <2>1, <3>1
    <3>3. i = n <=> j = n
      BY <1>2, <2>2, <2>4, <3>2
    <3>4. CASE i # n /\ j # n
      <4>1. from(i) = from(j)
        BY <1>1, <2>4, <3>1, <3>4
      <4>2. (i < n \/ i = n + 1) /\ (j < n \/ j = n + 1)
        BY <1>1, <3>4
      <4>3. QED  BY <1>1, <4>1, <4>2
    <3>5. QED  BY <3>3, <3>4
  <2>5. NamesInv'
    BY <1>1, <2>2, <2>4 DEF NamesInv, s, n
  <2>6. ASSUME NEW x \in Names, ~IsPrefix(prefix, x) PROVE NamreplIn(t, x) = NamreplIn(s, x)
    <3>1. ~IsPrefix(t[n].npre, x) /\ n \in 1 .. Len(t) /\ Len(t) = Len(s) + 1
      BY <1>1, <1>2, <2>1, <2>2, <2>6
    <3>2. \A i \in n + 1 .. Len(t) : t[i] = s[i-1]
      BY <2>2
    <3>3. QED  BY <1>1, <2>2, <3>1, <3>2, MeaningKept
  <2>7. Last(t) = Last(s)
    BY <1>1, <2>1, <2>2, <2>3 DEF Last
  <2>8. QED  BY <2>5, <2>6, <2>7 DEF Meanings, s
<1>9. QED  BY <1>5, <1>6, <1>7, <1>8

LEMMA UnmountKeeps ==
  ASSUME NamesInv, NEW prefix \in Names, Unmount(prefix)
  PROVE  NamesInv' /\ Meanings(prefix)
<1> DEFINE n == Len(nametab)
           m == Min(EntriesOf(prefix))
           s == nametab
           t == nametab'
<1>1. s \in Seq(Mappings) /\ n \in Nat /\ DOMAIN s = 1 .. n
      /\ \A i, j \in 1 .. n : s[i].npre = s[j].npre => i = j
  BY DEF NamesInv
<1>2. t = IF EntriesOf(prefix) = {} THEN s ELSE RemoveAt(s, m)
  BY DEF Unmount
<1>3. CASE EntriesOf(prefix) = {}
  BY <1>1, <1>2, <1>3 DEF NamesInv, Meanings
<1>4. CASE EntriesOf(prefix) # {}
  <2>1. m \in 1 .. n /\ s[m].npre = prefix
    BY <1>4, EntriesFound
  <2> HIDE DEF m
  <2>2. /\ t \in Seq(Mappings) /\ Len(t) = n - 1
        /\ \A i \in 1 .. m - 1 : t[i] = s[i]
        /\ \A i \in m .. n - 1 : t[i] = s[i + 1]
    BY <1>1, <1>2, <1>4, <2>1, RemoveAtList
  <2>3. ASSUME NEW i \in 1 .. n - 1, NEW j \in 1 .. n - 1, t[i].npre = t[j].npre PROVE i = j
    <3> DEFINE from(k) == IF k < m THEN k ELSE k + 1
    <3>1. \A k \in 1 .. n - 1 : from(k) \in 1 .. n /\ t[k] = s[from(k)]
      <4>1. TAKE k \in 1 .. n - 1
      <4>2. CASE k < m
        <5>1. k \in 1 .. m - 1 /\ k \in 1 .. n
          BY <1>1, <2>1, <4>2
        <5>2. QED  BY <2>2, <4>2, <5>1
      <4>3. CASE ~(k < m)
        <5>1. k \in m .. n - 1 /\ k + 1 \in 1 .. n
          BY <1>1, <2>1, <4>3
        <5>2. QED  BY <2>2, <4>3, <5>1
      <4>4. QED  BY <4>2, <4>3
    <3>2. from(i) = from(j)
      BY <1>1, <2>3, <3>1
    <3>3. QED  BY <2>1, <3>2
  <2>4. NamesInv'
    BY <1>1, <2>2, <2>3 DEF NamesInv
  <2>5. ASSUME NEW x \in Names, ~IsPrefix(prefix, x) PROVE NamreplIn(t, x) = NamreplIn(s, x)
    <3>1. ~IsPrefix(s[m].npre, x) /\ m \in 1 .. Len(s) /\ Len(s) = Len(t) + 1
      BY <1>1, <2>1, <2>2, <2>5
    <3>2. \A i \in m + 1 .. Len(s) : s[i] = t[i-1]
      BY <1>1, <2>1, <2>2
    <3>3. \A i \in 1 .. m - 1 : s[i] = t[i]
      BY <2>2
    <3>4. QED  BY <1>1, <2>2, <3>1, <3>2, <3>3, MeaningKept
  <2>6. ~(Len(t) > Len(s))
    BY <1>1, <2>2
  <2>7. QED  BY <2>4, <2>5, <2>6 DEF Meanings
<1>5. QED  BY <1>3, <1>4

Answers == [dev : Devs, name : NameStrings]

Lengthens(table) ==
  \A i \in DOMAIN table : table[i].ndev = NAMESPACE => Len(table[i].nrepl) > Len(table[i].npre)

\* One replacement gives an answer; one within the name space a longer name, not too long.
LEMMA NamreplAnswers ==
  ASSUME NEW t \in Seq(Mappings), NEW n \in NameStrings
  PROVE  /\ NamreplIn(t, n) \in Answers
         /\ Lengthens(t) /\ NamreplIn(t, n).dev = NAMESPACE
            => Len(NamreplIn(t, n).name) > Len(n) /\ Len(NamreplIn(t, n).name) < NAMLEN
<1>1. CASE \A i \in 1 .. Len(t) : ~IsPrefix(t[i].npre, n)
  <2>1. NamreplIn(t, n) = [dev |-> SYSERR, name |-> <<>>]
    BY <1>1, NothingFits
  <2>2. SYSERR \in Devs /\ SYSERR # NAMESPACE /\ <<>> \in NameStrings
    BY DEF SYSERR, NAMESPACE, Devs, NameStrings
  <2>3. QED  BY <2>1, <2>2 DEF Answers
<1>2. ASSUME NEW k \in 1 .. Len(t), IsPrefix(t[k].npre, n), \A i \in 1 .. k - 1 : ~IsPrefix(t[i].npre, n)
      PROVE  /\ NamreplIn(t, n) \in Answers
             /\ Lengthens(t) /\ NamreplIn(t, n).dev = NAMESPACE
                => Len(NamreplIn(t, n).name) > Len(n) /\ Len(NamreplIn(t, n).name) < NAMLEN
  <2> DEFINE e == t[k]
             rest == SubSeq(n, Len(e.npre) + 1, Len(n))
             new == e.nrepl \o rest
  <2>1. NamreplIn(t, n) = Replaced(e, n)
    BY <1>2, FirstFits
  <2> HIDE DEF e, rest, new
  <2>2. e \in Mappings
    BY DEF e
  <2>3. e.npre \in Seq(Letters) /\ e.nrepl \in Seq(Letters) /\ e.ndev \in Devs /\ n \in Seq(Letters)
    BY <2>2 DEF Mappings, NameStrings
  <2>4. Len(e.npre) <= Len(n) /\ Len(e.npre) \in Nat /\ Len(n) \in Nat /\ Len(e.nrepl) \in Nat
    BY <1>2, <2>3 DEF IsPrefix, e
  <2> DEFINE lp == Len(e.npre)
             ln == Len(n)
             lr == Len(e.nrepl)
             lrest == Len(rest)
             lnew == Len(new)
  <2>5. rest \in Seq(Letters) /\ lrest = IF lp + 1 <= ln THEN ln - (lp + 1) + 1 ELSE 0
    <3>1. lp + 1 \in 1 .. ln + 1 /\ ln \in 0 .. ln
      BY <2>4
    <3>2. QED  BY ONLY <2>3, <3>1, SubSeqList DEF rest
  <2>6. new \in Seq(Letters) /\ lnew = lr + lrest
    BY ONLY <2>3, <2>5, ConcatList DEF new
  <2> HIDE DEF lp, ln, lr, lrest, lnew
  <2>7. lp <= ln /\ lp \in Nat /\ ln \in Nat /\ lr \in Nat
    BY ONLY <2>4 DEF lp, ln, lr
  <2>8. lrest = ln - lp
    BY ONLY <2>5, <2>7
  <2>9. lnew \in Nat /\ (lr > lp => lnew > ln)
    BY ONLY <2>6, <2>7, <2>8
  <2>10. Replaced(e, n) = IF Len(new) >= NAMLEN THEN [dev |-> SYSERR, name |-> <<>>] ELSE [dev |-> e.ndev, name |-> new]
    BY DEF Replaced, rest, new
  <2>11. CASE Len(new) >= NAMLEN
    <3>1. SYSERR \in Devs /\ SYSERR # NAMESPACE /\ <<>> \in NameStrings
      BY DEF SYSERR, NAMESPACE, Devs, NameStrings
    <3>2. QED  BY <2>1, <2>10, <2>11, <3>1 DEF Answers
  <2>12. CASE ~(Len(new) >= NAMLEN)
    <3>1. NamreplIn(t, n) = [dev |-> e.ndev, name |-> new]
      BY <2>1, <2>10, <2>12
    <3>2. NamreplIn(t, n).dev = e.ndev /\ NamreplIn(t, n).name = new
      BY <3>1
    <3>3. NamreplIn(t, n) \in Answers
      BY <2>3, <2>6, <3>1 DEF Answers, NameStrings
    <3>4. Lengthens(t) /\ e.ndev = NAMESPACE => Len(e.nrepl) > Len(e.npre)
      BY DEF Lengthens, e
    <3>5. Len(new) \in Nat /\ NAMLEN \in Nat
      BY <2>9, NameAssumption DEF lnew
    <3>6. Len(e.nrepl) > Len(e.npre) => Len(new) > Len(n)
      BY ONLY <2>9 DEF lnew, lr, lp, ln
    <3>7. Len(new) < NAMLEN
      BY <2>12, <3>5
    <3>8. QED  BY <3>2, <3>3, <3>4, <3>6, <3>7
  <2>13. QED  BY <2>11, <2>12
<1>3. QED  BY <1>1, <1>2, FirstOrNone

\* If names only get longer within the name space, nammap leaves it.
LEMMA NammapEnds ==
  ASSUME NEW t \in Seq(Mappings), Lengthens(t), NEW n \in NameStrings
  PROVE  NammapIn(t, n).dev # NAMESPACE
<1> DEFINE first == NamreplIn(t, n)
           step(r) == IF r.dev = NAMESPACE THEN NamreplIn(t, r.name) ELSE r
           g == [r \in Answers |-> step(r)]
           Loop(f) == f = [k \in 0 .. NAMLEN |-> IF k = 0 THEN first ELSE step(f[k-1])]
<1>1. NAMLEN \in Nat /\ first \in Answers
  BY NameAssumption, NamreplAnswers
<1>2. ASSUME NEW r \in Answers PROVE step(r) \in Answers
  <2>1. r.name \in NameStrings
    BY DEF Answers
  <2>2. QED  BY <2>1, NamreplAnswers
<1>3. g \in [Answers -> Answers]
  BY <1>2
<1>4. \A r \in Answers : g[r] = step(r)
  OBVIOUS
<1> HIDE DEF step, g, first, Loop
<1>5. PICK f : Iterates(f, NAMLEN, Answers, g, first)
  BY ONLY <1>1, <1>3, Iterated
<1>6. f \in [0 .. NAMLEN -> Answers] /\ f[0] = first /\ \A i \in 1 .. NAMLEN : f[i] = g[f[i-1]]
  BY ONLY <1>5 DEF Iterates
<1>7. \A i \in 0 .. NAMLEN : f[i] = IF i = 0 THEN first ELSE step(f[i-1])
  <2>1. TAKE i \in 0 .. NAMLEN
  <2>2. CASE i = 0
    BY <1>6, <2>2
  <2>3. CASE i # 0
    <3>1. i - 1 \in 0 .. NAMLEN /\ i \in 1 .. NAMLEN
      BY <1>1, <2>3
    <3>2. f[i-1] \in Answers
      BY <1>6, <3>1
    <3>3. QED  BY <1>4, <1>6, <2>3, <3>1, <3>2
  <2>4. QED  BY <2>2, <2>3
<1>8. Loop(f)
  BY ONLY <1>6, <1>7 DEF Loop
<1> DEFINE r == CHOOSE x : Loop(x)
<1>9. Loop(r)
  BY <1>8
<1>10. NammapIn(t, n) = r[NAMLEN]
  BY DEF NammapIn, step, first, Loop
<1> HIDE DEF r
<1>11. r[0] = first /\ \A k \in 1 .. NAMLEN : r[k] = step(r[k-1])
  <2>1. 0 \in 0 .. NAMLEN /\ \A k \in 1 .. NAMLEN : k \in 0 .. NAMLEN /\ k # 0
    BY <1>1
  <2>2. QED  BY ONLY <1>9, <2>1 DEF Loop
<1> DEFINE Ok(k) == r[k] \in Answers /\ (r[k].dev = NAMESPACE => Len(r[k].name) > k /\ Len(r[k].name) < NAMLEN)
           T == {k \in 0 .. NAMLEN : ~Ok(k)}
<1>12. Ok(0)
  <2>1. Len(n) \in Nat
    BY DEF NameStrings
  <2>2. first \in Answers /\ (first.dev = NAMESPACE => Len(first.name) > Len(n) /\ Len(first.name) < NAMLEN)
    BY NamreplAnswers DEF first
  <2>3. Len(first.name) \in Nat
    BY <2>2 DEF Answers, NameStrings
  <2>4. QED  BY <1>11, <2>1, <2>2, <2>3
<1>13. ASSUME NEW k \in 1 .. NAMLEN, Ok(k - 1) PROVE Ok(k)
  <2> DEFINE q == r[k-1]
  <2>1. r[k] = step(q) /\ q \in Answers /\ q.name \in NameStrings
    BY <1>11, <1>13 DEF Answers
  <2>2. q.dev = NAMESPACE => Len(q.name) > k - 1
    BY <1>13
  <2> HIDE DEF q
  <2>3. CASE q.dev # NAMESPACE
    BY <2>1, <2>3 DEF step
  <2>4. CASE q.dev = NAMESPACE
    <3>1. r[k] = NamreplIn(t, q.name)
      BY <2>1, <2>4 DEF step
    <3>2. r[k] \in Answers /\ (r[k].dev = NAMESPACE => Len(r[k].name) > Len(q.name) /\ Len(r[k].name) < NAMLEN)
      BY <2>1, <3>1, NamreplAnswers
    <3>3. Len(q.name) \in Nat /\ Len(r[k].name) \in Nat
      BY <2>1, <3>2 DEF Answers, NameStrings
    <3>4. QED  BY <2>2, <2>4, <3>2, <3>3
  <2>5. QED  BY <2>3, <2>4
<1> HIDE DEF Ok
<1>14. T = {}
  <2>1. SUFFICES ASSUME T # {} PROVE FALSE
    OBVIOUS
  <2>2. T \subseteq Nat
    BY <1>1
  <2>3. PICK k \in T : \A j \in T : k <= j
    BY <2>1, <2>2, MinNat
  <2>4. k \in 1 .. NAMLEN /\ k - 1 \in 0 .. NAMLEN /\ ~(k <= k - 1)
    BY <1>1, <1>12, <2>3
  <2>5. Ok(k - 1)
    BY <2>3, <2>4
  <2>6. QED  BY <1>13, <2>3, <2>4, <2>5
<1>15. Ok(NAMLEN)
  BY <1>1, <1>14
<1>16. QED
  <2>1. r[NAMLEN].dev = NAMESPACE => Len(r[NAMLEN].name) \in Nat /\ Len(r[NAMLEN].name) > NAMLEN /\ Len(r[NAMLEN].name) < NAMLEN
    BY <1>15 DEF Ok, Answers, NameStrings
  <2>2. QED  BY <1>1, <1>10, <2>1

LEMMA InitNames == NetInit => NamesInv
<1> SUFFICES ASSUME NetInit PROVE NamesInv
  OBVIOUS
<1> DEFINE x == CHOOSE l \in Letters : TRUE
<1>1. x \in Letters
  BY NameAssumption
<1> HIDE DEF x
<1>2. nametab = <<Entry(<<x>>, "rfilsys", <<>>), Entry(<<>>, NAMESPACE, <<x>>)>>
  BY DEF NetInit, NameInit, Naminit, x
<1>3. <<x>> \in NameStrings /\ <<>> \in NameStrings /\ <<x>> # <<>> /\ "rfilsys" \in Devs /\ NAMESPACE \in Devs
  BY <1>1 DEF NameStrings, Devs
<1>4. /\ Entry(<<x>>, "rfilsys", <<>>) \in Mappings /\ Entry(<<x>>, "rfilsys", <<>>).npre = <<x>>
      /\ Entry(<<>>, NAMESPACE, <<x>>) \in Mappings /\ Entry(<<>>, NAMESPACE, <<x>>).npre = <<>>
  BY <1>3, EntryIs
<1> DEFINE a == Entry(<<x>>, "rfilsys", <<>>)
           b == Entry(<<>>, NAMESPACE, <<x>>)
<1>5. nametab = <<a, b>> /\ a \in Mappings /\ b \in Mappings /\ a.npre # b.npre
  BY <1>2, <1>3, <1>4
<1> HIDE DEF a, b
<1>6. nametab \in Seq(Mappings) /\ DOMAIN nametab = 1 .. 2 /\ nametab[1] = a /\ nametab[2] = b
  BY ONLY <1>5
<1>7. \A i, j \in 1 .. 2 : nametab[i].npre = nametab[j].npre => i = j
  <2>1. \A i \in 1 .. 2 : i = 1 \/ i = 2
    OBVIOUS
  <2>2. QED  BY ONLY <1>5, <1>6, <2>1
<1>8. QED  BY ONLY <1>6, <1>7 DEF NamesInv

LEMMA NameStep ==
  ASSUME NamesInv, NameNext
  PROVE  NamesInv' /\ Meanings(touched')
<1>1. PICK prefix \in Names :
        /\ Mounts(prefix)
        /\ \/ \E dev \in Devs, replace \in Names : Mount(prefix, dev, replace)
           \/ Unmount(prefix)
  BY DEF NameNext
<1>2. touched' = prefix
  BY <1>1 DEF Mounts
<1>3. CASE Unmount(prefix)
  BY <1>2, <1>3, UnmountKeeps
<1>4. ASSUME NEW dev \in Devs, NEW replace \in Names, Mount(prefix, dev, replace)
      PROVE  NamesInv' /\ Meanings(touched')
  BY <1>2, <1>4, MountKeeps
<1>5. QED  BY <1>1, <1>3, <1>4

LEMMA NextNames ==
  ASSUME NamesInv, [NetNext]_netVars
  PROVE  NamesInv' /\ (NameNext \/ UNCHANGED nameVars)
<1>1. NameNext \/ UNCHANGED nameVars
  BY DEF NetNext, netVars
<1>2. UNCHANGED nameVars => NamesInv'
  BY DEF NamesInv, nameVars
<1>3. QED  BY <1>1, <1>2, NameStep

\* What a step of the name space promises.
Meant(prefix) ==
  /\ Meanings(prefix)
  /\ \A i, j \in DOMAIN nametab' : nametab'[i].npre = nametab'[j].npre => i = j
  /\ Lengthens(nametab') => \A n \in Names : NammapIn(nametab', n).dev # NAMESPACE

LEMMA NamesStepSound ==
  ASSUME NamesInv, [NetNext]_netVars, mounts' # mounts
  PROVE  Meant(touched')
<1>1. NameNext
  BY NextNames DEF nameVars
<1>2. NamesInv' /\ Meanings(touched')
  BY <1>1, NameStep
<1>3. ASSUME Lengthens(nametab'), NEW n \in Names PROVE NammapIn(nametab', n).dev # NAMESPACE
  <2>1. nametab' \in Seq(Mappings)
    BY ONLY <1>2 DEF NamesInv
  <2>2. n \in NameStrings
    BY ONLY NamesAre, n \in Names
  <2>3. QED  BY ONLY <1>3, <2>1, <2>2, NammapEnds
<1>4. QED  BY <1>2, <1>3 DEF Meant, NamesInv

\* namrepl and nammap: mount and unmount change the meaning of no name that does not begin
\* with their prefix, no prefix is twice in the table, the last entry stays the last, and
\* nammap ends where names only get longer, for every table, prefix and replacement.
THEOREM NamesCorrect == NetSpec => NamesSound
<1> DEFINE Step == mounts' # mounts =>
       /\ \A n \in Names : ~IsPrefix(touched', n) => NamreplIn(nametab', n) = NamreplIn(nametab, n)
       /\ \A i, j \in DOMAIN nametab' : nametab'[i].npre = nametab'[j].npre => i = j
       /\ Len(nametab') > Len(nametab) /\ nametab # <<>> => Last(nametab') = Last(nametab)
       /\ (\A i \in DOMAIN nametab' : nametab'[i].ndev = NAMESPACE =>
                                         Len(nametab'[i].nrepl) > Len(nametab'[i].npre))
            => \A n \in Names : NammapIn(nametab', n).dev # NAMESPACE
<1>1. ASSUME NamesInv, [NetNext]_netVars PROVE Step
  BY <1>1, NamesStepSound DEF Meant, Meanings, Lengthens
<1>2. NamesInv /\ [NetNext]_netVars => NamesInv'
  BY NextNames
<1>3. NamesInv /\ [NetNext]_netVars => [Step]_nameVars
  BY <1>1
<1> HIDE DEF Step
<1>4. NetSpec => [][Step]_nameVars
  BY <1>2, <1>3, InitNames, PTL DEF NetSpec
<1>5. QED  BY <1>4 DEF NamesSound, Step
===============================================================================
