------------------------------- MODULE TtyProofs -------------------------------
(***************************************************************************)
(* The terminal line, for all lengths of its queues and any finite number  *)
(* of processes, readers and writers mixed: the units of its two           *)
(* semaphores are accounted for in every reachable state, its rings are    *)
(* never out of step with their counters, and output that may be sent is   *)
(* on its way.  With that, what the rings hold are the streams of AbsTty.  *)
(***************************************************************************)
EXTENDS Tty, ListLemmas, FiniteSetTheorems

------------------------------------------------------------------------------
(* Semaphores: what wait, signal and sreset do to one whose count and queue agree. *)

Sound(s) == s \in [ok : BOOLEAN, n : Int, q : Seq(Procs)] /\ s.ok /\ SemGood(s)

LEMMA ContainsIn ==
  ASSUME NEW s, Sound(s), NEW p
  PROVE  Contains(s.q, p) <=> p \in ToSet(s.q)
<1>1. s.q \in Seq(Procs)
  BY DEF Sound
<1>2. QED  BY <1>1, SetOfList DEF Contains

LEMMA SoundFacts ==
  ASSUME NEW s, Sound(s)
  PROVE  /\ s.ok /\ s.n \in Int /\ s.q \in Seq(Procs) /\ IsInjective(s.q)
         /\ Len(s.q) = (IF s.n < 0 THEN -s.n ELSE 0)
         /\ s = [ok |-> s.ok, n |-> s.n, q |-> s.q]
         /\ s.n >= 0 => s.q = <<>> /\ ToSet(s.q) = {}
<1>1. /\ s.ok /\ s.n \in Int /\ s.q \in Seq(Procs) /\ IsInjective(s.q)
      /\ Len(s.q) = (IF s.n < 0 THEN -s.n ELSE 0)
      /\ s = [ok |-> s.ok, n |-> s.n, q |-> s.q]
  BY DEF Sound, SemGood
<1>2. s.n >= 0 => s.q = <<>> /\ ToSet(s.q) = {}
  BY <1>1, SetOfList
<1>3. QED  BY <1>1, <1>2

LEMMA WaitedSound ==
  ASSUME NEW s, Sound(s), NEW p \in Procs, p \notin ToSet(s.q)
  PROVE  /\ Sound(Waited(s, p)) /\ Waited(s, p).n = s.n - 1
         /\ ToSet(Waited(s, p).q) = IF s.n <= 0 THEN ToSet(s.q) \cup {p} ELSE {}
         /\ Blocks(s) <=> s.n <= 0
<1> DEFINE a == Append(s.q, p)
<1>1. /\ s.ok /\ s.n \in Int /\ s.q \in Seq(Procs) /\ IsInjective(s.q)
      /\ Len(s.q) = (IF s.n < 0 THEN -s.n ELSE 0)
      /\ s = [ok |-> s.ok, n |-> s.n, q |-> s.q]
      /\ s.n >= 0 => s.q = <<>> /\ ToSet(s.q) = {}
  BY SoundFacts
<1>2. /\ a \in Seq(Procs) /\ IsInjective(a) /\ Len(a) = Len(s.q) + 1
      /\ ToSet(a) = ToSet(s.q) \cup {p}
  BY <1>1, AppendDistinct
<1>3. Blocks(s) <=> s.n <= 0
  BY <1>1 DEF Blocks
<1>4. /\ s.n <= 0 => Waited(s, p) = [ok |-> TRUE, n |-> s.n - 1, q |-> a]
      /\ s.n > 0 => Waited(s, p) = [ok |-> TRUE, n |-> s.n - 1, q |-> s.q]
  <2> DEFINE b == IF Blocks(s) THEN a ELSE s.q
  <2>1. Waited(s, p) = [s EXCEPT !.n = s.n - 1, !.q = b]
    BY <1>1 DEF Waited
  <2>2. (s.n <= 0 => b = a) /\ (s.n > 0 => b = s.q)
    BY <1>1, <1>3
  <2> HIDE DEF a, b
  <2>3. Waited(s, p) = [ok |-> TRUE, n |-> s.n - 1, q |-> b]
    BY <1>1, <2>1
  <2>4. QED  BY <2>2, <2>3
<1> HIDE DEF a
<1>5. CASE s.n <= 0
  <2> DEFINE t == [ok |-> TRUE, n |-> s.n - 1, q |-> a]
  <2>1. Len(a) = -(s.n - 1) /\ s.n - 1 < 0
    BY <1>1, <1>2, <1>5
  <2>2. Sound(t)
    BY <1>1, <1>2, <2>1 DEF Sound, SemGood
  <2>3. Waited(s, p) = t /\ t.n = s.n - 1 /\ t.q = a
    BY <1>4, <1>5
  <2> HIDE DEF t
  <2>4. QED  BY <1>2, <1>3, <1>5, <2>2, <2>3
<1>6. CASE s.n > 0
  <2> DEFINE t == [ok |-> TRUE, n |-> s.n - 1, q |-> s.q]
  <2>1. Waited(s, p) = t
    BY <1>4, <1>6, <1>1
  <2>2. /\ t \in [ok : BOOLEAN, n : Int, q : Seq(Procs)] /\ t.ok /\ t.n = s.n - 1 /\ t.q = s.q
        /\ s.n \in Int /\ Len(s.q) = 0 /\ IsInjective(s.q) /\ ToSet(s.q) = {}
    BY <1>1, <1>6
  <2> HIDE DEF t
  <2>3. Sound(t)
    BY <1>6, <2>2 DEF Sound, SemGood
  <2>4. QED  BY <1>3, <1>6, <2>1, <2>2, <2>3
<1>7. QED  BY <1>1, <1>5, <1>6

LEMMA SignaledSound ==
  ASSUME NEW s, Sound(s)
  PROVE  /\ Sound(Signaled(s)) /\ Signaled(s).n = s.n + 1
         /\ s.n < 0 => \E h \in ToSet(s.q) : ToSet(Signaled(s).q) = ToSet(s.q) \ {h}
         /\ s.n >= 0 => ToSet(Signaled(s).q) = {} /\ ToSet(s.q) = {}
<1> DEFINE t == Tail(s.q)
<1>1. /\ s.ok /\ s.n \in Int /\ s.q \in Seq(Procs) /\ IsInjective(s.q)
      /\ Len(s.q) = (IF s.n < 0 THEN -s.n ELSE 0)
      /\ s = [ok |-> s.ok, n |-> s.n, q |-> s.q]
      /\ s.n >= 0 => s.q = <<>> /\ ToSet(s.q) = {}
  BY SoundFacts
<1>2. s.q # <<>> => /\ t \in Seq(Procs) /\ IsInjective(t) /\ Len(t) = Len(s.q) - 1
                    /\ Head(s.q) \in ToSet(s.q) /\ ToSet(t) = ToSet(s.q) \ {Head(s.q)}
  BY <1>1, HeadTailDistinct
<1>3. Signaled(s) = [ok |-> TRUE, n |-> s.n + 1, q |-> IF s.n < 0 THEN t ELSE s.q]
  BY <1>1 DEF Signaled, Frees
<1>4. s.n < 0 => s.q # <<>>
  BY <1>1
<1> HIDE DEF t
<1>5. CASE s.n < 0
  <2>1. Sound(Signaled(s)) /\ Signaled(s).n = s.n + 1 /\ Signaled(s).q = t
    BY <1>1, <1>2, <1>3, <1>4, <1>5 DEF Sound, SemGood
  <2>2. QED  BY <1>1, <1>2, <1>4, <1>5, <2>1
<1>6. CASE s.n >= 0
  BY <1>1, <1>3, <1>6 DEF Sound, SemGood
<1>7. QED  BY <1>1, <1>5, <1>6

LEMMA SignaledBySound ==
  ASSUME NEW s, Sound(s), NEW k \in Nat
  PROVE  /\ Sound(SignaledBy(s, k)) /\ SignaledBy(s, k).n = s.n + k
         /\ ToSet(SignaledBy(s, k).q) \subseteq ToSet(s.q)
<1> DEFINE j == IF ~Frees(s) THEN 0 ELSE IF k < -s.n THEN k ELSE -s.n
           b == SubSeq(s.q, 1 + j, Len(s.q))
<1>1. /\ s.ok /\ s.n \in Int /\ s.q \in Seq(Procs) /\ IsInjective(s.q)
      /\ Len(s.q) = (IF s.n < 0 THEN -s.n ELSE 0)
      /\ s = [ok |-> s.ok, n |-> s.n, q |-> s.q]
  BY SoundFacts
<1>2. /\ j \in 0 .. Len(s.q) /\ 1 + j = j + 1
      /\ Len(s.q) - j = (IF s.n + k < 0 THEN -(s.n + k) ELSE 0)
  BY <1>1 DEF Frees
<1>3. SignaledBy(s, k) = [s EXCEPT !.n = s.n + k, !.q = b]
  BY DEF SignaledBy
<1>4. b = SubSeq(s.q, j + 1, Len(s.q))
  BY <1>2
<1> HIDE DEF j
<1>5. b \in Seq(Procs) /\ IsInjective(b) /\ Len(b) = Len(s.q) - j /\ ToSet(b) \subseteq ToSet(s.q)
  <2> DEFINE q == s.q
  <2>1. q \in Seq(Procs) /\ IsInjective(q) /\ j \in 0 .. Len(q) /\ b = SubSeq(q, j + 1, Len(q))
    BY <1>1, <1>2, <1>4
  <2> HIDE DEF b, q
  <2>2. b \in Seq(Procs) /\ IsInjective(b) /\ Len(b) = Len(q) - j /\ ToSet(b) \subseteq ToSet(q)
    BY <2>1, SplitDistinct
  <2>3. QED  BY <2>2 DEF q
<1> HIDE DEF b
<1> DEFINE t == [ok |-> TRUE, n |-> s.n + k, q |-> b]
<1>6. SignaledBy(s, k) = t
  BY <1>1, <1>3
<1>7. t.ok /\ t.n = s.n + k /\ t.q = b /\ t \in [ok : BOOLEAN, n : Int, q : Seq(Procs)]
  BY <1>1, <1>5
<1> HIDE DEF t
<1>8. Sound(t)
  BY <1>1, <1>2, <1>5, <1>7 DEF Sound, SemGood
<1>9. QED  BY <1>5, <1>6, <1>7, <1>8

LEMMA NewSound ==
  ASSUME NEW n \in Nat
  PROVE  Sound(Sem(n)) /\ Sem(n).n = n /\ Sem(n).q = <<>> /\ ToSet(Sem(n).q) = {}
<1>1. /\ Sem(n) = [ok |-> TRUE, n |-> n, q |-> <<>>] /\ -n <= 0
      /\ ToSet(<<>>) = {} /\ IsInjective(<<>>) /\ Len(<<>>) = 0 /\ <<>> \in Seq(Procs)
  BY DEF Sem, ToSet, IsInjective
<1> DEFINE t == [ok |-> TRUE, n |-> n, q |-> <<>>]
<1>2. t \in [ok : BOOLEAN, n : Int, q : Seq(Procs)] /\ t.ok /\ t.n = n /\ t.q = <<>>
  BY <1>1
<1> HIDE DEF t
<1>3. Sound(t) /\ ToSet(t.q) = {}
  BY <1>1, <1>2 DEF Sound, SemGood
<1>4. Sem(n) = t
  BY <1>1 DEF t
<1>5. QED  BY <1>2, <1>3, <1>4

LEMMA RoundTyped ==
  ASSUME NEW a \in Int, NEW n \in Nat \ {0}
  PROVE  a % n \in 0 .. n - 1 /\ a \div n \in Int /\ a = n * (a \div n) + (a % n)
OBVIOUS

LEMMA Multiple ==
  ASSUME NEW q \in Int, NEW n \in Nat \ {0}
  PROVE  (n * q) % n = 0
OBVIOUS

\* What is a multiple of n stays one when a number in it is reduced modulo n.
LEMMA Reduced ==
  ASSUME NEW x \in Int, NEW a \in Int, NEW n \in Nat \ {0}, x % n = 0
  PROVE  (x - a + (a % n)) % n = 0 /\ (x + a - (a % n)) % n = 0
<1> DEFINE p == x \div n
           q == a \div n
           r == a % n
<1>1. p \in Int /\ x = n * p
  BY RoundTyped
<1>2. q \in Int /\ r \in Int /\ a = n * q + r
  BY RoundTyped
<1> HIDE DEF p, q, r
<1>3. x - a + r = n * (p - q) /\ x + a - r = n * (p + q)
  BY ONLY <1>1, <1>2, n \in Nat \ {0}
<1>4. p - q \in Int /\ p + q \in Int
  BY <1>1, <1>2
<1>5. (n * (p - q)) % n = 0 /\ (n * (p + q)) % n = 0
  BY <1>4, Multiple
<1>6. QED  BY <1>3, <1>5 DEF r

------------------------------------------------------------------------------
(* The control block, and what sending characters does to it. *)

\* Strings: the provers do not know a string when they see it.
Codes == STRING \cup Keys \cup {"CR"}

SemSet == [ok : BOOLEAN, n : Int, q : Seq(Procs)]
IPlaces == 0 .. IBUFLEN - 1
OPlaces == 0 .. OBUFLEN - 1
Ttys ==
  [ibuff : [IPlaces -> Codes], ihead : IPlaces, itail : IPlaces, icnt : Int, icursor : IPlaces, isem : SemSet,
   imode : {"RAW", "COOKED", "CBREAK"}, iecho : BOOLEAN, iintr : BOOLEAN, iintpid : Procs \cup {Nobody},
   obuff : [OPlaces -> Codes], ohead : OPlaces, otail : OPlaces, ocnt : Nat, osem : SemSet,
   odsend : 0 .. OBMINSP - 1, oheld : BOOLEAN, ecnt : 0 .. EBUFLEN - 1, txint : BOOLEAN]

LEMMA Sizes ==
  /\ IBUFLEN \in Nat \ {0} /\ OBUFLEN \in Nat \ {0} /\ EBUFLEN \in Nat \ {0} /\ OBMINSP \in Nat \ {0}
  /\ OBMINSP < OBUFLEN
BY TtyAssumption

\* The two halves of the control block: a step of one leaves the fields of the other.
SameIn(t, u) ==
  /\ u.ibuff = t.ibuff /\ u.ihead = t.ihead /\ u.itail = t.itail /\ u.icnt = t.icnt /\ u.icursor = t.icursor
  /\ u.isem = t.isem /\ u.imode = t.imode /\ u.iecho = t.iecho /\ u.iintr = t.iintr /\ u.iintpid = t.iintpid
SameOut(t, u) ==
  /\ u.obuff = t.obuff /\ u.ohead = t.ohead /\ u.otail = t.otail /\ u.ocnt = t.ocnt /\ u.osem = t.osem
  /\ u.odsend = t.odsend /\ u.oheld = t.oheld /\ u.ecnt = t.ecnt /\ u.txint = t.txint

OutRing(t) == (t.ohead - t.otail - t.ocnt) % OBUFLEN = 0
OutGood(t) == t \in Ttys /\ Sound(t.osem) /\ OutRing(t)

\* The units of osem that are somewhere: with the semaphore, kept back, or for a character.
OutSum(t) == t.osem.n + t.odsend + t.ocnt
Started(t) == (t.ocnt > 0 /\ ~t.oheld) \/ t.ecnt > 0 => t.txint

\* What sending does.
Sends(t, u) ==
  /\ OutGood(u) /\ OutSum(u) = OutSum(t) /\ ToSet(u.osem.q) \subseteq ToSet(t.osem.q)
  /\ SameIn(t, u) /\ u.oheld = t.oheld

LEMMA SendsOn ==
  ASSUME NEW t, NEW u, NEW v, Sends(t, u), Sends(u, v)
  PROVE  Sends(t, v)
BY DEF Sends, SameIn

LEMMA TakenRing ==
  ASSUME NEW t, OutGood(t)
  PROVE  (t.ohead - ((t.otail + 1) % OBUFLEN) - (t.ocnt - 1)) % OBUFLEN = 0
         /\ (t.otail + 1) % OBUFLEN \in OPlaces
<1> DEFINE x == t.ohead - t.otail - t.ocnt
           a == t.otail + 1
<1>1. t.ohead \in Int /\ t.otail \in Int /\ t.ocnt \in Int
  BY Sizes DEF OutGood, Ttys, OPlaces
<1>2. x \in Int /\ a \in Int /\ x % OBUFLEN = 0 /\ OBUFLEN \in Nat \ {0}
  BY <1>1, Sizes DEF OutGood, OutRing
<1> HIDE DEF a
<1>3. (x + a - (a % OBUFLEN)) % OBUFLEN = 0 /\ a % OBUFLEN \in 0 .. OBUFLEN - 1
  BY <1>2, Reduced, RoundTyped
<1>4. x + a - (a % OBUFLEN) = t.ohead - (a % OBUFLEN) - (t.ocnt - 1)
  BY <1>1, <1>3 DEF a
<1>5. QED  BY <1>3, <1>4 DEF a, OPlaces

LEMMA SignaledSubset ==
  ASSUME NEW s, Sound(s)
  PROVE  /\ Sound(Signaled(s)) /\ Signaled(s).n = s.n + 1
         /\ ToSet(Signaled(s).q) \subseteq ToSet(s.q)
<1> DEFINE u == Signaled(s)
<1>1. Sound(u) /\ u.n = s.n + 1 /\ s.n \in Int
  BY SignaledSound, SoundFacts
<1>2. /\ s.n < 0 => \E h \in ToSet(s.q) : ToSet(u.q) = ToSet(s.q) \ {h}
      /\ s.n >= 0 => ToSet(u.q) = {}
  BY SignaledSound
<1>3. s.n < 0 \/ s.n >= 0
  BY <1>1
<1> HIDE DEF u
<1>4. ToSet(u.q) \subseteq ToSet(s.q)
  BY ONLY <1>2, <1>3, Zenon
<1>5. QED  BY <1>1, <1>4 DEF u

LEMMA TtyoinSends ==
  ASSUME NEW t, OutGood(t), t.txint
  PROVE  Sends(t, Ttyoin(t)) /\ Started(Ttyoin(t))
<1> DEFINE tail == (t.otail + 1) % OBUFLEN
<1>1. t \in Ttys /\ Sound(t.osem) /\ t.ocnt \in Nat /\ t.ecnt \in 0 .. EBUFLEN - 1 /\ t.odsend \in 0 .. OBMINSP - 1
      /\ t.osem.n \in Int /\ OutRing(t)
  BY DEF OutGood, Ttys, SemSet
<1>2. (t.ohead - tail - (t.ocnt - 1)) % OBUFLEN = 0 /\ tail \in OPlaces
  BY TakenRing
<1> HIDE DEF tail
<1>3. CASE t.ecnt # 0
  <2> DEFINE u == [t EXCEPT !.ecnt = t.ecnt - 1]
  <2>1. u = Ttyoin(t)
    BY <1>3 DEF Ttyoin
  <2>2. /\ u \in Ttys /\ SameIn(t, u) /\ u.osem = t.osem /\ u.odsend = t.odsend /\ u.ocnt = t.ocnt
        /\ u.ohead = t.ohead /\ u.otail = t.otail /\ u.txint /\ u.oheld = t.oheld
    BY <1>1, <1>3, Sizes DEF Ttys, SameIn
  <2> HIDE DEF u
  <2>3. QED  BY <1>1, <2>1, <2>2 DEF Sends, OutGood, OutSum, Started, OutRing
<1>4. CASE t.ecnt = 0 /\ (t.oheld \/ t.ocnt = 0)
  <2> DEFINE u == [t EXCEPT !.txint = FALSE]
  <2>1. u = Ttyoin(t)
    BY <1>4 DEF Ttyoin
  <2>2. /\ u \in Ttys /\ SameIn(t, u) /\ u.osem = t.osem /\ u.odsend = t.odsend /\ u.ocnt = t.ocnt
        /\ u.ohead = t.ohead /\ u.otail = t.otail /\ u.ecnt = t.ecnt /\ u.oheld = t.oheld
    BY <1>1, Sizes DEF Ttys, SameIn
  <2> HIDE DEF u
  <2>3. QED  BY <1>1, <1>4, <2>1, <2>2 DEF Sends, OutGood, OutSum, Started, OutRing
<1>5. CASE t.ecnt = 0 /\ ~(t.oheld \/ t.ocnt = 0)
  <2>1. PICK s, d : /\ Sound(s) /\ d \in 0 .. OBMINSP - 1 /\ s.n + d = t.osem.n + t.odsend + 1
                    /\ ToSet(s.q) \subseteq ToSet(t.osem.q)
                    /\ Ttyoin(t) = [t EXCEPT !.ocnt = t.ocnt - 1, !.otail = tail, !.osem = s, !.odsend = d]
    <3> DEFINE v == [t EXCEPT !.ocnt = t.ocnt - 1, !.otail = tail]
    <3>1. v.osem = t.osem /\ v.odsend = t.odsend
      BY <1>1 DEF Ttys
    <3>2. CASE t.ocnt > OBMINSP
      <4>1. Ttyoin(t) = [v EXCEPT !.osem = Signaled(t.osem)]
        BY <1>5, <3>1, <3>2 DEF Ttyoin, tail
      <4>2. Ttyoin(t) = [t EXCEPT !.ocnt = t.ocnt - 1, !.otail = tail, !.osem = Signaled(t.osem), !.odsend = t.odsend]
        BY <1>1, <4>1 DEF Ttys
      <4>3. Sound(Signaled(t.osem)) /\ Signaled(t.osem).n = t.osem.n + 1
            /\ ToSet(Signaled(t.osem).q) \subseteq ToSet(t.osem.q)
        BY <1>1, SignaledSubset
      <4>4. t.osem.n + 1 + t.odsend = t.osem.n + t.odsend + 1
        BY <1>1
      <4>5. QED  BY <1>1, <4>2, <4>3, <4>4
    <3>3. CASE ~(t.ocnt > OBMINSP) /\ t.odsend + 1 = OBMINSP
      <4>1. Ttyoin(t) = [v EXCEPT !.odsend = 0, !.osem = SignaledBy(t.osem, OBMINSP)]
        BY <1>5, <3>1, <3>3 DEF Ttyoin, tail
      <4>2. Ttyoin(t) = [t EXCEPT !.ocnt = t.ocnt - 1, !.otail = tail, !.osem = SignaledBy(t.osem, OBMINSP), !.odsend = 0]
        BY <1>1, <4>1 DEF Ttys
      <4>3. Sound(SignaledBy(t.osem, OBMINSP)) /\ SignaledBy(t.osem, OBMINSP).n = t.osem.n + OBMINSP
            /\ ToSet(SignaledBy(t.osem, OBMINSP).q) \subseteq ToSet(t.osem.q)
        BY <1>1, Sizes, SignaledBySound
      <4>4. t.osem.n + OBMINSP + 0 = t.osem.n + t.odsend + 1 /\ 0 \in 0 .. OBMINSP - 1
        BY <1>1, <3>3, Sizes
      <4>5. QED  BY <4>2, <4>3, <4>4
    <3>4. CASE ~(t.ocnt > OBMINSP) /\ t.odsend + 1 # OBMINSP
      <4>1. Ttyoin(t) = [v EXCEPT !.odsend = t.odsend + 1]
        BY <1>5, <3>1, <3>4 DEF Ttyoin, tail
      <4>2. Ttyoin(t) = [t EXCEPT !.ocnt = t.ocnt - 1, !.otail = tail, !.osem = t.osem, !.odsend = t.odsend + 1]
        BY <1>1, <4>1 DEF Ttys
      <4>3. t.osem.n + (t.odsend + 1) = t.osem.n + t.odsend + 1 /\ t.odsend + 1 \in 0 .. OBMINSP - 1
        BY <1>1, <3>4, Sizes
      <4>4. QED  BY <1>1, <4>2, <4>3
    <3>5. QED  BY <3>2, <3>3, <3>4
  <2> DEFINE u == [t EXCEPT !.ocnt = t.ocnt - 1, !.otail = tail, !.osem = s, !.odsend = d]
  <2>2. u = Ttyoin(t)
    BY <2>1
  <2>3. s \in SemSet /\ t.ocnt - 1 \in Nat
    BY <1>1, <1>5, <2>1 DEF Sound, SemSet
  <2>4. /\ u \in Ttys /\ SameIn(t, u) /\ u.osem = s /\ u.odsend = d /\ u.ocnt = t.ocnt - 1
        /\ u.ohead = t.ohead /\ u.otail = tail /\ u.txint /\ u.oheld = t.oheld
    BY <1>1, <1>2, <2>1, <2>3 DEF Ttys, SameIn
  <2> HIDE DEF u
  <2>5. OutSum(u) = OutSum(t)
    <3>1. s.n \in Int /\ d \in Int
      BY <2>1, SoundFacts
    <3>2. QED  BY <1>1, <2>1, <2>4, <3>1 DEF OutSum
  <2>6. QED  BY <1>2, <2>1, <2>2, <2>4, <2>5 DEF Sends, OutGood, Started, OutRing
<1>6. QED  BY <1>3, <1>4, <1>5

LEMMA TtyostartSends ==
  ASSUME NEW t, OutGood(t)
  PROVE  Sends(t, Ttyostart(t)) /\ Started(Ttyostart(t))
<1>1. CASE t.txint
  BY <1>1 DEF Ttyostart, Sends, SameIn, Started
<1>2. CASE ~t.txint
  <2> DEFINE u == [t EXCEPT !.txint = TRUE]
  <2>1. Ttyostart(t) = Ttyoin(u)
    BY <1>2 DEF Ttyostart
  <2>2. /\ u \in Ttys /\ SameIn(t, u) /\ u.osem = t.osem /\ u.odsend = t.odsend /\ u.ocnt = t.ocnt
        /\ u.ohead = t.ohead /\ u.otail = t.otail /\ u.ecnt = t.ecnt /\ u.oheld = t.oheld /\ u.txint
    BY DEF OutGood, Ttys, SameIn
  <2> HIDE DEF u
  <2>3. Sends(t, u)
    BY <2>2 DEF Sends, OutGood, OutSum, OutRing
  <2>4. Sends(u, Ttyoin(u)) /\ Started(Ttyoin(u))
    BY <2>2, <2>3, TtyoinSends DEF Sends
  <2>5. QED  BY <2>1, <2>3, <2>4, SendsOn
<1>3. QED  BY <1>1, <1>2

------------------------------------------------------------------------------
(* Loops and eputc. *)

\* A set of indexes that has 0, and the next one after each of its own, has them all.
LEMMA UpTo ==
  ASSUME NEW n \in Nat, NEW T, 0 \in T, \A k \in 1 .. n : k - 1 \in T => k \in T
  PROVE  \A k \in 0 .. n : k \in T
<1> DEFINE F == {k \in 0 .. n : k \notin T}
<1>1. SUFFICES ASSUME F # {} PROVE FALSE
  OBVIOUS
<1>2. PICK k \in F : \A j \in F : k <= j
  <2>1. F \subseteq Nat
    OBVIOUS
  <2>2. Min(F) \in F /\ \A y \in F : Min(F) <= y
    BY <1>1, <2>1, MinNat
  <2>3. QED  BY <2>2
<1>3. k \in 1 .. n /\ k - 1 \in 0 .. n /\ ~(k <= k - 1)
  BY <1>2
<1>4. k - 1 \in T
  BY <1>2, <1>3
<1>5. QED  BY <1>2, <1>3, <1>4

\* A loop whose step is g within S stays there.
LEMMA LoopIn ==
  ASSUME NEW S, NEW s \in S, NEW g \in [S -> S], NEW n \in Nat, NEW r, r[0] = s,
         \A k \in 1 .. n : r[k-1] \in S => r[k] = g[r[k-1]]
  PROVE  \A k \in 0 .. n : r[k] \in S
<1> DEFINE T == {k \in 0 .. n : r[k] \in S}
<1>1. 0 \in T
  OBVIOUS
<1>2. ASSUME NEW k \in 1 .. n, k - 1 \in T PROVE k \in T
  <2>1. k \in 0 .. n /\ r[k] = g[r[k-1]]
    BY <1>2
  <2>2. QED  BY <1>2, <2>1
<1> HIDE DEF T
<1>3. \A k \in 0 .. n : k \in T
  BY ONLY <1>1, <1>2, n \in Nat, UpTo
<1>4. QED  BY <1>3 DEF T

\* One call of eputc.
Eput(t) == Ttyostart([t EXCEPT !.ecnt = (@ + 1) % EBUFLEN])

LEMMA EputSends ==
  ASSUME NEW t, OutGood(t)
  PROVE  Sends(t, Eput(t)) /\ Started(Eput(t)) /\ Eput(t) \in Ttys
<1> DEFINE e == (t.ecnt + 1) % EBUFLEN
           u == [t EXCEPT !.ecnt = e]
<1>1. e \in 0 .. EBUFLEN - 1
  <2>1. t.ecnt + 1 \in Int
    BY Sizes DEF OutGood, Ttys
  <2>2. QED  BY <2>1, RoundTyped, Sizes
<1>2. Eput(t) = Ttyostart(u)
  BY DEF Eput
<1> HIDE DEF e
<1>3. /\ u \in Ttys /\ SameIn(t, u) /\ u.osem = t.osem /\ u.odsend = t.odsend /\ u.ocnt = t.ocnt
      /\ u.ohead = t.ohead /\ u.otail = t.otail /\ u.oheld = t.oheld
  BY <1>1 DEF OutGood, Ttys, SameIn
<1> HIDE DEF u
<1>4. Sends(t, u)
  BY <1>3 DEF Sends, OutGood, OutSum, OutRing
<1>5. Sends(u, Ttyostart(u)) /\ Started(Ttyostart(u))
  BY <1>4, TtyostartSends DEF Sends
<1>6. QED  BY <1>2, <1>4, <1>5, SendsOn DEF Sends, OutGood

LEMMA EputcSends ==
  ASSUME NEW t, OutGood(t), NEW n \in Nat \ {0}
  PROVE  Sends(t, Eputc(t, n)) /\ Started(Eputc(t, n))
<1> DEFINE S == {u \in Ttys : Sends(t, u)}
           g == [u \in S |-> Eput(u)]
           Loop(f) == f = [i \in 0 .. n |-> IF i = 0 THEN t ELSE Eput(f[i-1])]
<1>1. t \in S
  BY DEF Sends, SameIn, OutGood
<1>2. ASSUME NEW u \in S PROVE Eput(u) \in S
  <2>1. Sends(t, u) /\ OutGood(u)
    BY DEF Sends
  <2>2. QED  BY <2>1, EputSends, SendsOn
<1>3. g \in [S -> S] /\ \A u \in S : g[u] = Eput(u)
  BY <1>2
<1> HIDE DEF S, g, Loop
<1>4. PICK f : Iterates(f, n, S, g, t)
  BY ONLY <1>1, <1>3, n \in Nat, Iterated
<1>5. f \in [0 .. n -> S] /\ f[0] = t /\ \A i \in 1 .. n : f[i] = g[f[i-1]]
  BY ONLY <1>4 DEF Iterates
<1>6. \A i \in 0 .. n : f[i] = IF i = 0 THEN t ELSE Eput(f[i-1])
  <2>1. TAKE i \in 0 .. n
  <2>2. CASE i # 0
    <3>1. i - 1 \in 0 .. n /\ i \in 1 .. n
      BY <2>2
    <3>2. f[i-1] \in S
      BY <1>5, <3>1
    <3>3. QED  BY <1>3, <1>5, <2>2, <3>1, <3>2
  <2>3. QED  BY <1>5, <2>2
<1>7. Loop(f)
  BY ONLY <1>5, <1>6 DEF Loop
<1> DEFINE r == CHOOSE x : Loop(x)
<1>8. Loop(r)
  BY <1>7
<1>9. Eputc(t, n) = r[n]
  BY DEF Eputc, Loop, Eput
<1> HIDE DEF r
<1>10. r[0] = t /\ \A k \in 1 .. n : r[k] = Eput(r[k-1])
  <2>1. 0 \in 0 .. n /\ \A k \in 1 .. n : k \in 0 .. n /\ k # 0
    OBVIOUS
  <2>2. QED  BY ONLY <1>8, <2>1 DEF Loop
<1>11. \A k \in 0 .. n : r[k] \in S
  <2>1. \A k \in 1 .. n : r[k-1] \in S => r[k] = g[r[k-1]]
    BY <1>3, <1>10
  <2>2. QED  BY ONLY <1>1, <1>3, <1>10, <2>1, n \in Nat, LoopIn
<1>12. QED
  <2>1. n - 1 \in 0 .. n /\ n \in 1 .. n /\ n \in 0 .. n
    OBVIOUS
  <2>2. Sends(t, r[n]) /\ OutGood(r[n-1]) /\ r[n] = Eput(r[n-1])
    BY <1>10, <1>11, <2>1 DEF S, Sends
  <2>3. QED  BY <1>9, <2>2, EputSends

------------------------------------------------------------------------------
(* What a character from the line does: the ring keeps the finished characters and the line
   being typed, and every unit of a semaphore stays accounted for. *)

InRing(t) == (t.ihead - t.itail - t.icnt - t.icursor) % IBUFLEN = 0
InGood(t) == t \in Ttys /\ Sound(t.isem) /\ InRing(t)
Good(t) == InGood(t) /\ OutGood(t)

\* The units of isem beyond the finished characters.
InSum(t) == t.isem.n - t.icnt

\* Output that was on its way still is.
Due(t, u) == Started(u) \/ (u.ocnt = t.ocnt /\ u.ecnt = t.ecnt /\ u.txint = t.txint /\ (t.oheld => u.oheld))

\* What a character from the line does to the control block.
Types(t, u) ==
  /\ Good(u)
  /\ InSum(u) = InSum(t) /\ ToSet(u.isem.q) \subseteq ToSet(t.isem.q)
  /\ OutSum(u) = OutSum(t) /\ ToSet(u.osem.q) \subseteq ToSet(t.osem.q)
  /\ Due(t, u)

LEMMA TypesOn ==
  ASSUME NEW t, NEW u, NEW v, Types(t, u), Types(u, v)
  PROVE  Types(t, v)
<1>1. Due(t, v)
  <2>1. Due(t, u) /\ Due(u, v)
    BY DEF Types
  <2>2. QED  BY ONLY <2>1 DEF Due, Started
<1>2. QED  BY <1>1 DEF Types

LEMMA SendTypes ==
  ASSUME NEW t, NEW u, Good(t), Sends(t, u), Due(t, u)
  PROVE  Types(t, u)
<1>1. SameIn(t, u) /\ OutGood(u) /\ u \in Ttys
  BY DEF Sends, OutGood
<1>2. InGood(u) /\ InSum(u) = InSum(t) /\ u.isem = t.isem
  BY <1>1 DEF Good, InGood, SameIn, InRing, InSum
<1>3. QED  BY <1>1, <1>2 DEF Types, Good, Sends

LEMMA EputcTypes ==
  ASSUME NEW t, Good(t), NEW n \in Nat \ {0}
  PROVE  Types(t, Eputc(t, n))
<1>1. Sends(t, Eputc(t, n)) /\ Started(Eputc(t, n))
  BY EputcSends DEF Good
<1>2. QED  BY <1>1, SendTypes DEF Due

LEMMA StartTypes ==
  ASSUME NEW t, Good(t)
  PROVE  Types(t, Ttyostart(t))
<1>1. Sends(t, Ttyostart(t)) /\ Started(Ttyostart(t))
  BY TtyostartSends DEF Good
<1>2. QED  BY <1>1, SendTypes DEF Due

LEMMA InTypes ==
  ASSUME NEW t, NEW u, Good(t), InGood(u), SameOut(t, u), InSum(u) = InSum(t),
         ToSet(u.isem.q) \subseteq ToSet(t.isem.q)
  PROVE  Types(t, u)
<1>1. OutGood(u) /\ OutSum(u) = OutSum(t) /\ u.osem = t.osem
  BY DEF Good, InGood, OutGood, SameOut, OutRing, OutSum
<1>2. Due(t, u)
  BY DEF Due, SameOut
<1>3. QED  BY <1>1, <1>2 DEF Types, Good

LEMMA SameTypes ==
  ASSUME NEW t, Good(t)
  PROVE  Types(t, t)
BY InTypes DEF Good, SameOut

LEMMA GoodFacts ==
  ASSUME NEW t, Good(t)
  PROVE  /\ t \in Ttys /\ Sound(t.isem) /\ Sound(t.osem) /\ InRing(t) /\ OutRing(t)
         /\ t.ihead \in IPlaces /\ t.itail \in IPlaces /\ t.icnt \in Int /\ t.icursor \in IPlaces
         /\ t.isem.n \in Int /\ t.ibuff \in [IPlaces -> Codes]
         /\ t.ihead \in Int /\ t.itail \in Int /\ t.icursor \in Nat /\ t.isem \in SemSet
BY Sizes DEF Good, InGood, OutGood, Ttys, IPlaces, SemSet

\* A ring's end that moves by as much as the rest of the account stays in it.
LEMMA InRingMoved ==
  ASSUME NEW t, Good(t), NEW h \in Int, NEW c \in Int, NEW l \in Int, NEW a \in Int,
         h = t.ihead + a, c + l = t.icnt + t.icursor + a
  PROVE  h % IBUFLEN \in IPlaces /\ ((h % IBUFLEN) - t.itail - c - l) % IBUFLEN = 0
<1> DEFINE x == h - t.itail - c - l
<1>1. /\ t.ihead \in Int /\ t.itail \in Int /\ t.icnt \in Int /\ t.icursor \in Int
      /\ (t.ihead - t.itail - t.icnt - t.icursor) % IBUFLEN = 0
  BY GoodFacts DEF InRing
<1>2. x \in Int /\ x = t.ihead - t.itail - t.icnt - t.icursor
  BY <1>1
<1>3. x % IBUFLEN = 0
  BY <1>1, <1>2
<1> HIDE DEF x
<1>4. (x - h + (h % IBUFLEN)) % IBUFLEN = 0 /\ h % IBUFLEN \in 0 .. IBUFLEN - 1
  <2>1. x \in Int /\ IBUFLEN \in Nat \ {0} /\ h \in Int
    BY <1>2, Sizes
  <2>2. (x - h + (h % IBUFLEN)) % IBUFLEN = 0
    BY ONLY <1>3, <2>1, Reduced
  <2>3. h % IBUFLEN \in 0 .. IBUFLEN - 1
    BY ONLY <2>1, RoundTyped
  <2>4. QED  BY <2>2, <2>3
<1>5. x - h + (h % IBUFLEN) = (h % IBUFLEN) - t.itail - c - l
  BY <1>1, <1>4 DEF x
<1>6. QED  BY <1>4, <1>5 DEF IPlaces

\* Accepting a character that makes k more of them ready, with k signals.
LEMMA ReadyTypes ==
  ASSUME NEW t, Good(t), NEW ch \in Codes, NEW k \in Nat, NEW l \in IPlaces, k + l = t.icursor + 1
  PROVE  Types(t, [Available(Accept(t, ch), k) EXCEPT !.icursor = l])
<1> DEFINE h == (t.ihead + 1) % IBUFLEN
           b == [t.ibuff EXCEPT ![t.ihead] = ch]
           s == SignaledBy(t.isem, k)
           u == [t EXCEPT !.ibuff = b, !.ihead = h, !.icnt = t.icnt + k, !.isem = s, !.icursor = l]
<1>1. /\ t \in Ttys /\ t.ihead \in Int /\ t.icnt \in Int /\ t.icursor \in Nat /\ t.isem.n \in Int
      /\ Sound(t.isem) /\ t.ibuff \in [IPlaces -> Codes]
  BY GoodFacts
<1>2. Sound(s) /\ s.n = t.isem.n + k /\ ToSet(s.q) \subseteq ToSet(t.isem.q) /\ s \in SemSet
  BY <1>1, SignaledBySound DEF Sound, SemSet
<1>3. h \in IPlaces /\ (h - t.itail - (t.icnt + k) - l) % IBUFLEN = 0
  <2> DEFINE end == t.ihead + 1
             c == t.icnt + k
  <2>1. end \in Int /\ c \in Int /\ l \in Int /\ 1 \in Int /\ end = t.ihead + 1 /\ c + l = t.icnt + t.icursor + 1
    <3>1. l \in Int
      BY Sizes DEF IPlaces
    <3>2. QED  BY ONLY <1>1, <3>1, k \in Nat, k + l = t.icursor + 1 DEF end, c
  <2> HIDE DEF end, c
  <2>2. end % IBUFLEN \in IPlaces /\ ((end % IBUFLEN) - t.itail - c - l) % IBUFLEN = 0
    BY ONLY <2>1, Good(t), InRingMoved
  <2>3. QED  BY <2>2 DEF end, c
<1>4. b \in [IPlaces -> Codes]
  BY <1>1
<1>5. [Available(Accept(t, ch), k) EXCEPT !.icursor = l] = u
  <2>1. Accept(t, ch) = [t EXCEPT !.ibuff = b, !.ihead = h]
    BY DEF Accept
  <2> DEFINE a == [t EXCEPT !.ibuff = b, !.ihead = h]
  <2> HIDE DEF b, h, s
  <2>2. a \in Ttys /\ a.icnt = t.icnt /\ a.isem = t.isem
    <3>1. t \in Ttys /\ h \in IPlaces
      BY <1>1, <1>3
    <3>2. QED  BY ONLY <1>4, <3>1 DEF Ttys
  <2>3. Available(a, k) = [a EXCEPT !.icnt = t.icnt + k, !.isem = SignaledBy(t.isem, k)]
    BY <2>2 DEF Available
  <2>4. [Available(a, k) EXCEPT !.icursor = l]
          = [t EXCEPT !.ibuff = b, !.ihead = h, !.icnt = t.icnt + k, !.isem = SignaledBy(t.isem, k), !.icursor = l]
    BY <1>1, <2>3 DEF Ttys
  <2>5. QED  BY <2>1, <2>4 DEF s
<1> HIDE DEF h, b, s
<1>6. t.icnt + k \in Int
  BY <1>1
<1>7. /\ u \in Ttys /\ SameOut(t, u) /\ u.isem = s /\ u.icnt = t.icnt + k /\ u.ihead = h /\ u.itail = t.itail
      /\ u.icursor = l /\ u.iintr = t.iintr /\ u.iintpid = t.iintpid
  <2>1. u \in Ttys
    <3>1. t \in Ttys /\ h \in IPlaces /\ s \in SemSet
      BY <1>1, <1>2, <1>3
    <3>2. QED  BY ONLY <1>4, <1>6, <3>1, l \in IPlaces DEF Ttys
  <2>2. /\ SameOut(t, u) /\ u.isem = s /\ u.icnt = t.icnt + k /\ u.ihead = h /\ u.itail = t.itail
        /\ u.icursor = l /\ u.iintr = t.iintr /\ u.iintpid = t.iintpid
    BY <1>1 DEF Ttys, SameOut
  <2>3. QED  BY <2>1, <2>2
<1> HIDE DEF u
<1>8. InGood(u) /\ InSum(u) = InSum(t)
  BY <1>1, <1>2, <1>3, <1>7 DEF InGood, InRing, InSum
<1>9. QED  BY <1>2, <1>5, <1>7, <1>8, InTypes

\* Moving the ring's end and the line's together.
LEMMA LineTypes ==
  ASSUME NEW t, Good(t), NEW b \in [IPlaces -> Codes], NEW a \in Int, t.icursor + a \in IPlaces
  PROVE  Types(t, [t EXCEPT !.ibuff = b, !.ihead = (t.ihead + a) % IBUFLEN, !.icursor = t.icursor + a])
<1> DEFINE h == (t.ihead + a) % IBUFLEN
           u == [t EXCEPT !.ibuff = b, !.ihead = h, !.icursor = t.icursor + a]
<1>1. /\ t \in Ttys /\ t.ihead \in Int /\ t.icnt \in Int /\ t.icursor \in Int /\ t.isem.n \in Int
      /\ Sound(t.isem)
  BY GoodFacts
<1>2. h \in IPlaces /\ (h - t.itail - t.icnt - (t.icursor + a)) % IBUFLEN = 0
  <2> DEFINE end == t.ihead + a
             l == t.icursor + a
  <2>1. end \in Int /\ t.icnt \in Int /\ l \in Int /\ a \in Int /\ end = t.ihead + a /\ t.icnt + l = t.icnt + t.icursor + a
    BY <1>1
  <2> HIDE DEF end, l
  <2>2. end % IBUFLEN \in IPlaces /\ ((end % IBUFLEN) - t.itail - t.icnt - l) % IBUFLEN = 0
    BY ONLY <2>1, Good(t), InRingMoved
  <2>3. QED  BY <2>2 DEF end, l
<1> HIDE DEF h
<1>3. /\ u \in Ttys /\ SameOut(t, u) /\ u.isem = t.isem /\ u.icnt = t.icnt /\ u.ihead = h /\ u.itail = t.itail
      /\ u.icursor = t.icursor + a /\ u.iintr = t.iintr /\ u.iintpid = t.iintpid
  <2>1. u \in Ttys
    <3>1. t \in Ttys /\ h \in IPlaces
      BY <1>1, <1>2
    <3>2. QED  BY ONLY <3>1, b \in [IPlaces -> Codes], t.icursor + a \in IPlaces DEF Ttys
  <2>2. /\ SameOut(t, u) /\ u.isem = t.isem /\ u.icnt = t.icnt /\ u.ihead = h /\ u.itail = t.itail
        /\ u.icursor = t.icursor + a /\ u.iintr = t.iintr /\ u.iintpid = t.iintpid
    BY <1>1 DEF Ttys, SameOut
  <2>3. QED  BY <2>1, <2>2
<1> HIDE DEF u
<1>4. InGood(u) /\ InSum(u) = InSum(t)
  BY <1>1, <1>2, <1>3 DEF InGood, InRing, InSum
<1>5. QED  BY <1>3, <1>4, InTypes DEF u, h

LEMMA EchoSends ==
  ASSUME NEW t, OutGood(t), NEW ch
  PROVE  Sends(t, Echo(t, ch)) /\ Due(t, Echo(t, ch))
<1>1. CASE ~t.iecho
  BY <1>1 DEF Echo, Sends, SameIn, Due
<1>2. CASE t.iecho
  <2> DEFINE n == IF ch \in Control THEN 2 ELSE 1
  <2>1. n \in Nat \ {0} /\ Echo(t, ch) = Eputc(t, n)
    BY <1>2 DEF Echo
  <2> HIDE DEF n
  <2>2. QED  BY <2>1, EputcSends DEF Due
<1>3. QED  BY <1>1, <1>2

LEMMA EchoTypes ==
  ASSUME NEW t, Good(t), NEW ch
  PROVE  Types(t, Echo(t, ch)) /\ SameIn(t, Echo(t, ch)) /\ Good(Echo(t, ch))
<1>1. Sends(t, Echo(t, ch)) /\ Due(t, Echo(t, ch))
  BY EchoSends DEF Good
<1>2. QED  BY <1>1, SendTypes DEF Types, Sends

\* A ready character leaves the line as it is.
LEMMA ReadyNow ==
  ASSUME NEW t, t \in Ttys, NEW ch
  PROVE  Available(Accept(t, ch), 1) = [Available(Accept(t, ch), 1) EXCEPT !.icursor = t.icursor]
BY DEF Available, Accept, Ttys

LEMMA RawTypes ==
  ASSUME NEW t, Good(t), NEW ch \in Codes
  PROVE  Types(t, Raw(t, ch))
<1>1. CASE t.icnt >= IBUFLEN
  BY <1>1, SameTypes DEF Raw
<1>2. CASE ~(t.icnt >= IBUFLEN)
  <2>1. t \in Ttys /\ t.icursor \in IPlaces /\ t.icursor \in Nat
    BY GoodFacts
  <2>2. 1 \in Nat /\ 1 + t.icursor = t.icursor + 1
    BY <2>1
  <2>3. Types(t, [Available(Accept(t, ch), 1) EXCEPT !.icursor = t.icursor])
    BY ONLY Good(t), ch \in Codes, <2>1, <2>2, ReadyTypes
  <2>4. Raw(t, ch) = Available(Accept(t, ch), 1)
    BY <1>2 DEF Raw
  <2>5. QED  BY <2>1, <2>3, <2>4, ReadyNow
<1>3. QED  BY <1>1, <1>2

LEMMA CbreakTypes ==
  ASSUME NEW t, Good(t), NEW ch \in Codes
  PROVE  Types(t, Cbreak(t, ch))
<1>1. CASE t.icnt >= IBUFLEN
  BY <1>1, EputcTypes DEF Cbreak
<1>2. CASE ~(t.icnt >= IBUFLEN)
  <2> DEFINE a == Accept(t, ch)
             e == Echo(a, ch)
             v == Available(a, 1)
             r == Available(e, 1)
  <2>1. t \in Ttys /\ OutGood(t) /\ OutRing(t) /\ Sound(t.osem) /\ Raw(t, ch) = v
    BY <1>2, GoodFacts DEF Good, Raw
  <2>2. Types(t, v)
    BY <2>1, RawTypes
  <2>3. v \in Ttys /\ InGood(v) /\ ToSet(v.isem.q) \subseteq ToSet(t.isem.q) /\ InSum(v) = InSum(t)
    BY <2>2 DEF Types, Good, InGood
  <2>4. a \in Ttys /\ SameOut(t, a) /\ a.icnt = t.icnt
    <3>1. t.ihead \in Int /\ t.ibuff \in [IPlaces -> Codes] /\ IBUFLEN \in Nat \ {0}
      BY GoodFacts, Sizes
    <3>2. (t.ihead + 1) % IBUFLEN \in 0 .. IBUFLEN - 1
      <4>1. t.ihead + 1 \in Int
        BY <3>1
      <4>2. QED  BY ONLY <3>1, <4>1, RoundTyped
    <3>3. QED  BY <2>1, <3>1, <3>2 DEF Accept, Ttys, SameOut, IPlaces
  <2> HIDE DEF a
  <2>5. OutGood(a)
    BY <2>1, <2>4 DEF OutGood, SameOut, OutRing
  <2>6. Sends(a, e) /\ Due(a, e)
    BY <2>5, EchoSends
  <2>7. e \in Ttys /\ SameIn(a, e) /\ OutGood(e)
    BY <2>6 DEF Sends, OutGood
  <2> HIDE DEF e
  <2>8. r \in Ttys /\ SameIn(v, r) /\ SameOut(e, r)
    <3>1. v = [a EXCEPT !.icnt = a.icnt + 1, !.isem = SignaledBy(a.isem, 1)]
          /\ r = [e EXCEPT !.icnt = e.icnt + 1, !.isem = SignaledBy(e.isem, 1)]
      BY DEF Available
    <3> HIDE DEF v, r
    <3>2. v.icnt \in Int /\ v.isem \in SemSet
      BY <2>3 DEF Ttys
    <3>3. v.icnt = a.icnt + 1 /\ v.isem = SignaledBy(a.isem, 1)
      BY <2>4, <3>1 DEF Ttys
    <3>4. r = [e EXCEPT !.icnt = v.icnt, !.isem = v.isem]
      BY <2>7, <3>1, <3>3 DEF SameIn
    <3>5. v.ibuff = a.ibuff /\ v.ihead = a.ihead /\ v.itail = a.itail /\ v.icursor = a.icursor
          /\ v.imode = a.imode /\ v.iecho = a.iecho /\ v.iintr = a.iintr /\ v.iintpid = a.iintpid
      BY <2>4, <3>1 DEF Ttys
    <3> DEFINE c == v.icnt
               s == v.isem
    <3> HIDE DEF c, s
    <3>6. c \in Int /\ s \in SemSet /\ r = [e EXCEPT !.icnt = c, !.isem = s]
      BY <3>2, <3>4 DEF c, s
    <3>7. r \in Ttys /\ SameOut(e, r) /\ r.icnt = c /\ r.isem = s /\ r.ibuff = e.ibuff /\ r.ihead = e.ihead
          /\ r.itail = e.itail /\ r.icursor = e.icursor /\ r.imode = e.imode /\ r.iecho = e.iecho
          /\ r.iintr = e.iintr /\ r.iintpid = e.iintpid
      BY <2>7, <3>6 DEF Ttys, SameOut
    <3>8. QED  BY <2>7, <3>5, <3>7 DEF SameIn, c, s
  <2> HIDE DEF v, r
  <2>9. Good(r)
    BY <2>3, <2>7, <2>8 DEF Good, InGood, OutGood, SameIn, SameOut, InRing, OutRing
  <2>10. InSum(r) = InSum(t) /\ ToSet(r.isem.q) \subseteq ToSet(t.isem.q)
    BY <2>3, <2>8 DEF SameIn, InSum
  <2>11. OutSum(r) = OutSum(t) /\ ToSet(r.osem.q) \subseteq ToSet(t.osem.q)
    <3>1. OutSum(r) = OutSum(e) /\ r.osem = e.osem /\ OutSum(a) = OutSum(t) /\ a.osem = t.osem
      BY <2>4, <2>8 DEF SameOut, OutSum
    <3>2. QED  BY <2>6, <3>1 DEF Sends
  <2>12. Due(t, r)
    BY <2>4, <2>6, <2>8 DEF Due, SameOut, Started
  <2>13. Types(t, r)
    BY <2>9, <2>10, <2>11, <2>12 DEF Types
  <2>14. Cbreak(t, ch) = r
    <3>1. t.icnt \in Int /\ e.icnt = t.icnt
      BY <2>4, <2>7, GoodFacts DEF SameIn
    <3>2. e.icnt < IBUFLEN
      BY <1>2, <3>1, Sizes
    <3>3. QED  BY <1>2, <3>2 DEF Cbreak, r, e, a
  <2>15. QED  BY <2>13, <2>14
<1>3. QED  BY <1>1, <1>2

LEMMA KillLineTypes ==
  ASSUME NEW t, Good(t)
  PROVE  Types(t, KillLine(t))
<1> DEFINE u == [t EXCEPT !.ibuff = t.ibuff, !.ihead = (t.ihead + (-t.icursor)) % IBUFLEN, !.icursor = t.icursor + (-t.icursor)]
<1>1. /\ t \in Ttys /\ t.ihead \in Int /\ t.icursor \in Nat /\ t.ibuff \in [IPlaces -> Codes]
  BY GoodFacts
<1>2. -t.icursor \in Int /\ t.icursor + (-t.icursor) = 0 /\ 0 \in IPlaces /\ t.ihead + (-t.icursor) = t.ihead - t.icursor
  BY <1>1, Sizes DEF IPlaces
<1>3. Types(t, u)
  <2>1. t.icursor + (-t.icursor) \in IPlaces
    BY <1>2
  <2>2. QED  BY ONLY Good(t), <1>1, <1>2, <2>1, LineTypes
<1>4. [t EXCEPT !.ihead = (t.ihead - t.icursor) % IBUFLEN, !.icursor = 0] = u
  BY <1>1, <1>2 DEF Ttys
<1> HIDE DEF u
<1>5. KillLine(t) = Eputc(u, 2)
  BY <1>4 DEF KillLine
<1>6. Types(u, Eputc(u, 2))
  <2>1. Good(u) /\ 2 \in Nat \ {0}
    BY <1>3 DEF Types
  <2>2. QED  BY <2>1, EputcTypes
<1>7. QED  BY <1>3, <1>5, <1>6, TypesOn

LEMMA EraseTypes ==
  ASSUME NEW t, Good(t)
  PROVE  Types(t, Erase(t))
<1> DEFINE h == (t.ihead - 1) % IBUFLEN
           u == [t EXCEPT !.ibuff = t.ibuff, !.ihead = (t.ihead + (-1)) % IBUFLEN, !.icursor = t.icursor + (-1)]
<1>1. /\ t \in Ttys /\ t.ihead \in Int /\ t.icursor \in IPlaces /\ t.icursor \in Nat /\ t.ibuff \in [IPlaces -> Codes]
  BY GoodFacts
<1>2. CASE t.icursor = 0
  BY <1>2, SameTypes DEF Erase
<1>3. CASE t.icursor # 0
  <2>1. t.icursor + (-1) \in IPlaces /\ -1 \in Int /\ t.ihead - 1 = t.ihead + (-1) /\ t.icursor - 1 = t.icursor + (-1)
    BY <1>1, <1>3, Sizes DEF IPlaces
  <2>2. Types(t, u)
    BY ONLY Good(t), <1>1, <2>1, LineTypes
  <2>3. [t EXCEPT !.ihead = h, !.icursor = t.icursor - 1] = u
    BY <1>1, <2>1 DEF Ttys
  <2> DEFINE n == IF t.ibuff[h] \in Control THEN 6 ELSE 3
  <2> HIDE DEF u
  <2>4. Erase(t) = IF ~t.iecho THEN Ttyostart(u) ELSE Eputc(u, n)
    BY <1>3, <2>3 DEF Erase
  <2>5. Good(u) /\ n \in Nat \ {0}
    BY <2>2 DEF Types
  <2> HIDE DEF n, h
  <2>6. Types(u, Ttyostart(u)) /\ Types(u, Eputc(u, n))
    BY <2>5, StartTypes, EputcTypes
  <2>7. Types(t, Ttyostart(u)) /\ Types(t, Eputc(u, n))
    BY <2>2, <2>6, TypesOn
  <2>8. QED  BY <2>4, <2>7
<1>4. QED  BY <1>2, <1>3

LEMMA EndLineTypes ==
  ASSUME NEW t, Good(t), NEW ch \in Codes
  PROVE  Types(t, EndLine(t, ch))
<1> DEFINE u == IF ch = "EOF" THEN Echo(Echo(t, ch), "NL") ELSE Echo(t, ch)
<1>1. Types(t, u) /\ u.icursor = t.icursor /\ Good(u)
  <2>1. Types(t, Echo(t, ch)) /\ SameIn(t, Echo(t, ch)) /\ Good(Echo(t, ch))
    BY EchoTypes
  <2> DEFINE e == Echo(t, ch)
  <2> HIDE DEF e
  <2>2. Types(e, Echo(e, "NL")) /\ SameIn(e, Echo(e, "NL")) /\ Good(Echo(e, "NL"))
    BY <2>1, EchoTypes DEF e
  <2>3. Types(t, Echo(e, "NL"))
    BY <2>1, <2>2, TypesOn DEF e
  <2>4. e.icursor = t.icursor /\ Echo(e, "NL").icursor = t.icursor
    BY <2>1, <2>2 DEF SameIn, e
  <2>5. QED  BY <2>1, <2>2, <2>3, <2>4 DEF e
<1>2. EndLine(t, ch) = [Available(Accept(u, ch), t.icursor + 1) EXCEPT !.icursor = 0]
  BY DEF EndLine
<1> HIDE DEF u
<1>3. t.icursor + 1 \in Nat /\ (t.icursor + 1) + 0 = u.icursor + 1 /\ 0 \in IPlaces
  BY <1>1, GoodFacts, Sizes DEF IPlaces
<1>4. Types(u, [Available(Accept(u, ch), t.icursor + 1) EXCEPT !.icursor = 0])
  BY ONLY <1>1, <1>3, ch \in Codes, ReadyTypes
<1>5. QED  BY <1>1, <1>2, <1>4, TypesOn

LEMMA OrdinaryTypes ==
  ASSUME NEW t, Good(t), NEW ch \in Codes
  PROVE  Types(t, Ordinary(t, ch))
<1> DEFINE full == (IF t.icnt < 0 THEN 0 ELSE t.icnt) + t.icursor >= IBUFLEN - 1
           e == Echo(t, ch)
<1>1. CASE full
  BY <1>1, EputcTypes DEF Ordinary
<1>2. CASE ~full
  <2>1. Types(t, e) /\ SameIn(t, e) /\ Good(e)
    BY EchoTypes
  <2>2. Ordinary(t, ch) = Accept([e EXCEPT !.icursor = @ + 1], ch)
    BY <1>2 DEF Ordinary
  <2> HIDE DEF e
  <2>3. e \in Ttys /\ e.ibuff \in [IPlaces -> Codes] /\ e.ihead \in IPlaces /\ e.icursor = t.icursor
        /\ t.icursor \in Nat /\ t.icnt \in Int
    BY <2>1, GoodFacts DEF SameIn
  <2>4. e.icursor + 1 \in IPlaces
    BY <1>2, <2>3, Sizes DEF IPlaces
  <2> DEFINE b == [e.ibuff EXCEPT ![e.ihead] = ch]
  <2>5. b \in [IPlaces -> Codes] /\ 1 \in Int
    BY <2>3
  <2>6. Ordinary(t, ch) = [e EXCEPT !.ibuff = b, !.ihead = (e.ihead + 1) % IBUFLEN, !.icursor = e.icursor + 1]
    BY <2>2, <2>3 DEF Accept, Ttys
  <2> HIDE DEF b
  <2> DEFINE v == [e EXCEPT !.ibuff = b, !.ihead = (e.ihead + 1) % IBUFLEN, !.icursor = e.icursor + 1]
  <2>7. Types(e, v)
    BY ONLY <2>1, <2>4, <2>5, LineTypes
  <2>8. QED  BY <2>1, <2>6, <2>7, TypesOn
<1>3. QED  BY <1>1, <1>2

LEMMA TypedTypes ==
  ASSUME NEW t, Good(t), NEW ch \in Keys
  PROVE  Types(t, Typed(t, ch))
<1>1. ch \in Codes
  BY DEF Codes
<1>2. Types(t, Raw(t, ch)) /\ Types(t, Cbreak(t, ch)) /\ Types(t, KillLine(t)) /\ Types(t, Erase(t))
      /\ Types(t, EndLine(t, ch)) /\ Types(t, Ordinary(t, ch)) /\ Types(t, Eputc(t, 1))
  <2>1. Types(t, Eputc(t, 1))
    BY EputcTypes
  <2>2. QED  BY <1>1, <2>1, RawTypes, CbreakTypes, KillLineTypes, EraseTypes, EndLineTypes, OrdinaryTypes
<1>3. Types(t, Cooked(t, ch))
  BY <1>2 DEF Cooked
<1>4. Types(t, [t EXCEPT !.oheld = TRUE]) /\ Types(t, Ttyostart([t EXCEPT !.oheld = FALSE]))
  <2> DEFINE u(b) == [t EXCEPT !.oheld = b]
  <2>1. \A b \in BOOLEAN : /\ u(b) \in Ttys /\ SameIn(t, u(b)) /\ u(b).osem = t.osem /\ u(b).odsend = t.odsend
                           /\ u(b).ocnt = t.ocnt /\ u(b).ohead = t.ohead /\ u(b).otail = t.otail
                           /\ u(b).ecnt = t.ecnt /\ u(b).txint = t.txint /\ u(b).oheld = b
    BY GoodFacts DEF Ttys, SameIn
  <2> HIDE DEF u
  <2>2. \A b \in BOOLEAN : /\ Good(u(b)) /\ InSum(u(b)) = InSum(t) /\ u(b).isem = t.isem
                           /\ OutSum(u(b)) = OutSum(t) /\ u(b).osem = t.osem
    <3>1. TAKE b \in BOOLEAN
    <3>2. OutGood(u(b)) /\ OutSum(u(b)) = OutSum(t)
      BY <2>1 DEF Good, OutGood, OutRing, OutSum
    <3>3. InGood(u(b)) /\ InSum(u(b)) = InSum(t) /\ u(b).isem = t.isem
      BY <2>1 DEF Good, InGood, InRing, SameIn, InSum
    <3>4. QED  BY <2>1, <3>2, <3>3 DEF Good
  <2>3. Types(t, u(TRUE))
    BY <2>1, <2>2 DEF Types, Due
  <2>4. Types(t, Ttyostart(u(FALSE)))
    <3> DEFINE v == u(FALSE)
               w == Ttyostart(v)
    <3>1. Good(v) /\ InSum(v) = InSum(t) /\ v.isem = t.isem /\ OutSum(v) = OutSum(t) /\ v.osem = t.osem
      BY <2>2
    <3>2. Types(v, w) /\ Started(w)
      BY <3>1, StartTypes, TtyostartSends DEF Good
    <3> HIDE DEF v, w
    <3>3. Types(t, w)
      BY <3>1, <3>2 DEF Types, Due
    <3>4. QED  BY <3>3 DEF v, w
  <2>5. QED  BY <2>3, <2>4 DEF u
<1>5. QED  BY <1>2, <1>3, <1>4 DEF Typed

------------------------------------------------------------------------------
(* The invariant, and what the step of a process must keep of it. *)

Ops == {"user", "put", "more", "wrote", "later", "read", "getc", "peek", "peeked", "intr"}
Conts == [op : Ops, rest : Seq(Codes), n : Nat, got : Seq(Codes)]

\* Who uses the line has nothing left to do; a writer has something to write, nobody else
\* has, and a reader wants something.
ContGood(c) ==
  /\ (c.op = "user" => c = Idle) /\ (c.op \in {"put", "more"} => c.rest # <<>>) /\ (c.op = "read" => c.n > 0)
  /\ (c.op \notin {"put", "more", "wrote"} => c.rest = <<>>)

\* Those that wait for characters, and those that have a unit of isem.
Waiters == {"read", "getc", "peek"}
Holders == Waiters \cup {"peeked"}
Those(f, ops) == {p \in Procs : f[p].op \in ops}
One(op, ops) == IF op \in ops THEN 1 ELSE 0

ContsGood == cont \in [Procs -> Conts] /\ \A p \in Procs : ContGood(cont[p])
InAccount ==
  ToSet(tty.isem.q) \subseteq Those(cont, Waiters) /\ over \in Nat
  /\ InSum(tty) + Cardinality(Those(cont, Holders)) = over
OutAccount ==
  ToSet(tty.osem.q) \subseteq Those(cont, {"put"}) /\ bonus \in Nat
  /\ OutSum(tty) + Cardinality(Those(cont, {"put"})) = OBUFLEN + bonus
TtyInv ==
  Good(tty) /\ ContsGood /\ InAccount /\ OutAccount /\ OutputDue /\ interrupted \subseteq Procs \cup {Nobody}

LEMMA ThoseFinite ==
  ASSUME NEW f, NEW ops
  PROVE  IsFiniteSet(Those(f, ops)) /\ Cardinality(Those(f, ops)) \in Nat
<1>1. IsFiniteSet(Procs) /\ Those(f, ops) \subseteq Procs
  BY TtyAssumption DEF Those
<1>2. QED  BY <1>1, FS_Subset, FS_CardinalityType

LEMMA ThoseChange ==
  ASSUME NEW f \in [Procs -> Conts], NEW p \in Procs, NEW c \in Conts, NEW g, g = [f EXCEPT ![p] = c], NEW ops
  PROVE  /\ Cardinality(Those(g, ops)) + One(f[p].op, ops) = Cardinality(Those(f, ops)) + One(c.op, ops)
         /\ \A q \in Procs \ {p} : q \in Those(g, ops) <=> q \in Those(f, ops)
         /\ p \in Those(g, ops) <=> c.op \in ops
<1> DEFINE A == Those(f, ops)
           B == Those(g, ops)
           R == A \ {p}
<1>1. /\ \A q \in Procs \ {p} : q \in B <=> q \in A
      /\ p \in B <=> c.op \in ops
      /\ p \in A <=> f[p].op \in ops
  BY DEF Those
<1>2. A \subseteq Procs /\ B \subseteq Procs
  BY DEF Those
<1>3. IsFiniteSet(A) /\ IsFiniteSet(B) /\ Cardinality(A) \in Nat /\ Cardinality(B) \in Nat
  BY ThoseFinite
<1> HIDE DEF A, B
<1>4. IsFiniteSet(R) /\ p \notin R
  BY <1>3, FS_Subset
<1>5. /\ p \in A => A = R \cup {p}
      /\ p \notin A => A = R
      /\ p \in B => B = R \cup {p}
      /\ p \notin B => B = R
  BY <1>1, <1>2
<1>6. Cardinality(R \cup {p}) = Cardinality(R) + 1 /\ Cardinality(R) \in Nat
  BY <1>4, FS_AddElement, FS_CardinalityType
<1>7. Cardinality(A) = Cardinality(R) + One(f[p].op, ops)
  <2>1. CASE p \in A
    <3>1. Cardinality(A) = Cardinality(R \cup {p})
      BY ONLY <1>5, <2>1, Zenon
    <3>2. QED  BY <1>1, <1>6, <2>1, <3>1 DEF One
  <2>2. CASE p \notin A
    <3>1. Cardinality(A) = Cardinality(R)
      BY ONLY <1>5, <2>2, Zenon
    <3>2. QED  BY <1>1, <1>6, <2>2, <3>1 DEF One
  <2>3. QED  BY <2>1, <2>2
<1>8. Cardinality(B) = Cardinality(R) + One(c.op, ops)
  <2>1. CASE p \in B
    <3>1. Cardinality(B) = Cardinality(R \cup {p})
      BY ONLY <1>5, <2>1, Zenon
    <3>2. QED  BY <1>1, <1>6, <2>1, <3>1 DEF One
  <2>2. CASE p \notin B
    <3>1. Cardinality(B) = Cardinality(R)
      BY ONLY <1>5, <2>2, Zenon
    <3>2. QED  BY <1>1, <1>6, <2>2, <3>1 DEF One
  <2>3. QED  BY <2>1, <2>2
<1>9. Cardinality(B) + One(f[p].op, ops) = Cardinality(A) + One(c.op, ops)
  <2>1. One(f[p].op, ops) \in Nat /\ One(c.op, ops) \in Nat
    BY DEF One
  <2> HIDE DEF R
  <2>2. QED  BY <1>6, <1>7, <1>8, <2>1
<1>10. QED  BY <1>1, <1>9 DEF A, B

LEMMA SumsAre ==
  ASSUME NEW t, Good(t)
  PROVE  InSum(t) \in Int /\ OutSum(t) \in Int
<1>1. t.isem.n \in Int /\ t.icnt \in Int /\ t.osem.n \in Int /\ t.odsend \in Int /\ t.ocnt \in Int
  BY GoodFacts, SoundFacts, Sizes DEF Ttys
<1>2. QED  BY <1>1 DEF InSum, OutSum

LEMMA ContsKept ==
  ASSUME ContsGood, NEW p \in Procs, NEW c \in Conts, ContGood(c), cont' = [cont EXCEPT ![p] = c]
  PROVE  ContsGood'
BY DEF ContsGood

LEMMA InAccountKept ==
  ASSUME TtyInv, NEW p \in Procs, NEW c \in Conts, cont' = [cont EXCEPT ![p] = c], Good(tty'), over' \in Nat,
         ToSet(tty'.isem.q) \subseteq ToSet(tty.isem.q) \cup {p}, p \in ToSet(tty'.isem.q) => c.op \in Waiters,
         InSum(tty') + One(c.op, Holders) - over' = InSum(tty) + One(cont[p].op, Holders) - over
  PROVE  InAccount'
<1> DEFINE f == cont
           g == cont'
           t == tty
           u == tty'
<1>1. f \in [Procs -> Conts] /\ g = [f EXCEPT ![p] = c]
  BY DEF TtyInv, ContsGood
<1>2. InSum(t) \in Int /\ InSum(u) \in Int /\ over \in Nat /\ over' \in Nat
      /\ InSum(t) + Cardinality(Those(f, Holders)) = over
  BY SumsAre DEF TtyInv, InAccount
<1>3. /\ ToSet(t.isem.q) \subseteq Those(f, Waiters)
      /\ ToSet(u.isem.q) \subseteq ToSet(t.isem.q) \cup {p} /\ (p \in ToSet(u.isem.q) => c.op \in Waiters)
      /\ InSum(u) + One(c.op, Holders) - over' = InSum(t) + One(f[p].op, Holders) - over
  BY DEF TtyInv, InAccount
<1> HIDE DEF f, g, t, u
<1>4. /\ Cardinality(Those(g, Holders)) + One(f[p].op, Holders) = Cardinality(Those(f, Holders)) + One(c.op, Holders)
      /\ Cardinality(Those(f, Holders)) \in Nat /\ Cardinality(Those(g, Holders)) \in Nat
  <2>1. Cardinality(Those(f, Holders)) \in Nat /\ Cardinality(Those(g, Holders)) \in Nat
    BY ThoseFinite
  <2>2. Cardinality(Those(g, Holders)) + One(f[p].op, Holders) = Cardinality(Those(f, Holders)) + One(c.op, Holders)
    BY ONLY <1>1, p \in Procs, c \in Conts, ThoseChange
  <2>3. QED  BY ONLY <2>1, <2>2
<1>5. /\ \A q \in Procs \ {p} : q \in Those(g, Waiters) <=> q \in Those(f, Waiters)
      /\ p \in Those(g, Waiters) <=> c.op \in Waiters
  BY <1>1, ThoseChange
<1>6. ToSet(u.isem.q) \subseteq Those(g, Waiters)
  <2>1. SUFFICES ASSUME NEW q \in ToSet(u.isem.q) PROVE q \in Those(g, Waiters)
    OBVIOUS
  <2>2. CASE q = p
    BY <1>3, <1>5, <2>2
  <2>3. CASE q # p
    <3>1. q \in Those(f, Waiters) /\ q \in Procs
      BY <1>3, <2>3 DEF Those
    <3>2. QED  BY <1>5, <2>3, <3>1
  <2>4. QED  BY <2>2, <2>3
<1>7. InSum(u) + Cardinality(Those(g, Holders)) = over'
  <2> DEFINE a == One(f[p].op, Holders)
             b == One(c.op, Holders)
             x == Cardinality(Those(f, Holders))
             y == Cardinality(Those(g, Holders))
  <2>1. a \in Nat /\ b \in Nat
    BY DEF One
  <2>2. x \in Nat /\ y \in Nat /\ y + a = x + b
    BY <1>4
  <2>3. InSum(t) + x = over /\ InSum(u) + b - over' = InSum(t) + a - over
    BY <1>2, <1>3
  <2> HIDE DEF a, b, x, y
  <2>4. InSum(u) + y = over'
    BY ONLY <1>2, <2>1, <2>2, <2>3
  <2>5. QED  BY <2>4 DEF y
<1>8. QED  BY <1>2, <1>6, <1>7 DEF InAccount, f, g, t, u

LEMMA OutAccountKept ==
  ASSUME TtyInv, NEW p \in Procs, NEW c \in Conts, cont' = [cont EXCEPT ![p] = c], Good(tty'), bonus' \in Nat,
         ToSet(tty'.osem.q) \subseteq ToSet(tty.osem.q) \cup {p}, p \in ToSet(tty'.osem.q) => c.op = "put",
         OutSum(tty') + One(c.op, {"put"}) - bonus' = OutSum(tty) + One(cont[p].op, {"put"}) - bonus
  PROVE  OutAccount'
<1> DEFINE f == cont
           g == cont'
           t == tty
           u == tty'
           P == {"put"}
<1>1. f \in [Procs -> Conts] /\ g = [f EXCEPT ![p] = c]
  BY DEF TtyInv, ContsGood
<1>2. OutSum(t) \in Int /\ OutSum(u) \in Int /\ bonus \in Nat /\ bonus' \in Nat /\ OBUFLEN \in Nat
      /\ OutSum(t) + Cardinality(Those(f, P)) = OBUFLEN + bonus
  BY SumsAre, Sizes DEF TtyInv, OutAccount
<1>3. /\ ToSet(t.osem.q) \subseteq Those(f, P)
      /\ ToSet(u.osem.q) \subseteq ToSet(t.osem.q) \cup {p} /\ (p \in ToSet(u.osem.q) => c.op \in P)
      /\ OutSum(u) + One(c.op, P) - bonus' = OutSum(t) + One(f[p].op, P) - bonus
  BY DEF TtyInv, OutAccount
<1> HIDE DEF f, g, t, u, P
<1>4. /\ Cardinality(Those(g, P)) + One(f[p].op, P) = Cardinality(Those(f, P)) + One(c.op, P)
      /\ Cardinality(Those(f, P)) \in Nat /\ Cardinality(Those(g, P)) \in Nat
      /\ \A q \in Procs \ {p} : q \in Those(g, P) <=> q \in Those(f, P)
      /\ p \in Those(g, P) <=> c.op \in P
  <2>1. Cardinality(Those(f, P)) \in Nat /\ Cardinality(Those(g, P)) \in Nat
    BY ThoseFinite
  <2>2. /\ Cardinality(Those(g, P)) + One(f[p].op, P) = Cardinality(Those(f, P)) + One(c.op, P)
        /\ \A q \in Procs \ {p} : q \in Those(g, P) <=> q \in Those(f, P)
        /\ p \in Those(g, P) <=> c.op \in P
    BY ONLY <1>1, p \in Procs, c \in Conts, ThoseChange
  <2>3. QED  BY ONLY <2>1, <2>2
<1>5. ToSet(u.osem.q) \subseteq Those(g, P)
  <2>1. SUFFICES ASSUME NEW q \in ToSet(u.osem.q) PROVE q \in Those(g, P)
    OBVIOUS
  <2>2. CASE q = p
    BY <1>3, <1>4, <2>2
  <2>3. CASE q # p
    <3>1. q \in Those(f, P) /\ q \in Procs
      BY <1>3, <2>3 DEF Those
    <3>2. QED  BY <1>4, <2>3, <3>1
  <2>4. QED  BY <2>2, <2>3
<1>6. OutSum(u) + Cardinality(Those(g, P)) = OBUFLEN + bonus'
  <2> DEFINE a == One(f[p].op, P)
             b == One(c.op, P)
             x == Cardinality(Those(f, P))
             y == Cardinality(Those(g, P))
  <2>1. a \in Nat /\ b \in Nat
    BY DEF One
  <2>2. x \in Nat /\ y \in Nat /\ y + a = x + b
    BY <1>4
  <2>3. OutSum(t) + x = OBUFLEN + bonus /\ OutSum(u) + b - bonus' = OutSum(t) + a - bonus
    BY <1>2, <1>3
  <2> HIDE DEF a, b, x, y
  <2>4. OutSum(u) + y = OBUFLEN + bonus'
    BY ONLY <1>2, <2>1, <2>2, <2>3
  <2>5. QED  BY <2>4 DEF y
<1>7. QED  BY <1>2, <1>5, <1>6 DEF OutAccount, f, g, t, u, P

\* A step of one call keeps the invariant if it keeps its half of the control block and its
\* own share of the account.
LEMMA ReaderKeeps ==
  ASSUME TtyInv, NEW p \in Procs, NEW c \in Conts, ContGood(c), cont' = [cont EXCEPT ![p] = c],
         InGood(tty'), SameOut(tty, tty'), over' \in Nat,
         ToSet(tty'.isem.q) \subseteq ToSet(tty.isem.q) \cup {p}, p \in ToSet(tty'.isem.q) => c.op \in Waiters,
         InSum(tty') + One(c.op, Holders) - over' = InSum(tty) + One(cont[p].op, Holders) - over,
         cont[p].op \notin {"put", "wrote"}, c.op \notin {"put", "wrote"}, UNCHANGED <<bonus, interrupted>>
  PROVE  TtyInv'
<1>1. Good(tty') /\ OutSum(tty') = OutSum(tty) /\ tty'.osem = tty.osem
  BY DEF TtyInv, Good, InGood, OutGood, SameOut, OutRing, OutSum
<1>2. ContsGood'
  BY ContsKept DEF TtyInv
<1>3. InAccount'
  BY <1>1, InAccountKept
<1>4. OutAccount'
  <2>1. ToSet(tty'.osem.q) \subseteq ToSet(tty.osem.q) \cup {p}
    BY <1>1
  <2>2. p \notin ToSet(tty'.osem.q)
    BY <1>1 DEF TtyInv, OutAccount, Those
  <2>3. bonus' \in Nat /\ bonus' = bonus
    BY DEF TtyInv, OutAccount
  <2>4. One(c.op, {"put"}) = 0 /\ One(cont[p].op, {"put"}) = 0
    BY DEF One
  <2>5. OutSum(tty') + One(c.op, {"put"}) - bonus' = OutSum(tty) + One(cont[p].op, {"put"}) - bonus
    BY <1>1, <2>3, <2>4
  <2>6. QED  BY <1>1, <2>1, <2>2, <2>3, <2>5, OutAccountKept
<1>5. OutputDue'
  <2>1. \A q \in Procs : At(q, "wrote") => cont'[q].op = "wrote"
    BY DEF At, TtyInv, ContsGood
  <2>2. QED  BY <2>1 DEF TtyInv, OutputDue, At, SameOut
<1>6. QED  BY <1>1, <1>2, <1>3, <1>4, <1>5 DEF TtyInv

LEMMA WriterKeeps ==
  ASSUME TtyInv, NEW p \in Procs, NEW c \in Conts, ContGood(c), cont' = [cont EXCEPT ![p] = c],
         OutGood(tty'), SameIn(tty, tty'), bonus' \in Nat,
         ToSet(tty'.osem.q) \subseteq ToSet(tty.osem.q) \cup {p}, p \in ToSet(tty'.osem.q) => c.op = "put",
         OutSum(tty') + One(c.op, {"put"}) - bonus' = OutSum(tty) + One(cont[p].op, {"put"}) - bonus,
         cont[p].op \notin Holders, c.op \notin Holders, OutputDue', UNCHANGED <<over, interrupted>>
  PROVE  TtyInv'
<1>1. Good(tty') /\ InSum(tty') = InSum(tty) /\ tty'.isem = tty.isem
  BY DEF TtyInv, Good, InGood, OutGood, SameIn, InRing, InSum
<1>2. ContsGood'
  BY ContsKept DEF TtyInv
<1>3. InAccount'
  <2>1. ToSet(tty'.isem.q) \subseteq ToSet(tty.isem.q) \cup {p}
    BY <1>1
  <2>2. p \notin ToSet(tty'.isem.q)
    BY <1>1 DEF TtyInv, InAccount, Those, Holders
  <2>3. over' \in Nat /\ over' = over
    BY DEF TtyInv, InAccount
  <2>4. One(c.op, Holders) = 0 /\ One(cont[p].op, Holders) = 0
    BY DEF One
  <2>5. InSum(tty') + One(c.op, Holders) - over' = InSum(tty) + One(cont[p].op, Holders) - over
    BY <1>1, <2>3, <2>4
  <2>6. QED  BY <1>1, <2>1, <2>2, <2>3, <2>5, InAccountKept
<1>4. OutAccount'
  BY <1>1, OutAccountKept
<1>5. QED  BY <1>1, <1>2, <1>3, <1>4 DEF TtyInv

------------------------------------------------------------------------------
(* The loop of ttyputc and ttywrite. *)

\* The loop over what a process writes, on a record of the control block and the rest.
Puts == [t : Ttys, rest : Seq(Codes), op : {"go", "put", "more", "user"}]

\* What the loop of process p keeps, from the control block t and with m units of osem in
\* all: where it stops, it waits with a unit that it took, or nothing is left.
PutGood(t, p, m, w) ==
  /\ w \in Puts /\ OutGood(w.t) /\ SameIn(t, w.t) /\ Due(t, w.t)
  /\ ToSet(w.t.osem.q) \subseteq ToSet(t.osem.q) \cup {p} /\ (p \in ToSet(w.t.osem.q) => w.op = "put")
  /\ OutSum(w.t) = m - One(w.op, {"put"})
  /\ (w.op # "user" => w.rest # <<>>)

LEMMA DueOn ==
  ASSUME NEW t, NEW u, NEW v, Due(t, u), Due(u, v)
  PROVE  Due(t, v)
BY DEF Due, Started

LEMMA OutFacts ==
  ASSUME NEW t, OutGood(t)
  PROVE  /\ t \in Ttys /\ Sound(t.osem) /\ OutRing(t) /\ t.ohead \in OPlaces /\ t.ohead \in Int /\ t.otail \in Int
         /\ t.ocnt \in Nat /\ t.odsend \in Nat /\ t.osem.n \in Int /\ t.obuff \in [OPlaces -> Codes]
         /\ OutSum(t) \in Int
<1>1. /\ t \in Ttys /\ Sound(t.osem) /\ OutRing(t) /\ t.ohead \in OPlaces /\ t.otail \in OPlaces
      /\ t.ocnt \in Nat /\ t.odsend \in 0 .. OBMINSP - 1 /\ t.obuff \in [OPlaces -> Codes]
  BY DEF OutGood, Ttys
<1>2. t.osem.n \in Int
  BY <1>1, SoundFacts
<1>3. QED  BY <1>1, <1>2, Sizes DEF OPlaces, OutSum

LEMMA StoredGood ==
  ASSUME NEW t, OutGood(t), NEW ch \in Codes
  PROVE  /\ OutGood(Stored(t, ch)) /\ SameIn(t, Stored(t, ch)) /\ OutSum(Stored(t, ch)) = OutSum(t) + 1
         /\ Stored(t, ch).osem = t.osem
<1> DEFINE h == (t.ohead + 1) % OBUFLEN
           b == [t.obuff EXCEPT ![t.ohead] = ch]
           u == [t EXCEPT !.obuff = b, !.ohead = h, !.ocnt = t.ocnt + 1]
           x == t.ohead - t.otail - t.ocnt
           y == t.ohead + 1
<1>1. /\ t \in Ttys /\ Sound(t.osem) /\ OutRing(t) /\ t.ohead \in Int /\ t.otail \in Int
      /\ t.ocnt \in Nat /\ t.odsend \in Nat /\ t.osem.n \in Int /\ t.obuff \in [OPlaces -> Codes]
  BY OutFacts
<1>2. x \in Int /\ y \in Int /\ x % OBUFLEN = 0 /\ OBUFLEN \in Nat \ {0}
  BY <1>1, Sizes DEF OutRing
<1> HIDE DEF y
<1>3. (x - y + (y % OBUFLEN)) % OBUFLEN = 0
  BY ONLY <1>2, Reduced
<1>4. y % OBUFLEN \in 0 .. OBUFLEN - 1
  BY ONLY <1>2, RoundTyped
<1>5. x - y + (y % OBUFLEN) = (y % OBUFLEN) - t.otail - (t.ocnt + 1)
  BY <1>1, <1>4 DEF y
<1>6. h \in OPlaces /\ (h - t.otail - (t.ocnt + 1)) % OBUFLEN = 0
  BY <1>3, <1>4, <1>5 DEF y, OPlaces
<1>7. b \in [OPlaces -> Codes]
  BY <1>1
<1>8. Stored(t, ch) = u
  BY DEF Stored
<1> HIDE DEF h, b
<1>9. /\ u \in Ttys /\ SameIn(t, u) /\ u.osem = t.osem /\ u.odsend = t.odsend /\ u.ocnt = t.ocnt + 1
      /\ u.ohead = h /\ u.otail = t.otail
  <2>1. t.ocnt + 1 \in Nat
    BY <1>1
  <2>2. QED  BY <1>1, <1>6, <1>7, <2>1 DEF Ttys, SameIn
<1> HIDE DEF u
<1>10. OutSum(u) = OutSum(t) + 1
  BY <1>1, <1>9 DEF OutSum
<1>11. QED  BY <1>1, <1>6, <1>8, <1>9, <1>10 DEF OutGood, OutRing

LEMMA PutOneGood ==
  ASSUME NEW w \in Puts, OutGood(w.t), w.rest # <<>>
  PROVE  LET v == PutOne(w) IN
         /\ v \in Puts /\ OutGood(v.t) /\ SameIn(w.t, v.t) /\ Started(v.t) /\ OutSum(v.t) = OutSum(w.t) + 1
         /\ ToSet(v.t.osem.q) \subseteq ToSet(w.t.osem.q)
         /\ v.op # "put" /\ (v.op # "user" => v.rest # <<>>)
<1> DEFINE s == Stored(w.t, Head(w.rest))
           u == Ttyostart(s)
           op == IF Len(w.rest) = 1 THEN "user" ELSE IF w.t.osem.q # u.osem.q THEN "more" ELSE "go"
           op2 == IF Len(w.rest) = 1 THEN "user" ELSE IF u.osem.q # w.t.osem.q THEN "more" ELSE "go"
           rest == Tail(w.rest)
<1>1. w.rest \in Seq(Codes) /\ Head(w.rest) \in Codes /\ rest \in Seq(Codes) /\ Len(rest) = Len(w.rest) - 1
      /\ Len(w.rest) \in Nat
  BY DEF Puts
<1>2. OutGood(s) /\ SameIn(w.t, s) /\ OutSum(s) = OutSum(w.t) + 1 /\ s.osem = w.t.osem
  BY <1>1, StoredGood
<1>3. Sends(s, u) /\ Started(u)
  BY <1>2, TtyostartSends
<1>4. PutOne(w) = [t |-> u, rest |-> rest, op |-> op2]
  BY DEF PutOne
<1> HIDE DEF s, u, rest
<1>5. u \in Ttys /\ OutGood(u) /\ SameIn(w.t, u) /\ OutSum(u) = OutSum(w.t) + 1
      /\ ToSet(u.osem.q) \subseteq ToSet(w.t.osem.q)
  BY <1>2, <1>3 DEF Sends, SameIn, OutGood
<1>6. op2 \in {"user", "more", "go"} /\ (op2 # "user" => rest # <<>>)
  <2>1. Len(w.rest) # 1 => rest # <<>>
    <3>1. Len(w.rest) # 0 /\ Len(<<>>) = 0
      BY <1>1
    <3>2. Len(w.rest) # 1 => Len(rest) # 0
      BY <1>1, <3>1
    <3>3. QED  BY ONLY <3>1, <3>2, Zenon
  <2>2. QED  BY <2>1
<1> HIDE DEF op2
<1>7. QED  BY <1>1, <1>3, <1>4, <1>5, <1>6 DEF Puts

LEMMA WaitingGood ==
  ASSUME NEW w \in Puts, OutGood(w.t), NEW p \in Procs, p \notin ToSet(w.t.osem.q)
  PROVE  LET v == Waiting(w, p) IN
         /\ v \in Puts /\ OutGood(v.t) /\ SameIn(w.t, v.t) /\ Due(w.t, v.t) /\ OutSum(v.t) = OutSum(w.t) - 1
         /\ v.rest = w.rest /\ v.op = w.op
         /\ ToSet(v.t.osem.q) \subseteq ToSet(w.t.osem.q) \cup {p}
         /\ ~Blocks(w.t.osem) => p \notin ToSet(v.t.osem.q)
<1> DEFINE s == Waited(w.t.osem, p)
           u == [w.t EXCEPT !.osem = s]
           v == [w EXCEPT !.t = u]
<1>1. /\ w.t \in Ttys /\ Sound(w.t.osem) /\ OutRing(w.t) /\ w.t.ocnt \in Nat /\ w.t.odsend \in Nat /\ w.t.osem.n \in Int
  BY OutFacts
<1>2. /\ Sound(s) /\ s.n = w.t.osem.n - 1
      /\ ToSet(s.q) = IF w.t.osem.n <= 0 THEN ToSet(w.t.osem.q) \cup {p} ELSE {}
      /\ Blocks(w.t.osem) <=> w.t.osem.n <= 0
  BY <1>1, WaitedSound
<1>3. Waiting(w, p) = v
  BY DEF Waiting
<1> HIDE DEF s
<1>4. s \in SemSet
  BY <1>2 DEF Sound, SemSet
<1>5. /\ u \in Ttys /\ SameIn(w.t, u) /\ u.osem = s /\ u.odsend = w.t.odsend /\ u.ocnt = w.t.ocnt /\ u.ohead = w.t.ohead
      /\ u.otail = w.t.otail /\ u.ecnt = w.t.ecnt /\ u.txint = w.t.txint /\ u.oheld = w.t.oheld
  BY <1>1, <1>4 DEF Ttys, SameIn
<1> HIDE DEF u
<1>6. v \in Puts /\ v.t = u /\ v.rest = w.rest /\ v.op = w.op
  BY <1>5 DEF Puts
<1>7. OutGood(u) /\ Due(w.t, u) /\ OutSum(u) = OutSum(w.t) - 1
  BY <1>1, <1>2, <1>5 DEF OutGood, OutRing, Due, OutSum
<1> HIDE DEF v
<1>8. QED  BY <1>2, <1>3, <1>5, <1>6, <1>7

LEMMA PutNextGood ==
  ASSUME NEW t, NEW p \in Procs, NEW m \in Int, NEW w, PutGood(t, p, m, w)
  PROVE  PutGood(t, p, m, PutNext(w, p))
<1>1. w \in Puts /\ OutGood(w.t) /\ SameIn(t, w.t) /\ Due(t, w.t) /\ (w.op # "user" => w.rest # <<>>)
      /\ ToSet(w.t.osem.q) \subseteq ToSet(t.osem.q) \cup {p} /\ (p \in ToSet(w.t.osem.q) => w.op = "put")
      /\ OutSum(w.t) = m - One(w.op, {"put"})
  BY DEF PutGood
<1>2. CASE w.op # "go"
  BY <1>2 DEF PutNext
<1>3. CASE w.op = "go"
  <2> DEFINE x == Waiting(w, p)
  <2>1. p \notin ToSet(w.t.osem.q) /\ w.rest # <<>> /\ OutSum(w.t) = m
    BY <1>1, <1>3 DEF One
  <2>2. /\ x \in Puts /\ OutGood(x.t) /\ SameIn(w.t, x.t) /\ Due(w.t, x.t) /\ OutSum(x.t) = OutSum(w.t) - 1
        /\ x.rest = w.rest /\ x.op = w.op
        /\ ToSet(x.t.osem.q) \subseteq ToSet(w.t.osem.q) \cup {p}
        /\ (~Blocks(w.t.osem) => p \notin ToSet(x.t.osem.q))
    BY <1>1, <2>1, WaitingGood
  <2> HIDE DEF x
  <2>3. SameIn(t, x.t) /\ Due(t, x.t)
    BY <1>1, <2>2, DueOn DEF SameIn
  <2>4. CASE Blocks(w.t.osem)
    <3> DEFINE v == [x EXCEPT !.op = "put"]
    <3>1. PutNext(w, p) = v
      BY <1>3, <2>4 DEF PutNext, x
    <3>2. v \in Puts /\ v.t = x.t /\ v.rest = x.rest /\ v.op = "put"
      BY <2>2 DEF Puts
    <3> HIDE DEF v
    <3>3. OutSum(v.t) = m - One(v.op, {"put"})
      BY <2>1, <2>2, <3>2 DEF One
    <3>4. QED  BY <1>1, <2>1, <2>2, <2>3, <3>1, <3>2, <3>3 DEF PutGood
  <2>5. CASE ~Blocks(w.t.osem)
    <3> DEFINE v == PutOne(x)
    <3>1. PutNext(w, p) = v
      BY <1>3, <2>5 DEF PutNext, x
    <3>2. /\ v \in Puts /\ OutGood(v.t) /\ SameIn(x.t, v.t) /\ Started(v.t) /\ OutSum(v.t) = OutSum(x.t) + 1
          /\ ToSet(v.t.osem.q) \subseteq ToSet(x.t.osem.q)
          /\ v.op # "put" /\ (v.op # "user" => v.rest # <<>>)
      BY <2>1, <2>2, PutOneGood
    <3> HIDE DEF v
    <3>3. SameIn(t, v.t) /\ Due(t, v.t)
      BY <2>3, <3>2 DEF SameIn, Due
    <3>4. OutSum(v.t) = m - One(v.op, {"put"})
      <4>1. OutSum(x.t) \in Int /\ OutSum(w.t) \in Int
        BY <1>1, <2>2, OutFacts
      <4>2. One(v.op, {"put"}) = 0
        BY <3>2 DEF One
      <4>3. QED  BY <2>1, <2>2, <3>2, <4>1, <4>2
    <3>5. p \notin ToSet(v.t.osem.q) /\ ToSet(v.t.osem.q) \subseteq ToSet(t.osem.q) \cup {p}
      BY <1>1, <2>2, <2>5, <3>2
    <3>6. QED  BY <3>1, <3>2, <3>3, <3>4, <3>5 DEF PutGood
  <2>6. QED  BY <2>4, <2>5
<1>4. QED  BY <1>2, <1>3

LEMMA PutAllGood ==
  ASSUME NEW t, NEW p \in Procs, NEW m \in Int, NEW w, PutGood(t, p, m, w)
  PROVE  PutGood(t, p, m, PutAll(w, p))
<1> DEFINE n == Len(w.rest)
           S == {u \in Puts : PutGood(t, p, m, u)}
           step(u) == PutNext(u, p)
           g == [u \in S |-> step(u)]
           Loop(f) == f = [i \in 0 .. n |-> IF i = 0 THEN w ELSE step(f[i-1])]
<1>1. w \in S /\ n \in Nat
  BY DEF PutGood, Puts
<1>2. ASSUME NEW u \in S PROVE step(u) \in S
  <2>1. PutGood(t, p, m, PutNext(u, p))
    BY PutNextGood
  <2>2. QED  BY <2>1 DEF PutGood
<1>3. g \in [S -> S] /\ \A u \in S : g[u] = step(u)
  BY <1>2
<1>4. \A u \in S : PutGood(t, p, m, u)
  OBVIOUS
<1> HIDE DEF S, g, Loop, step, n
<1>5. PICK f : Iterates(f, n, S, g, w)
  BY ONLY <1>1, <1>3, Iterated
<1>6. f \in [0 .. n -> S] /\ f[0] = w /\ \A i \in 1 .. n : f[i] = g[f[i-1]]
  BY ONLY <1>5 DEF Iterates
<1>7. \A i \in 0 .. n : f[i] = IF i = 0 THEN w ELSE step(f[i-1])
  <2>1. TAKE i \in 0 .. n
  <2>2. CASE i # 0
    <3>1. i - 1 \in 0 .. n /\ i \in 1 .. n
      BY <1>1, <2>2
    <3>2. f[i-1] \in S
      BY <1>6, <3>1
    <3>3. QED  BY <1>3, <1>6, <2>2, <3>1, <3>2
  <2>3. QED  BY <1>6, <2>2
<1>8. Loop(f)
  BY ONLY <1>6, <1>7 DEF Loop
<1> DEFINE r == CHOOSE x : Loop(x)
<1>9. Loop(r)
  BY <1>8
<1>10. PutAll(w, p) = r[n]
  BY DEF PutAll, Loop, step, n
<1> HIDE DEF r
<1>11. r[0] = w /\ \A k \in 1 .. n : r[k] = step(r[k-1])
  <2>1. 0 \in 0 .. n /\ \A k \in 1 .. n : k \in 0 .. n /\ k # 0
    BY <1>1
  <2>2. QED  BY ONLY <1>9, <2>1 DEF Loop
<1>12. \A k \in 0 .. n : r[k] \in S
  <2>1. \A k \in 1 .. n : r[k-1] \in S => r[k] = g[r[k-1]]
    BY <1>3, <1>11
  <2>2. QED  BY ONLY <1>1, <1>3, <1>11, <2>1, LoopIn
<1>13. n \in 0 .. n
  BY <1>1
<1>14. QED  BY <1>4, <1>10, <1>12, <1>13

------------------------------------------------------------------------------
(* The loop of ttyread. *)

\* The loop that waits for characters, on a record of the control block and what is read.
Gets == [t : Ttys, n : Nat, got : Seq(Codes), op : {"go", "read", "user"}]

\* What reading does to the ring of the input: some of the first characters are gone.
ReadsOff(t, u) == u.ibuff = t.ibuff /\ u.ihead = t.ihead /\ u.icursor = t.icursor /\ u.icnt <= t.icnt

LEMMA ReadsOn ==
  ASSUME NEW t \in Ttys, NEW u \in Ttys, NEW v \in Ttys, ReadsOff(t, u), ReadsOff(u, v)
  PROVE  ReadsOff(t, v)
BY DEF ReadsOff, Ttys

\* What the loop of process p keeps, from the control block t and with m units of isem in
\* all beyond the characters.
TakeGood(t, p, m, r) ==
  /\ r \in Gets /\ InGood(r.t) /\ SameOut(t, r.t)
  /\ ToSet(r.t.isem.q) \subseteq ToSet(t.isem.q) \cup {p} /\ (p \in ToSet(r.t.isem.q) => r.op = "read")
  /\ InSum(r.t) = m - One(r.op, {"read"})
  /\ (r.op # "user" => r.n > 0)
  /\ ReadsOff(t, r.t)

LEMMA InFacts ==
  ASSUME NEW t, InGood(t)
  PROVE  /\ t \in Ttys /\ Sound(t.isem) /\ InRing(t) /\ t.ihead \in Int /\ t.itail \in IPlaces /\ t.itail \in Int
         /\ t.icnt \in Int /\ t.icursor \in Int /\ t.isem.n \in Int /\ t.ibuff \in [IPlaces -> Codes]
         /\ InSum(t) \in Int
<1>1. /\ t \in Ttys /\ Sound(t.isem) /\ InRing(t) /\ t.ihead \in IPlaces /\ t.itail \in IPlaces
      /\ t.icnt \in Int /\ t.icursor \in IPlaces /\ t.ibuff \in [IPlaces -> Codes]
  BY DEF InGood, Ttys
<1>2. t.isem.n \in Int
  BY <1>1, SoundFacts
<1>3. QED  BY <1>1, <1>2, Sizes DEF IPlaces, InSum

LEMMA ConsumedGood ==
  ASSUME NEW t, InGood(t), NEW n \in Nat
  PROVE  LET u == Consumed(t, n) IN
         /\ InGood(u) /\ SameOut(t, u) /\ u.isem = t.isem /\ InSum(u) = InSum(t) + n /\ u.icnt = t.icnt - n
         /\ ReadsOff(t, u)
<1> DEFINE x == t.ihead - t.itail - t.icnt - t.icursor
           y == t.itail + n
           tail == (t.itail + n) % IBUFLEN
           u == [t EXCEPT !.itail = tail, !.icnt = t.icnt - n]
<1>1. /\ t \in Ttys /\ Sound(t.isem) /\ InRing(t) /\ t.ihead \in Int /\ t.itail \in Int /\ t.icnt \in Int
      /\ t.icursor \in Int /\ t.isem.n \in Int
  BY InFacts
<1>2. x \in Int /\ y \in Int /\ x % IBUFLEN = 0 /\ IBUFLEN \in Nat \ {0}
  BY <1>1, Sizes DEF InRing
<1> HIDE DEF y
<1>3. (x + y - (y % IBUFLEN)) % IBUFLEN = 0
  BY ONLY <1>2, Reduced
<1>4. y % IBUFLEN \in 0 .. IBUFLEN - 1
  BY ONLY <1>2, RoundTyped
<1>5. x + y - (y % IBUFLEN) = t.ihead - (y % IBUFLEN) - (t.icnt - n) - t.icursor
  BY <1>1, <1>4 DEF y
<1>6. tail \in IPlaces /\ (t.ihead - tail - (t.icnt - n) - t.icursor) % IBUFLEN = 0 /\ t.icnt - n \in Int
  BY <1>1, <1>3, <1>4, <1>5 DEF y, IPlaces
<1>7. Consumed(t, n) = u
  BY DEF Consumed
<1> HIDE DEF tail
<1>8. /\ u \in Ttys /\ SameOut(t, u) /\ u.isem = t.isem /\ u.icnt = t.icnt - n /\ u.ihead = t.ihead /\ u.itail = tail
      /\ u.icursor = t.icursor /\ u.iintr = t.iintr /\ u.iintpid = t.iintpid /\ u.ibuff = t.ibuff
  <2>1. u \in Ttys
    <3>1. t \in Ttys /\ tail \in IPlaces /\ t.icnt - n \in Int
      BY <1>1, <1>6
    <3>2. QED  BY ONLY <3>1 DEF Ttys
  <2>2. /\ SameOut(t, u) /\ u.isem = t.isem /\ u.icnt = t.icnt - n /\ u.ihead = t.ihead /\ u.itail = tail
        /\ u.icursor = t.icursor /\ u.iintr = t.iintr /\ u.iintpid = t.iintpid /\ u.ibuff = t.ibuff
    BY <1>1 DEF Ttys, SameOut
  <2>3. QED  BY <2>1, <2>2
<1> HIDE DEF u
<1>9. InSum(u) = InSum(t) + n
  BY <1>1, <1>8 DEF InSum
<1>10. ReadsOff(t, u)
  BY <1>1, <1>8 DEF ReadsOff
<1>11. QED  BY <1>1, <1>6, <1>7, <1>8, <1>9, <1>10 DEF InGood, InRing

\* What only changes isem.
LEMMA IsemGood ==
  ASSUME NEW t, InGood(t), NEW s, Sound(s)
  PROVE  LET u == [t EXCEPT !.isem = s] IN
         InGood(u) /\ SameOut(t, u) /\ u.isem = s /\ u.icnt = t.icnt /\ InSum(u) = s.n - t.icnt /\ ReadsOff(t, u)
<1> DEFINE u == [t EXCEPT !.isem = s]
<1>1. t \in Ttys /\ InRing(t) /\ s \in SemSet /\ t.icnt \in Int
  BY InFacts DEF Sound, SemSet
<1>2. /\ u \in Ttys /\ SameOut(t, u) /\ u.isem = s /\ u.icnt = t.icnt /\ u.ihead = t.ihead /\ u.itail = t.itail
      /\ u.icursor = t.icursor /\ u.iintr = t.iintr /\ u.iintpid = t.iintpid /\ u.ibuff = t.ibuff
  BY <1>1 DEF Ttys, SameOut
<1> HIDE DEF u
<1>3. InGood(u) /\ InSum(u) = s.n - t.icnt /\ ReadsOff(t, u)
  BY <1>1, <1>2 DEF InGood, InRing, InSum, ReadsOff
<1>4. QED  BY <1>2, <1>3 DEF u

LEMMA TakeOneGood ==
  ASSUME NEW r \in Gets, InGood(r.t), r.n > 0
  PROVE  LET v == TakeOne(r) IN
         /\ v \in Gets /\ InGood(v.t) /\ SameOut(r.t, v.t) /\ InSum(v.t) = InSum(r.t) + 1 /\ ReadsOff(r.t, v.t)
         /\ ToSet(v.t.isem.q) \subseteq ToSet(r.t.isem.q)
         /\ v.op \in {"user", "go"} /\ (v.op = "go" => v.n > 0 /\ v.n = r.n - 1)
<1> DEFINE ch == First(r.t)
           c == Consumed(r.t, 1)
           u == [r.t EXCEPT !.isem = Signaled(r.t.isem)]
           op == IF ch = "NL" \/ r.n = 1 THEN "user" ELSE "go"
           got == Append(r.got, ch)
<1>1. r.t \in Ttys /\ Sound(r.t.isem) /\ r.t.icnt \in Int /\ r.t.isem.n \in Int /\ ch \in Codes
  BY InFacts DEF First
<1>2. InGood(c) /\ SameOut(r.t, c) /\ c.isem = r.t.isem /\ InSum(c) = InSum(r.t) + 1 /\ c \in Ttys /\ ReadsOff(r.t, c)
  <2>1. 1 \in Nat
    OBVIOUS
  <2>2. QED  BY <2>1, ConsumedGood DEF InGood
<1>3. /\ InGood(u) /\ SameOut(r.t, u) /\ ToSet(u.isem.q) \subseteq ToSet(r.t.isem.q) /\ InSum(u) = InSum(r.t) + 1
      /\ u \in Ttys /\ ReadsOff(r.t, u)
  <2> DEFINE s == Signaled(r.t.isem)
  <2>1. Sound(s) /\ s.n = r.t.isem.n + 1 /\ ToSet(s.q) \subseteq ToSet(r.t.isem.q)
    BY <1>1, SignaledSubset
  <2>2. u = [r.t EXCEPT !.isem = s]
    OBVIOUS
  <2> HIDE DEF s, u
  <2>3. InGood(u) /\ SameOut(r.t, u) /\ u.isem = s /\ InSum(u) = s.n - r.t.icnt /\ ReadsOff(r.t, u)
    BY <2>1, <2>2, IsemGood
  <2>4. InSum(u) = InSum(r.t) + 1
    BY <1>1, <2>1, <2>3 DEF InSum
  <2>5. QED  BY <2>1, <2>3, <2>4 DEF InGood
<1>4. r.n \in Nat /\ r.n - 1 \in Nat /\ got \in Seq(Codes)
  BY <1>1 DEF Gets
<1>5. CASE ch = "EOF" /\ r.got = <<>>
  <2>1. TakeOne(r) = [r EXCEPT !.t = c, !.op = "user"]
    BY <1>5 DEF TakeOne
  <2> HIDE DEF c, ch
  <2>2. QED  BY <1>2, <2>1 DEF Gets
<1>6. CASE ch = "EOF" /\ r.got # <<>>
  <2>1. TakeOne(r) = [r EXCEPT !.t = u, !.op = "user"]
    BY <1>6 DEF TakeOne, Gets
  <2> HIDE DEF u, ch
  <2>2. QED  BY <1>3, <2>1 DEF Gets
<1>7. CASE ch # "EOF"
  <2>1. TakeOne(r) = [r EXCEPT !.t = c, !.got = got, !.n = r.n - 1, !.op = op]
    BY <1>7 DEF TakeOne
  <2>2. op \in {"user", "go"} /\ (op = "go" => r.n - 1 > 0)
    BY <1>4
  <2> HIDE DEF c, ch, op, got
  <2> DEFINE v == [r EXCEPT !.t = c, !.got = got, !.n = r.n - 1, !.op = op]
  <2>3. v \in Gets /\ v.t = c /\ v.n = r.n - 1 /\ v.op = op
    BY <1>2, <1>4, <2>2 DEF Gets
  <2> HIDE DEF v
  <2>4. QED  BY <1>2, <2>1, <2>2, <2>3 DEF v
<1>8. QED  BY <1>5, <1>6, <1>7

LEMMA TakeNextGood ==
  ASSUME NEW t \in Ttys, NEW p \in Procs, NEW m \in Int, NEW r, TakeGood(t, p, m, r)
  PROVE  LET v == TakeNext(r, p) IN
         TakeGood(t, p, m, v) /\ (v.op = "go" => r.op = "go" /\ v.n = r.n - 1)
<1>1. r \in Gets /\ InGood(r.t) /\ SameOut(t, r.t) /\ (r.op # "user" => r.n > 0)
      /\ ToSet(r.t.isem.q) \subseteq ToSet(t.isem.q) \cup {p} /\ (p \in ToSet(r.t.isem.q) => r.op = "read")
      /\ InSum(r.t) = m - One(r.op, {"read"}) /\ ReadsOff(t, r.t)
  BY DEF TakeGood
<1>2. CASE r.op # "go"
  BY <1>2 DEF TakeNext
<1>3. CASE r.op = "go"
  <2> DEFINE s == Waited(r.t.isem, p)
             u == [r.t EXCEPT !.isem = s]
             x == [r EXCEPT !.t = u]
  <2>1. p \notin ToSet(r.t.isem.q) /\ r.n > 0 /\ InSum(r.t) = m
    BY <1>1, <1>3 DEF One
  <2>2. Sound(r.t.isem) /\ r.t.isem.n \in Int /\ r.t.icnt \in Int
    BY <1>1, InFacts
  <2>3. /\ Sound(s) /\ s.n = r.t.isem.n - 1
        /\ ToSet(s.q) = IF r.t.isem.n <= 0 THEN ToSet(r.t.isem.q) \cup {p} ELSE {}
        /\ Blocks(r.t.isem) <=> r.t.isem.n <= 0
    BY <2>1, <2>2, WaitedSound
  <2>4. InGood(u) /\ SameOut(r.t, u) /\ u.isem = s /\ InSum(u) = s.n - r.t.icnt /\ u \in Ttys /\ ReadsOff(r.t, u)
    BY <1>1, <2>3, IsemGood DEF InGood
  <2>5. InSum(u) = m - 1
    BY <2>1, <2>2, <2>3, <2>4 DEF InSum
  <2>6. TakeNext(r, p) = IF Blocks(r.t.isem) THEN [x EXCEPT !.op = "read"] ELSE TakeOne(x)
    BY <1>1, <1>3 DEF TakeNext, Gets
  <2>7. ToSet(s.q) \subseteq ToSet(t.isem.q) \cup {p} /\ (~Blocks(r.t.isem) => p \notin ToSet(s.q))
    BY <1>1, <2>3
  <2>8. SameOut(t, u) /\ ReadsOff(t, u)
    BY <1>1, <2>4, ReadsOn DEF SameOut, InGood
  <2> HIDE DEF s, u
  <2>9. x \in Gets /\ x.t = u /\ x.n = r.n /\ x.op = r.op /\ x.got = r.got
    BY <1>1, <2>4 DEF Gets
  <2> HIDE DEF x
  <2>10. CASE Blocks(r.t.isem)
    <3> DEFINE v == [x EXCEPT !.op = "read"]
    <3>1. v \in Gets /\ v.t = u /\ v.n = r.n /\ v.op = "read"
      BY <2>9 DEF Gets
    <3>2. TakeNext(r, p) = v
      BY <2>6, <2>10
    <3> HIDE DEF v
    <3>3. InSum(v.t) = m - One(v.op, {"read"})
      BY <2>5, <3>1 DEF One
    <3>4. QED  BY <2>1, <2>4, <2>7, <2>8, <3>1, <3>2, <3>3 DEF TakeGood
  <2>11. CASE ~Blocks(r.t.isem)
    <3> DEFINE v == TakeOne(x)
    <3>1. TakeNext(r, p) = v
      BY <2>6, <2>11
    <3>2. /\ v \in Gets /\ InGood(v.t) /\ SameOut(x.t, v.t) /\ InSum(v.t) = InSum(x.t) + 1
          /\ ToSet(v.t.isem.q) \subseteq ToSet(x.t.isem.q)
          /\ v.op \in {"user", "go"} /\ (v.op = "go" => v.n > 0 /\ v.n = x.n - 1) /\ ReadsOff(x.t, v.t)
      BY <2>1, <2>4, <2>9, TakeOneGood
    <3> HIDE DEF v
    <3>3. InSum(v.t) = m - One(v.op, {"read"})
      BY <2>5, <2>9, <3>2 DEF One
    <3>4. SameOut(t, v.t) /\ ReadsOff(t, v.t)
      BY <2>4, <2>8, <2>9, <3>2, ReadsOn DEF SameOut, InGood
    <3>5. p \notin ToSet(v.t.isem.q) /\ ToSet(v.t.isem.q) \subseteq ToSet(t.isem.q) \cup {p}
      BY <2>4, <2>7, <2>9, <2>11, <3>2
    <3>6. TakeGood(t, p, m, v)
      BY <3>2, <3>3, <3>4, <3>5 DEF TakeGood
    <3>7. QED  BY <1>3, <2>9, <3>1, <3>2, <3>6
  <2>12. QED  BY <2>10, <2>11
<1>4. QED  BY <1>2, <1>3

\* The loop never ends in its middle.
LEMMA TakeAllGood ==
  ASSUME NEW t \in Ttys, NEW p \in Procs, NEW m \in Int, NEW r, TakeGood(t, p, m, r)
  PROVE  TakeGood(t, p, m, TakeAll(r, p)) /\ TakeAll(r, p).op # "go"
<1> DEFINE n == r.n
           S == {u \in Gets : TakeGood(t, p, m, u)}
           step(u) == TakeNext(u, p)
           g == [u \in S |-> step(u)]
           Loop(f) == f = [i \in 0 .. n |-> IF i = 0 THEN r ELSE step(f[i-1])]
<1>1. r \in S /\ n \in Nat
  BY DEF TakeGood, Gets
<1>2. ASSUME NEW u \in S PROVE step(u) \in S /\ (step(u).op = "go" => u.op = "go" /\ step(u).n = u.n - 1)
  <2>1. TakeGood(t, p, m, TakeNext(u, p)) /\ (TakeNext(u, p).op = "go" => u.op = "go" /\ TakeNext(u, p).n = u.n - 1)
    BY TakeNextGood
  <2>2. QED  BY <2>1 DEF TakeGood
<1>3. g \in [S -> S] /\ \A u \in S : g[u] = step(u)
  BY <1>2
<1>4. \A u \in S : TakeGood(t, p, m, u) /\ (u.op = "go" => u.n > 0) /\ u.n \in Nat
  BY DEF TakeGood, Gets
<1>5. \A u \in S : step(u).op = "go" => u.op = "go" /\ step(u).n = u.n - 1
  BY <1>2
<1> HIDE DEF S, g, Loop, step
<1>6. PICK f : Iterates(f, n, S, g, r)
  <2> HIDE DEF n
  <2>1. QED  BY ONLY <1>1, <1>3, Iterated
<1>7. f \in [0 .. n -> S] /\ f[0] = r /\ \A i \in 1 .. n : f[i] = g[f[i-1]]
  BY ONLY <1>6 DEF Iterates
<1>8. \A i \in 0 .. n : f[i] = IF i = 0 THEN r ELSE step(f[i-1])
  <2>1. TAKE i \in 0 .. n
  <2>2. CASE i # 0
    <3>1. i - 1 \in 0 .. n /\ i \in 1 .. n
      BY <1>1, <2>2
    <3>2. f[i-1] \in S
      BY <1>7, <3>1
    <3>3. QED  BY <1>3, <1>7, <2>2, <3>1, <3>2
  <2>3. QED  BY <1>7, <2>2
<1>9. Loop(f)
  BY ONLY <1>7, <1>8 DEF Loop
<1> DEFINE s == CHOOSE x : Loop(x)
<1>10. Loop(s)
  BY <1>9
<1>11. TakeAll(r, p) = s[n]
  BY DEF TakeAll, Loop, step
<1> HIDE DEF s
<1>12. s[0] = r /\ \A k \in 1 .. n : s[k] = step(s[k-1])
  <2>1. 0 \in 0 .. n /\ \A k \in 1 .. n : k \in 0 .. n /\ k # 0
    BY <1>1
  <2>2. QED  BY ONLY <1>10, <2>1 DEF Loop
<1>13. \A k \in 0 .. n : s[k] \in S
  <2>1. \A k \in 1 .. n : s[k-1] \in S => s[k] = g[s[k-1]]
    BY <1>3, <1>12
  <2> HIDE DEF n
  <2>2. QED  BY ONLY <1>1, <1>3, <1>12, <2>1, LoopIn
<1> DEFINE T == {k \in 0 .. n : s[k].op = "go" => s[k].n = n - k}
<1>14. 0 \in T
  BY <1>1, <1>12
<1>15. ASSUME NEW k \in 1 .. n, k - 1 \in T PROVE k \in T
  <2>1. k \in 0 .. n /\ k - 1 \in 0 .. n /\ s[k-1] \in S /\ s[k] = step(s[k-1])
    BY <1>1, <1>12, <1>13
  <2>2. s[k].op = "go" => s[k-1].op = "go" /\ s[k].n = s[k-1].n - 1
    BY <1>5, <2>1
  <2>3. s[k].op = "go" => s[k].n = n - k
    BY <1>1, <1>15, <2>1, <2>2
  <2>4. QED  BY <2>1, <2>3
<1>16. n \in 0 .. n /\ n \in T
  <2>1. n \in 0 .. n
    BY <1>1
  <2> HIDE DEF n, T
  <2>2. \A k \in 0 .. n : k \in T
    BY ONLY <1>1, <1>14, <1>15, UpTo
  <2>3. QED  BY <2>1, <2>2
<1>17. QED
  <2>1. s[n] \in S /\ (s[n].op = "go" => s[n].n = 0)
    BY <1>1, <1>13, <1>16
  <2>2. QED  BY <1>4, <1>11, <2>1

------------------------------------------------------------------------------
(* What writcopy copies: for each character itself or two, and only what there is room for. *)

LEMMA MaxUpTo ==
  ASSUME NEW n \in Nat, NEW T, T \subseteq 0 .. n, 0 \in T
  PROVE  Max(T) \in T /\ \A y \in T : y <= Max(T)
<1> DEFINE U == {k \in 0 .. n : n - k \in T}
<1>1. U \subseteq Nat /\ n \in U
  BY DEF U
<1>2. PICK k \in U : \A j \in U : k <= j
  BY <1>1, MinNat
<1>3. n - k \in T /\ k \in 0 .. n
  BY <1>2
<1>4. \A y \in T : y <= n - k
  <2>1. TAKE y \in T
  <2>2. y \in 0 .. n /\ n - y \in 0 .. n /\ n - (n - y) = y
    OBVIOUS
  <2>3. n - y \in U
    BY <2>2
  <2>4. k <= n - y
    BY <1>2, <2>3
  <2>5. QED  BY <1>3, <2>2, <2>4
<1>5. \E x \in T : \A y \in T : x >= y
  BY <1>3, <1>4
<1>6. Max(T) \in T /\ \A y \in T : Max(T) >= y
  BY <1>5 DEF Max
<1>7. QED  BY <1>6

\* What FlattenSeq is: its recursion has a result.
Flat(r, w) == r = [i \in 1 .. Len(w) |-> IF i = 1 THEN w[i] ELSE r[i-1] \o w[i]]

LEMMA FlatIs ==
  ASSUME NEW S, NEW w \in Seq(Seq(S)), w # <<>>
  PROVE  \E r : Flat(r, w) /\ FlattenSeq(w) = r[Len(w)]
<1> DEFINE n == Len(w)
           R == [i : 1 .. n, l : Seq(S)]
           first == [i |-> 1, l |-> w[1]]
           step(u) == IF u.i < n THEN [i |-> u.i + 1, l |-> u.l \o w[u.i + 1]] ELSE u
           g == [u \in R |-> step(u)]
           m == n - 1
<1>1. n \in Nat /\ n > 0 /\ m \in Nat /\ \A i \in 1 .. n : w[i] \in Seq(S)
  BY DEF n
<1>2. first \in R
  BY <1>1
<1>3. ASSUME NEW u \in R PROVE step(u) \in R
  <2>1. CASE u.i < n
    <3>1. u.i + 1 \in 1 .. n /\ u.l \in Seq(S)
      BY <1>1, <2>1
    <3>2. u.l \o w[u.i + 1] \in Seq(S)
      BY <1>1, <3>1
    <3>3. QED  BY <2>1, <3>1, <3>2
  <2>2. QED  BY <2>1
<1>4. g \in [R -> R] /\ \A u \in R : g[u] = step(u)
  BY <1>3
<1>5. first.i = 1 /\ first.l = w[1] /\ \A u \in R : u.i < n => step(u).i = u.i + 1 /\ step(u).l = u.l \o w[u.i + 1]
  OBVIOUS
<1>6. PICK f : Iterates(f, m, R, g, first)
  <2> HIDE DEF g, m, first, R
  <2>1. QED  BY ONLY <1>1, <1>2, <1>4, Iterated
<1> HIDE DEF g, step, first
<1>7. f \in [0 .. m -> R] /\ f[0] = first /\ \A i \in 1 .. m : f[i] = g[f[i-1]]
  BY ONLY <1>6 DEF Iterates
<1> DEFINE T == {k \in 0 .. m : f[k].i = k + 1}
<1>8. ASSUME NEW k \in 1 .. m, k - 1 \in T PROVE k \in T /\ f[k].l = f[k-1].l \o w[k + 1]
  <2>1. k - 1 \in 0 .. m /\ k \in 0 .. m /\ k < n /\ (k - 1) + 1 = k
    BY <1>1
  <2>2. f[k-1].i = (k - 1) + 1
    BY <1>8
  <2> HIDE DEF R, m, n
  <2>3. f[k-1] \in R /\ f[k-1].i = k /\ f[k] = g[f[k-1]]
    BY <1>7, <2>1, <2>2
  <2>4. f[k] = step(f[k-1])
    BY ONLY <1>4, <2>3
  <2>5. f[k].i = k + 1 /\ f[k].l = f[k-1].l \o w[k + 1]
    BY <1>5, <2>1, <2>3, <2>4
  <2>6. QED  BY <2>1, <2>5
<1>9. \A k \in 0 .. m : k \in T
  <2>1. 0 \in T
    BY <1>1, <1>5, <1>7
  <2> HIDE DEF T, m
  <2>2. QED  BY ONLY <1>1, <1>8, <2>1, UpTo
<1> DEFINE r == [i \in 1 .. n |-> f[i-1].l]
<1>10. \A i \in 1 .. n : r[i] = IF i = 1 THEN w[i] ELSE r[i-1] \o w[i]
  <2>1. TAKE i \in 1 .. n
  <2>2. CASE i = 1
    BY <1>5, <1>7, <2>2
  <2>3. CASE i # 1
    <3>1. i - 1 \in 1 .. m /\ i - 1 \in 1 .. n /\ (i - 1) - 1 \in 0 .. m /\ (i - 1) + 1 = i
      BY <1>1, <2>3
    <3>2. f[i-1].l = f[(i-1)-1].l \o w[i]
      <4>1. (i - 1) - 1 \in T
        BY <1>9, <3>1
      <4>2. f[i-1].l = f[(i-1)-1].l \o w[(i-1)+1]
        BY <1>8, <3>1, <4>1
      <4>3. QED  BY <3>1, <4>2
    <3>3. r[i] = f[i-1].l /\ r[i-1] = f[(i-1)-1].l
      BY <3>1
    <3>4. QED  BY <2>3, <3>2, <3>3
  <2>4. QED  BY <2>2, <2>3
<1>11. Flat(r, w)
  <2> DEFINE z == [i \in 1 .. n |-> IF i = 1 THEN w[i] ELSE r[i-1] \o w[i]]
  <2>1. r = z
    BY <1>10
  <2>2. QED  BY <2>1 DEF Flat
<1> HIDE DEF r
<1> DEFINE q == CHOOSE x : Flat(x, w)
<1>12. Flat(q, w)
  BY <1>11
<1>13. FlattenSeq(w) = q[Len(w)]
  BY <1>1 DEF FlattenSeq, Flat
<1> HIDE DEF q
<1>14. QED  BY <1>12, <1>13

\* Flattening a list is flattening all but its last part, and putting that at the end.
LEMMA FlattenLast ==
  ASSUME NEW S, NEW w \in Seq(Seq(S)), NEW v \in Seq(Seq(S)), v # <<>>, Len(w) = Len(v) + 1,
         \A i \in 1 .. Len(v) : w[i] = v[i]
  PROVE  FlattenSeq(w) = FlattenSeq(v) \o w[Len(w)]
<1> DEFINE n == Len(v)
<1>1. n \in Nat /\ n > 0 /\ Len(w) = n + 1 /\ w # <<>>
  BY DEF n
<1>2. PICK r : Flat(r, w) /\ FlattenSeq(w) = r[Len(w)]
  BY <1>1, FlatIs
<1>3. PICK q : Flat(q, v) /\ FlattenSeq(v) = q[Len(v)]
  BY FlatIs
<1>4. \A i \in 1 .. n + 1 : r[i] = IF i = 1 THEN w[i] ELSE r[i-1] \o w[i]
  BY <1>1, <1>2 DEF Flat
<1>5. \A i \in 1 .. n : q[i] = IF i = 1 THEN v[i] ELSE q[i-1] \o v[i]
  BY <1>3 DEF Flat
<1>6. \A i \in 1 .. n : w[i] = v[i]
  OBVIOUS
<1>7. FlattenSeq(w) = r[n + 1] /\ FlattenSeq(v) = q[n]
  BY <1>1, <1>2, <1>3
<1> HIDE DEF n
<1> DEFINE m == n - 1
           T == {k \in 0 .. m : r[k+1] = q[k+1]}
<1>8. m \in Nat
  BY <1>1
<1>9. 0 \in T
  BY <1>1, <1>4, <1>5, <1>6
<1>10. ASSUME NEW k \in 1 .. m, k - 1 \in T PROVE k \in T
  <2>1. k + 1 \in 1 .. n + 1 /\ k + 1 \in 1 .. n /\ k + 1 # 1 /\ (k + 1) - 1 = k /\ (k - 1) + 1 = k /\ k \in 0 .. m
    BY <1>1
  <2>2. r[k] = q[k]
    BY <1>10, <2>1
  <2>3. r[k + 1] = r[k] \o w[k + 1] /\ q[k + 1] = q[k] \o v[k + 1] /\ w[k + 1] = v[k + 1]
    BY <1>4, <1>5, <1>6, <2>1
  <2>4. QED  BY <2>1, <2>2, <2>3
<1>11. m \in 0 .. m /\ m \in T
  <2>1. m \in 0 .. m
    BY <1>8
  <2> HIDE DEF m, T
  <2>2. \A k \in 0 .. m : k \in T
    BY ONLY <1>8, <1>9, <1>10, UpTo
  <2>3. QED  BY <2>1, <2>2
<1>12. r[n] = q[n]
  <2>1. m + 1 = n
    BY <1>1
  <2>2. QED  BY <1>11, <2>1
<1>13. r[n + 1] = r[n] \o w[n + 1]
  <2>1. n + 1 \in 1 .. n + 1 /\ n + 1 # 1 /\ (n + 1) - 1 = n
    BY <1>1
  <2>2. QED  BY <1>4, <2>1
<1>14. QED  BY <1>1, <1>7, <1>12, <1>13

Piece(c) == IF c = "NL" THEN <<"CR", "NL">> ELSE <<c>>
Pieces(text) == [i \in 1 .. Len(text) |-> Piece(text[i])]

LEMMA PieceTyped ==
  ASSUME NEW c \in Codes
  PROVE  Piece(c) \in Seq(Codes) /\ Len(Piece(c)) \in 1 .. 2
<1>1. "CR" \in Codes /\ "NL" \in Codes
  BY DEF Codes, Keys
<1>2. CASE c = "NL"
  <2> DEFINE a == "CR"
             b == "NL"
  <2>1. Piece(c) = <<a, b>> /\ a \in Codes /\ b \in Codes
    BY <1>1, <1>2 DEF Piece
  <2> HIDE DEF a, b
  <2>2. QED  BY <2>1
<1>3. CASE c # "NL"
  <2>1. Piece(c) = <<c>>
    BY <1>3 DEF Piece
  <2>2. QED  BY <2>1
<1>4. QED  BY <1>2, <1>3

LEMMA PiecesTyped ==
  ASSUME NEW text \in Seq(Codes)
  PROVE  /\ Pieces(text) \in Seq(Seq(Codes)) /\ Len(Pieces(text)) = Len(text)
         /\ \A i \in 1 .. Len(text) : Pieces(text)[i] = Piece(text[i])
         /\ Mapped(text) = FlattenSeq(Pieces(text))
<1> DEFINE n == Len(text)
           w == [i \in 1 .. n |-> Piece(text[i])]
<1>1. n \in Nat /\ \A i \in 1 .. n : text[i] \in Codes
  OBVIOUS
<1>2. \A i \in 1 .. n : Piece(text[i]) \in Seq(Codes)
  BY <1>1, PieceTyped
<1> HIDE DEF n
<1>3. w \in Seq(Seq(Codes)) /\ Len(w) = n /\ \A i \in 1 .. n : w[i] = Piece(text[i])
  BY <1>1, <1>2
<1>4. Pieces(text) = w
  BY DEF Pieces, n
<1>5. Mapped(text) = FlattenSeq(Pieces(text))
  BY DEF Mapped, Pieces, Piece
<1>6. QED  BY <1>3, <1>4, <1>5 DEF n

LEMMA MappedNext ==
  ASSUME NEW text \in Seq(Codes), NEW k \in 1 .. Len(text)
  PROVE  Mapped(SubSeq(text, 1, k - 1)) \in Seq(Codes) =>
           Mapped(SubSeq(text, 1, k)) = Mapped(SubSeq(text, 1, k - 1)) \o Piece(text[k])
<1> DEFINE a == SubSeq(text, 1, k)
           b == SubSeq(text, 1, k - 1)
           w == Pieces(a)
           v == Pieces(b)
<1>1. /\ a \in Seq(Codes) /\ Len(a) = k /\ \A i \in 1 .. k : a[i] = text[i]
      /\ b \in Seq(Codes) /\ Len(b) = k - 1 /\ \A i \in 1 .. k - 1 : b[i] = text[i]
      /\ k \in Nat /\ text[k] \in Codes
  BY SubSeqList
<1> HIDE DEF a, b
<1>2. /\ w \in Seq(Seq(Codes)) /\ Len(w) = k /\ \A i \in 1 .. k : w[i] = Piece(a[i])
      /\ v \in Seq(Seq(Codes)) /\ Len(v) = k - 1 /\ \A i \in 1 .. k - 1 : v[i] = Piece(b[i])
      /\ Mapped(a) = FlattenSeq(w) /\ Mapped(b) = FlattenSeq(v)
  BY <1>1, PiecesTyped
<1> HIDE DEF w, v
<1>3. Piece(text[k]) \in Seq(Codes)
  BY <1>1, PieceTyped
<1>4. CASE k = 1
  <2>1. PICK r : Flat(r, w) /\ FlattenSeq(w) = r[Len(w)]
    <3>1. w # <<>>
      <4>1. Len(w) = 1 /\ Len(<<>>) = 0
        BY <1>2, <1>4
      <4>2. QED  BY ONLY <4>1
    <3>2. QED  BY <1>2, <3>1, FlatIs
  <2>2. r[1] = w[1]
    <3>1. 1 \in 1 .. Len(w)
      BY <1>2, <1>4
    <3>2. QED  BY <2>1, <3>1 DEF Flat
  <2>3. Mapped(a) = Piece(text[k])
    BY <1>1, <1>2, <1>4, <2>1, <2>2
  <2>4. Mapped(b) = v /\ v = <<>>
    BY <1>2, <1>4 DEF FlattenSeq
  <2>5. <<>> \o Piece(text[k]) = Piece(text[k])
    BY <1>3
  <2>6. QED  BY <2>3, <2>4, <2>5 DEF a, b
<1>5. CASE k # 1
  <2>1. v # <<>> /\ Len(w) = Len(v) + 1
    BY <1>1, <1>2, <1>5
  <2>2. \A i \in 1 .. Len(v) : w[i] = v[i]
    <3>1. TAKE i \in 1 .. Len(v)
    <3>2. i \in 1 .. k - 1 /\ i \in 1 .. k
      BY <1>1, <1>2
    <3>3. QED  BY <1>1, <1>2, <3>2
  <2>3. FlattenSeq(w) = FlattenSeq(v) \o w[Len(w)]
    BY <1>2, <2>1, <2>2, FlattenLast
  <2>4. w[Len(w)] = Piece(text[k])
    BY <1>1, <1>2
  <2>5. QED  BY <1>2, <2>3, <2>4 DEF a, b
<1>6. QED  BY <1>4, <1>5

\* Each character is written as itself or as two.
LEMMA MappedTyped ==
  ASSUME NEW text \in Seq(Codes)
  PROVE  /\ \A k \in 0 .. Len(text) : Mapped(SubSeq(text, 1, k)) \in Seq(Codes)
         /\ Mapped(SubSeq(text, 1, 0)) = <<>>
         /\ \A k \in 1 .. Len(text) :
              /\ Len(Mapped(SubSeq(text, 1, k))) > Len(Mapped(SubSeq(text, 1, k - 1)))
              /\ Len(Mapped(SubSeq(text, 1, k))) <= Len(Mapped(SubSeq(text, 1, k - 1))) + 2
         /\ Mapped(text) \in Seq(Codes) /\ (text # <<>> => Mapped(text) # <<>>)
<1> DEFINE n == Len(text)
           M(k) == Mapped(SubSeq(text, 1, k))
           T == {k \in 0 .. n : M(k) \in Seq(Codes)}
<1>1. n \in Nat /\ SubSeq(text, 1, n) = text
  OBVIOUS
<1>2. M(0) = <<>>
  <2> DEFINE b == SubSeq(text, 1, 0)
  <2>1. b \in Seq(Codes) /\ Len(b) = 0
    BY <1>1, SubSeqList
  <2> HIDE DEF b
  <2>2. Pieces(b) \in Seq(Seq(Codes)) /\ Len(Pieces(b)) = 0 /\ Mapped(b) = FlattenSeq(Pieces(b))
    BY <2>1, PiecesTyped
  <2>3. FlattenSeq(Pieces(b)) = Pieces(b) /\ Pieces(b) = <<>>
    BY <2>2 DEF FlattenSeq
  <2>4. QED  BY <2>2, <2>3 DEF b
<1>3. ASSUME NEW k \in 1 .. n, M(k - 1) \in Seq(Codes)
      PROVE  M(k) \in Seq(Codes) /\ Len(M(k)) > Len(M(k - 1)) /\ Len(M(k)) <= Len(M(k - 1)) + 2
  <2>1. M(k) = M(k - 1) \o Piece(text[k])
    BY <1>3, MappedNext
  <2>2. text[k] \in Codes
    BY <1>3
  <2>3. Piece(text[k]) \in Seq(Codes) /\ Len(Piece(text[k])) \in 1 .. 2
    BY <2>2, PieceTyped
  <2> DEFINE x == M(k - 1)
             y == Piece(text[k])
             z == M(k)
  <2> HIDE DEF x, y, z
  <2>4. z = x \o y /\ x \in Seq(Codes) /\ y \in Seq(Codes) /\ Len(y) \in 1 .. 2
    BY <1>3, <2>1, <2>3 DEF x, y, z
  <2>5. z \in Seq(Codes) /\ Len(z) > Len(x) /\ Len(z) <= Len(x) + 2
    <3>1. z \in Seq(Codes) /\ Len(z) = Len(x) + Len(y) /\ Len(x) \in Nat
      BY ONLY <2>4
    <3> DEFINE a == Len(x)
               b == Len(y)
               c == Len(z)
    <3>2. c = a + b /\ a \in Nat /\ b \in 1 .. 2
      BY <2>4, <3>1
    <3> HIDE DEF a, b, c
    <3>3. c > a /\ c <= a + 2
      BY ONLY <3>2
    <3>4. QED  BY <3>1, <3>3 DEF a, c
  <2>6. QED  BY <2>5 DEF x, z
<1> HIDE DEF M, n
<1>4. \A k \in 0 .. n : k \in T
  <2>1. 0 \in T
    <3>1. <<>> \in Seq(Codes) /\ 0 \in 0 .. n
      BY <1>1
    <3>2. QED  BY <1>2, <3>1
  <2>2. ASSUME NEW k \in 1 .. n, k - 1 \in T PROVE k \in T
    BY <1>1, <1>3, <2>2
  <2> HIDE DEF T
  <2>3. QED  BY ONLY <1>1, <2>1, <2>2, UpTo
<1>5. \A k \in 1 .. n : Len(M(k)) > Len(M(k - 1)) /\ Len(M(k)) <= Len(M(k - 1)) + 2
  <2>1. TAKE k \in 1 .. n
  <2>2. k - 1 \in 0 .. n
    BY <1>1
  <2>3. QED  BY <1>3, <1>4, <2>2
<1>6. Mapped(text) = M(n)
  BY <1>1 DEF M
<1>7. M(n) \in Seq(Codes) /\ (text # <<>> => M(n) # <<>>)
  <2>1. n \in 0 .. n /\ M(n) \in Seq(Codes)
    BY <1>1, <1>4
  <2>2. CASE text # <<>>
    <3>1. n \in 1 .. n /\ n - 1 \in 0 .. n
      BY <1>1, <2>2 DEF n
    <3>2. M(n - 1) \in Seq(Codes) /\ Len(M(n)) > Len(M(n - 1))
      BY <1>4, <1>5, <3>1
    <3>3. Len(M(n)) > 0 /\ Len(<<>>) = 0
      BY <2>1, <3>2
    <3>4. QED  BY <2>1, <3>3
  <2>3. QED  BY <2>1, <2>2
<1>8. QED  BY <1>2, <1>4, <1>5, <1>6, <1>7 DEF M, n

\* What writcopy stores has room.
LEMMA FittingFits ==
  ASSUME NEW text \in Seq(Codes), NEW avail \in Nat
  PROVE  LET k == Fitting(text, avail) IN k \in 0 .. Len(text) /\ Len(Mapped(SubSeq(text, 1, k))) <= avail
<1> DEFINE n == Len(text)
           M(k) == Mapped(SubSeq(text, 1, k))
           T == {k \in 0 .. n : \A j \in 1 .. k : avail - Len(M(j - 1)) > 1}
           k == Max(T)
<1>1. n \in Nat /\ 0 \in T /\ T \subseteq 0 .. n
  OBVIOUS
<1>2. Fitting(text, avail) = k
  BY DEF Fitting
<1>3. k \in T
  <2> HIDE DEF T, n
  <2>1. QED  BY ONLY <1>1, MaxUpTo
<1>4. M(0) = <<>> /\ (\A i \in 0 .. n : M(i) \in Seq(Codes)) /\ \A i \in 1 .. n : Len(M(i)) <= Len(M(i - 1)) + 2
  BY MappedTyped
<1> HIDE DEF M, k
<1>5. CASE k = 0
  BY <1>1, <1>2, <1>4, <1>5 DEF M
<1>6. CASE k # 0
  <2>1. k \in 1 .. k /\ k \in 1 .. n /\ k - 1 \in 0 .. n /\ k \in 0 .. n
    BY <1>1, <1>3, <1>6
  <2>2. avail - Len(M(k - 1)) > 1
    BY <1>3, <2>1
  <2>3. Len(M(k)) <= Len(M(k - 1)) + 2 /\ Len(M(k)) \in Nat /\ Len(M(k - 1)) \in Nat
    BY <1>4, <2>1
  <2>4. Len(M(k)) <= avail
    BY <2>2, <2>3
  <2>5. QED  BY <1>2, <2>1, <2>4 DEF M
<1>7. QED  BY <1>5, <1>6

LEMMA WritcopiedGood ==
  ASSUME NEW t, OutGood(t), NEW text \in Seq(Codes)
  PROVE  LET u == Writcopied(t, text) IN
         /\ OutGood(u) /\ SameIn(t, u) /\ u.osem = t.osem /\ u.odsend = t.odsend /\ u.ocnt = t.ocnt + Len(text)
         /\ u.ecnt = t.ecnt /\ u.txint = t.txint /\ u.oheld = t.oheld
<1> DEFINE l == Len(text)
           from(i) == 1 + ((i - t.ohead) % OBUFLEN)
           b == [i \in DOMAIN t.obuff |-> IF from(i) <= l THEN text[from(i)] ELSE t.obuff[i]]
           h == (t.ohead + l) % OBUFLEN
           u == [t EXCEPT !.obuff = b, !.ohead = h, !.ocnt = t.ocnt + l]
           x == t.ohead - t.otail - t.ocnt
           y == t.ohead + l
<1>1. /\ t \in Ttys /\ Sound(t.osem) /\ OutRing(t) /\ t.ohead \in Int /\ t.otail \in Int
      /\ t.ocnt \in Nat /\ t.obuff \in [OPlaces -> Codes] /\ l \in Nat
  BY OutFacts
<1>2. x \in Int /\ y \in Int /\ x % OBUFLEN = 0 /\ OBUFLEN \in Nat \ {0}
  BY <1>1, Sizes DEF OutRing
<1> HIDE DEF y
<1>3. (x - y + (y % OBUFLEN)) % OBUFLEN = 0
  BY ONLY <1>2, Reduced
<1>4. y % OBUFLEN \in 0 .. OBUFLEN - 1
  BY ONLY <1>2, RoundTyped
<1>5. x - y + (y % OBUFLEN) = (y % OBUFLEN) - t.otail - (t.ocnt + l)
  BY <1>1, <1>4 DEF y
<1>6. h \in OPlaces /\ (h - t.otail - (t.ocnt + l)) % OBUFLEN = 0 /\ t.ocnt + l \in Nat
  BY <1>1, <1>3, <1>4, <1>5 DEF y, OPlaces
<1>7. b \in [OPlaces -> Codes]
  <2>1. DOMAIN t.obuff = OPlaces
    BY <1>1
  <2>2. ASSUME NEW i \in OPlaces PROVE (IF from(i) <= l THEN text[from(i)] ELSE t.obuff[i]) \in Codes
    <3>1. i - t.ohead \in Int /\ OBUFLEN \in Nat \ {0}
      BY <1>1, Sizes DEF OPlaces
    <3>2. (i - t.ohead) % OBUFLEN \in 0 .. OBUFLEN - 1
      BY ONLY <3>1, RoundTyped
    <3>3. from(i) \in Nat /\ from(i) >= 1
      BY <3>1, <3>2
    <3> HIDE DEF from, l
    <3>4. from(i) <= l => from(i) \in 1 .. l
      BY <1>1, <3>3
    <3>5. from(i) <= l => text[from(i)] \in Codes
      BY <3>4 DEF l
    <3>6. t.obuff[i] \in Codes
      BY <1>1
    <3>7. QED  BY <3>5, <3>6
  <2> HIDE DEF from, l
  <2>3. QED  BY <2>1, <2>2
<1>8. Writcopied(t, text) = u
  BY DEF Writcopied
<1> HIDE DEF h, b, l
<1>9. /\ u \in Ttys /\ SameIn(t, u) /\ u.osem = t.osem /\ u.odsend = t.odsend /\ u.ocnt = t.ocnt + l
      /\ u.ohead = h /\ u.otail = t.otail /\ u.ecnt = t.ecnt /\ u.txint = t.txint /\ u.oheld = t.oheld
  <2>1. u \in Ttys
    <3>1. t \in Ttys /\ h \in OPlaces /\ t.ocnt + l \in Nat
      BY <1>1, <1>6
    <3>2. QED  BY ONLY <1>7, <3>1 DEF Ttys
  <2>2. /\ SameIn(t, u) /\ u.osem = t.osem /\ u.odsend = t.odsend /\ u.ocnt = t.ocnt + l
        /\ u.ohead = h /\ u.otail = t.otail /\ u.ecnt = t.ecnt /\ u.txint = t.txint /\ u.oheld = t.oheld
    BY <1>1 DEF Ttys, SameIn
  <2>3. QED  BY <2>1, <2>2
<1> HIDE DEF u
<1>10. QED  BY <1>1, <1>6, <1>8, <1>9 DEF OutGood, OutRing, l

------------------------------------------------------------------------------
(* The steps of the upper half: writers. *)

LEMMA IdleGood ==
  Idle \in Conts /\ ContGood(Idle) /\ Idle.op = "user" /\ Idle.rest = <<>>
<1>1. <<>> \in Seq(Codes) /\ 0 \in Nat
  OBVIOUS
<1>2. QED  BY <1>1 DEF Idle, Conts, Ops, ContGood

LEMMA InvFacts ==
  ASSUME TtyInv, NEW p \in Procs
  PROVE  /\ Good(tty) /\ InGood(tty) /\ OutGood(tty) /\ tty \in Ttys
         /\ cont \in [Procs -> Conts] /\ cont[p] \in Conts /\ ContGood(cont[p])
         /\ cont[p].op \in Ops /\ cont[p].rest \in Seq(Codes) /\ cont[p].n \in Nat /\ cont[p].got \in Seq(Codes)
         /\ (p \in ToSet(tty.isem.q) => cont[p].op \in Waiters)
         /\ (p \in ToSet(tty.osem.q) => cont[p].op = "put")
         /\ over \in Nat /\ bonus \in Nat /\ InSum(tty) \in Int /\ OutSum(tty) \in Int
<1>1. Good(tty) /\ InSum(tty) \in Int /\ OutSum(tty) \in Int
  BY SumsAre DEF TtyInv
<1>2. cont \in [Procs -> Conts] /\ cont[p] \in Conts /\ ContGood(cont[p])
  BY DEF TtyInv, ContsGood
<1>3. (p \in ToSet(tty.isem.q) => cont[p].op \in Waiters) /\ (p \in ToSet(tty.osem.q) => cont[p].op = "put")
  BY DEF TtyInv, InAccount, OutAccount, Those
<1>4. QED  BY <1>1, <1>2, <1>3 DEF TtyInv, InAccount, OutAccount, Good, InGood, Conts

\* A writer's step that ends where its loop stops.
LEMMA GoesKeeps ==
  ASSUME TtyInv, NEW p \in Procs, NEW c \in Conts, NEW w,
         NEW m \in Int, m = OutSum(tty) + One(cont[p].op, {"put"}), PutGood(tty, p, m, w),
         cont[p].op \in {"user", "put", "more", "wrote"}, cont[p].op = "wrote" => Started(w.t),
         Goes(p, w, c), UNCHANGED <<bonus, over, interrupted>>
  PROVE  TtyInv' /\ SameIn(tty, tty')
<1> DEFINE op == IF w.op = "put" THEN "put" ELSE "more"
           d == IF w.op = "user" THEN Idle ELSE [c EXCEPT !.op = op, !.rest = w.rest]
<1>1. /\ w \in Puts /\ OutGood(w.t) /\ SameIn(tty, w.t) /\ Due(tty, w.t)
      /\ ToSet(w.t.osem.q) \subseteq ToSet(tty.osem.q) \cup {p} /\ (p \in ToSet(w.t.osem.q) => w.op = "put")
      /\ OutSum(w.t) = m - One(w.op, {"put"})
      /\ (w.op # "user" => w.rest # <<>>)
  BY DEF PutGood
<1>2. tty' = w.t /\ cont' = [cont EXCEPT ![p] = d]
  BY DEF Goes, Then
<1>3. /\ d \in Conts /\ ContGood(d) /\ d.op \notin Holders /\ (w.op = "put" => d.op = "put") /\ (d.op = "put" => w.op = "put")
  <2>1. CASE w.op = "user"
    BY <2>1, IdleGood DEF Holders, Waiters
  <2>2. CASE w.op # "user"
    <3> DEFINE e == [c EXCEPT !.op = op, !.rest = w.rest]
    <3>1. op \in {"put", "more"} /\ w.rest \in Seq(Codes)
      BY <1>1 DEF Puts
    <3>2. e \in Conts /\ e.op = op /\ e.rest = w.rest
      BY <3>1 DEF Conts, Ops
    <3>3. d = e
      BY <2>2
    <3> HIDE DEF e, d
    <3>4. ContGood(d) /\ d \in Conts /\ d.op = op
      BY <1>1, <2>2, <3>1, <3>2, <3>3 DEF ContGood
    <3>5. QED  BY <3>1, <3>4 DEF Holders, Waiters
  <2>3. QED  BY <2>1, <2>2
<1> HIDE DEF d
<1>4. OutputDue'
  <2>1. CASE Started(w.t)
    BY <1>2, <2>1 DEF OutputDue, Started
  <2>2. CASE ~Started(w.t)
    <3>1. w.t.ocnt = tty.ocnt /\ w.t.ecnt = tty.ecnt /\ w.t.txint = tty.txint /\ (tty.oheld => w.t.oheld)
      BY <1>1, <2>2 DEF Due
    <3>2. \A q \in Procs : At(q, "wrote") => cont'[q].op = "wrote"
      BY <1>2, <2>2 DEF At, TtyInv, ContsGood
    <3>3. QED  BY <1>2, <3>1, <3>2 DEF TtyInv, OutputDue, At
  <2>3. QED  BY <2>1, <2>2
<1>5. OutSum(tty') + One(d.op, {"put"}) - bonus' = OutSum(tty) + One(cont[p].op, {"put"}) - bonus
  <2>1. One(d.op, {"put"}) = One(w.op, {"put"})
    BY <1>3 DEF One
  <2>2. OutSum(tty) \in Int /\ One(cont[p].op, {"put"}) \in Nat /\ One(w.op, {"put"}) \in Nat /\ bonus \in Nat /\ bonus' = bonus
    BY InvFacts DEF One
  <2> DEFINE a == One(cont[p].op, {"put"})
             b == One(w.op, {"put"})
             x == OutSum(tty)
             y == OutSum(w.t)
  <2>3. x \in Int /\ a \in Nat /\ b \in Nat /\ y = x + a - b
    BY <1>1, <2>2
  <2> HIDE DEF a, b, x, y
  <2>4. y + b - bonus = x + a - bonus
    BY ONLY <2>2, <2>3
  <2>5. QED  BY <1>2, <2>1, <2>2, <2>4 DEF a, b, x, y
<1>6. cont[p].op \notin Holders
  BY DEF Holders, Waiters
<1>7. bonus' \in Nat /\ UNCHANGED <<over, interrupted>>
  BY InvFacts
<1>8. QED  BY <1>1, <1>2, <1>3, <1>4, <1>5, <1>6, <1>7, WriterKeeps

\* What a reader's step leaves: the output, and what the writers have left to do.
Rests(f) == [p \in Procs |-> f[p].rest]
Reading == SameOut(tty, tty') /\ ReadsOff(tty, tty') /\ Rests(cont') = Rests(cont)

LEMMA RestsKept ==
  ASSUME NEW f \in [Procs -> Conts], NEW p \in Procs, NEW c \in Conts, NEW g, g = [f EXCEPT ![p] = c],
         ContGood(f[p]), ContGood(c), f[p].op \notin {"put", "more", "wrote"}, c.op \notin {"put", "more", "wrote"}
  PROVE  Rests(g) = Rests(f)
BY DEF Rests, ContGood

LEMMA TakesKeeps ==
  ASSUME TtyInv, NEW p \in Procs, NEW r,
         NEW m \in Int, m = InSum(tty) + One(cont[p].op, Holders), TakeGood(tty, p, m, r), r.op # "go",
         cont[p].op \notin {"put", "more", "wrote"}, Takes(p, r), UNCHANGED <<bonus, over, interrupted>>
  PROVE  TtyInv' /\ Reading
<1> DEFINE d == IF r.op = "user" THEN Idle ELSE [Idle EXCEPT !.op = r.op, !.n = r.n, !.got = r.got]
<1>1. /\ r \in Gets /\ InGood(r.t) /\ SameOut(tty, r.t)
      /\ ToSet(r.t.isem.q) \subseteq ToSet(tty.isem.q) \cup {p} /\ (p \in ToSet(r.t.isem.q) => r.op = "read")
      /\ InSum(r.t) = m - One(r.op, {"read"})
      /\ (r.op # "user" => r.n > 0) /\ ReadsOff(tty, r.t)
  BY DEF TakeGood
<1>2. tty' = r.t /\ cont' = [cont EXCEPT ![p] = d]
  BY DEF Takes, Then
<1>3. d \in Conts /\ ContGood(d) /\ d.op = r.op /\ r.op \in {"user", "read"}
  <2>1. r.op \in {"user", "read"}
    BY <1>1 DEF Gets
  <2>2. CASE r.op = "user"
    BY <2>2, IdleGood
  <2>3. CASE r.op = "read"
    <3> DEFINE e == [Idle EXCEPT !.op = r.op, !.n = r.n, !.got = r.got]
    <3>1. r.n \in Nat /\ r.got \in Seq(Codes)
      BY <1>1 DEF Gets
    <3>2. e \in Conts /\ e.op = "read" /\ e.n = r.n /\ e.rest = <<>>
      BY <2>3, <3>1, IdleGood DEF Conts, Ops
    <3>3. d = e
      BY <2>3
    <3> HIDE DEF e, d
    <3>4. QED  BY <1>1, <2>3, <3>2, <3>3 DEF ContGood
  <2>4. QED  BY <2>1, <2>2, <2>3
<1> HIDE DEF d
<1>4. InSum(tty') + One(d.op, Holders) - over' = InSum(tty) + One(cont[p].op, Holders) - over
  <2>1. One(d.op, Holders) = One(r.op, {"read"})
    BY <1>3 DEF One, Holders, Waiters
  <2>2. InSum(tty) \in Int /\ One(cont[p].op, Holders) \in Nat /\ One(r.op, {"read"}) \in Nat /\ over \in Nat /\ over' = over
    BY InvFacts DEF One
  <2> DEFINE a == One(cont[p].op, Holders)
             b == One(r.op, {"read"})
             x == InSum(tty)
             y == InSum(r.t)
  <2>3. x \in Int /\ a \in Nat /\ b \in Nat /\ y = x + a - b
    BY <1>1, <2>2
  <2> HIDE DEF a, b, x, y
  <2>4. y + b - over = x + a - over
    BY ONLY <2>2, <2>3
  <2>5. QED  BY <1>2, <2>1, <2>2, <2>4 DEF a, b, x, y
<1>5. p \in ToSet(tty'.isem.q) => d.op \in Waiters
  BY <1>1, <1>2, <1>3 DEF Waiters
<1>6. d.op \notin {"put", "more", "wrote"} /\ over' \in Nat /\ UNCHANGED <<bonus, interrupted>>
  BY <1>3, InvFacts
<1>7. Rests(cont') = Rests(cont)
  BY <1>2, <1>3, <1>6, InvFacts, RestsKept
<1>8. Reading
  BY <1>1, <1>2, <1>7 DEF Reading
<1>9. QED  BY <1>1, <1>2, <1>3, <1>4, <1>5, <1>6, <1>8, ReaderKeeps

LEMMA TextTyped ==
  ASSUME NEW text \in Texts
  PROVE  text \in Seq(Codes) /\ text # <<>> /\ Len(text) \in Nat \ {0}
<1>1. text \in Seq(STRING) /\ text # <<>>
  BY TtyAssumption
<1>2. Len(text) \in Nat /\ \A i \in 1 .. Len(text) : text[i] \in Codes
  BY <1>1 DEF Codes
<1>3. text \in Seq(Codes)
  BY <1>1, <1>2
<1>4. Len(text) # 0
  BY <1>1
<1>5. QED  BY <1>1, <1>2, <1>3, <1>4

\* A process that is not waiting for room starts its loop.
LEMMA WritesGood ==
  ASSUME TtyInv, NEW p \in Procs, cont[p].op # "put", NEW rest \in Seq(Codes), rest # <<>>,
         NEW m \in Int, m = OutSum(tty) + One(cont[p].op, {"put"})
  PROVE  PutGood(tty, p, m, Writes(rest))
<1> DEFINE w == [t |-> tty, rest |-> rest, op |-> "go"]
<1>1. OutGood(tty) /\ tty \in Ttys /\ p \notin ToSet(tty.osem.q)
  BY InvFacts
<1>2. w \in Puts /\ w.t = tty /\ w.rest = rest /\ w.op = "go"
  BY <1>1 DEF Puts
<1>3. Writes(rest) = w
  BY DEF Writes
<1> HIDE DEF w
<1>4. One(cont[p].op, {"put"}) = 0 /\ One(w.op, {"put"}) = 0 /\ OutSum(tty) \in Int
  BY <1>2, InvFacts DEF One
<1>5. SameIn(tty, w.t) /\ Due(tty, w.t)
  BY <1>2 DEF SameIn, Due
<1>6. OutSum(w.t) = m - One(w.op, {"put"})
  BY <1>2, <1>4
<1>7. QED  BY <1>1, <1>2, <1>3, <1>5, <1>6 DEF PutGood

LEMMA UnitsTyped ==
  ASSUME TtyInv, NEW p \in Procs
  PROVE  /\ OutSum(tty) + One(cont[p].op, {"put"}) \in Int
         /\ InSum(tty) + One(cont[p].op, Holders) \in Int
BY InvFacts DEF One

LEMMA TtyputcKeeps ==
  ASSUME TtyInv, NEW p \in Procs, NEW ch \in Codes, Ttyputc(p, ch), UNCHANGED <<over, interrupted>>
  PROVE  TtyInv' /\ SameIn(tty, tty')
<1> DEFINE rest == Mapped(<<ch>>)
           m == OutSum(tty) + One(cont[p].op, {"put"})
           c == [Idle EXCEPT !.n = 1]
           w == PutNext(Writes(rest), p)
<1>1. cont[p].op = "user" /\ Goes(p, w, c) /\ UNCHANGED bonus
  BY IdleGood DEF Ttyputc, Call
<1>2. rest \in Seq(Codes) /\ rest # <<>>
  <2>1. <<ch>> \in Seq(Codes) /\ <<ch>> # <<>>
    OBVIOUS
  <2>2. QED  BY <2>1, MappedTyped
<1>3. m \in Int
  BY UnitsTyped
<1>4. c \in Conts
  <2>1. 1 \in Nat
    OBVIOUS
  <2>2. QED  BY <2>1, IdleGood DEF Conts
<1> HIDE DEF rest, c
<1>5. m = OutSum(tty) + One(cont[p].op, {"put"})
  OBVIOUS
<1> HIDE DEF m
<1>6. PutGood(tty, p, m, Writes(rest))
  BY <1>1, <1>2, <1>3, <1>5, WritesGood
<1>7. PutGood(tty, p, m, w)
  BY <1>3, <1>6, PutNextGood
<1> HIDE DEF w
<1>8. QED  BY <1>1, <1>3, <1>4, <1>5, <1>7, GoesKeeps

LEMMA PutMoreKeeps ==
  ASSUME TtyInv, NEW p \in Procs, PutMore(p), UNCHANGED <<over, interrupted>>
  PROVE  TtyInv' /\ SameIn(tty, tty')
<1> DEFINE rest == cont[p].rest
           m == OutSum(tty) + One(cont[p].op, {"put"})
           u == PutNext(Writes(rest), p)
           w == GoesOn(p, u)
<1>1. cont[p].op = "more" /\ Goes(p, w, cont[p]) /\ UNCHANGED bonus
  BY DEF PutMore, At
<1>2. rest \in Seq(Codes) /\ rest # <<>> /\ cont[p] \in Conts
  BY <1>1, InvFacts DEF ContGood
<1>3. m \in Int /\ m = OutSum(tty) + One(cont[p].op, {"put"})
  BY UnitsTyped
<1> HIDE DEF m
<1>4. PutGood(tty, p, m, Writes(rest))
  BY <1>1, <1>2, <1>3, WritesGood
<1>5. PutGood(tty, p, m, u)
  BY <1>3, <1>4, PutNextGood
<1> HIDE DEF u
<1>6. PutGood(tty, p, m, w)
  BY <1>3, <1>5, PutAllGood DEF GoesOn
<1> HIDE DEF w
<1>7. QED  BY <1>1, <1>2, <1>3, <1>6, GoesKeeps

\* A process that waited for room starts its loop.
LEMMA WaitedGood ==
  ASSUME TtyInv, NEW p \in Procs, cont[p].op = "put", ~Contains(tty.osem.q, p),
         NEW m \in Int, m = OutSum(tty) + One(cont[p].op, {"put"})
  PROVE  LET v == Writes(cont[p].rest) IN v \in Puts /\ PutGood(tty, p, m, PutOne(v))
<1> DEFINE rest == cont[p].rest
           v == [t |-> tty, rest |-> rest, op |-> "go"]
           u == PutOne(v)
<1>1. /\ rest \in Seq(Codes) /\ rest # <<>> /\ cont[p] \in Conts /\ OutGood(tty) /\ tty \in Ttys
      /\ OutSum(tty) \in Int
  BY InvFacts DEF ContGood
<1>2. m = OutSum(tty) + 1
  BY DEF One
<1>3. v \in Puts /\ v.t = tty /\ v.rest = rest
  BY <1>1 DEF Puts
<1>4. Writes(rest) = v
  BY DEF Writes
<1> HIDE DEF v
<1>5. /\ u \in Puts /\ OutGood(u.t) /\ SameIn(v.t, u.t) /\ Started(u.t) /\ OutSum(u.t) = OutSum(v.t) + 1
      /\ ToSet(u.t.osem.q) \subseteq ToSet(v.t.osem.q)
      /\ u.op # "put" /\ (u.op # "user" => u.rest # <<>>)
  BY <1>1, <1>3, PutOneGood
<1>6. p \notin ToSet(tty.osem.q)
  BY <1>1, ContainsIn DEF OutGood
<1> HIDE DEF u
<1>7. OutSum(u.t) = m - One(u.op, {"put"})
  <2>1. One(u.op, {"put"}) = 0
    BY <1>5 DEF One
  <2>2. OutSum(u.t) = OutSum(tty) + 1
    BY <1>3, <1>5
  <2>3. QED  BY <1>1, <1>2, <2>1, <2>2
<1>8. SameIn(tty, u.t) /\ Due(tty, u.t) /\ ToSet(u.t.osem.q) \subseteq ToSet(tty.osem.q)
  BY <1>3, <1>5 DEF Due
<1>9. PutGood(tty, p, m, u)
  BY <1>5, <1>6, <1>7, <1>8 DEF PutGood
<1>10. QED  BY <1>3, <1>4, <1>9 DEF u

LEMMA FinishPutKeeps ==
  ASSUME TtyInv, NEW p \in Procs, FinishPut(p), UNCHANGED <<over, interrupted>>
  PROVE  TtyInv' /\ SameIn(tty, tty')
<1> DEFINE m == OutSum(tty) + One(cont[p].op, {"put"})
           u == PutOne(Writes(cont[p].rest))
           w == GoesOn(p, u)
<1>1. cont[p].op = "put" /\ ~Contains(tty.osem.q, p) /\ Goes(p, w, cont[p]) /\ UNCHANGED bonus
  BY DEF FinishPut, At
<1>2. cont[p] \in Conts
  BY InvFacts
<1>3. m \in Int /\ m = OutSum(tty) + One(cont[p].op, {"put"})
  BY UnitsTyped
<1> HIDE DEF m
<1>4. PutGood(tty, p, m, u)
  BY <1>1, <1>3, WaitedGood
<1> HIDE DEF u
<1>5. PutGood(tty, p, m, w)
  BY <1>3, <1>4, PutAllGood DEF GoesOn
<1> HIDE DEF w
<1>6. QED  BY <1>1, <1>2, <1>3, <1>5, GoesKeeps

\* A writer that starts the output first, and goes on from there.
LEMMA AfterSends ==
  ASSUME NEW t, NEW s, NEW p, NEW m \in Int, NEW w, Sends(t, s), Started(s), PutGood(s, p, m, w)
  PROVE  PutGood(t, p, m, w) /\ Started(w.t)
<1>1. SameIn(t, s) /\ ToSet(s.osem.q) \subseteq ToSet(t.osem.q)
  BY DEF Sends
<1>2. SameIn(s, w.t) /\ Due(s, w.t) /\ ToSet(w.t.osem.q) \subseteq ToSet(s.osem.q) \cup {p}
  BY DEF PutGood
<1>3. Started(w.t)
  BY <1>2 DEF Due, Started
<1>4. SameIn(t, w.t) /\ Due(t, w.t) /\ ToSet(w.t.osem.q) \subseteq ToSet(t.osem.q) \cup {p}
  BY <1>1, <1>2, <1>3 DEF SameIn, Due
<1>5. QED  BY <1>3, <1>4 DEF PutGood

\* What the loop of FinishWrite starts from, and where it stops.
WroteFrom(p, op) == [t |-> Ttyostart(tty), rest |-> cont[p].rest, op |-> op]
Wrote(p) ==
  IF cont[p].rest = <<>> THEN WroteFrom(p, "user")
  ELSE IF Ttyostart(tty).osem.q # tty.osem.q THEN WroteFrom(p, "go") ELSE PutAll(WroteFrom(p, "go"), p)

LEMMA FinishWriteIs ==
  ASSUME NEW p, FinishWrite(p)
  PROVE  cont[p].op = "wrote" /\ Goes(p, Wrote(p), cont[p]) /\ UNCHANGED bonus
<1> DEFINE rest == cont[p].rest
           s == Ttyostart(tty)
           go == [t |-> s, rest |-> rest, op |-> "go"]
           end == [t |-> s, rest |-> rest, op |-> "user"]
           o == [Writes(rest) EXCEPT !.t = s]
<1>1. o = go
  BY DEF Writes
<1>2. go = WroteFrom(p, "go") /\ end = WroteFrom(p, "user")
  BY DEF WroteFrom
<1> HIDE DEF o
<1>3. [o EXCEPT !.op = "user"] = end /\ o.rest = rest /\ o.t = s
  BY <1>1
<1>4. cont[p].op = "wrote" /\ UNCHANGED bonus
  BY DEF FinishWrite, At
<1>5. Goes(p, IF o.rest = <<>> THEN [o EXCEPT !.op = "user"]
              ELSE IF o.t.osem.q # tty.osem.q THEN o ELSE PutAll(o, p), cont[p])
  BY Zenon DEF FinishWrite, o
<1> HIDE DEF end, go
<1>6. QED  BY <1>1, <1>2, <1>3, <1>4, <1>5 DEF Wrote

LEMMA WroteGood ==
  ASSUME TtyInv, NEW p \in Procs, cont[p].op = "wrote",
         NEW m \in Int, m = OutSum(tty) + One(cont[p].op, {"put"})
  PROVE  LET s == Ttyostart(tty) IN
         /\ Sends(tty, s) /\ Started(s) /\ PutGood(s, p, m, WroteFrom(p, "user"))
         /\ cont[p].rest # <<>> => PutGood(s, p, m, WroteFrom(p, "go"))
<1> DEFINE rest == cont[p].rest
           s == Ttyostart(tty)
           go == [t |-> s, rest |-> rest, op |-> "go"]
           end == [t |-> s, rest |-> rest, op |-> "user"]
<1>1. rest \in Seq(Codes) /\ OutGood(tty) /\ OutSum(tty) \in Int /\ p \notin ToSet(tty.osem.q)
  BY InvFacts
<1>2. m = OutSum(tty)
  BY <1>1 DEF One
<1>3. go = WroteFrom(p, "go") /\ end = WroteFrom(p, "user")
  BY DEF WroteFrom
<1>4. Sends(tty, s) /\ Started(s)
  BY <1>1, TtyostartSends
<1>5. OutGood(s) /\ s \in Ttys /\ OutSum(s) = m /\ p \notin ToSet(s.osem.q) /\ OutSum(s) \in Int
  BY <1>1, <1>2, <1>4 DEF Sends, OutGood
<1> HIDE DEF s
<1>6. /\ go \in Puts /\ go.t = s /\ go.rest = rest /\ go.op = "go"
      /\ end \in Puts /\ end.t = s /\ end.rest = rest /\ end.op = "user"
  BY <1>1, <1>5 DEF Puts
<1> HIDE DEF go, end
<1>7. SameIn(s, s) /\ Due(s, s)
  BY DEF SameIn, Due
<1>8. One(go.op, {"put"}) = 0 /\ One(end.op, {"put"}) = 0 /\ m - 0 = m
  BY <1>6 DEF One
<1>9. PutGood(s, p, m, end) /\ (rest # <<>> => PutGood(s, p, m, go))
  BY <1>5, <1>6, <1>7, <1>8 DEF PutGood
<1>10. QED  BY <1>3, <1>4, <1>9 DEF s

LEMMA FinishWriteKeeps ==
  ASSUME TtyInv, NEW p \in Procs, FinishWrite(p), UNCHANGED <<over, interrupted>>
  PROVE  TtyInv' /\ SameIn(tty, tty')
<1> DEFINE m == OutSum(tty) + One(cont[p].op, {"put"})
           s == Ttyostart(tty)
           w == Wrote(p)
<1>1. cont[p].op = "wrote" /\ Goes(p, w, cont[p]) /\ UNCHANGED bonus /\ cont[p] \in Conts
  BY FinishWriteIs, InvFacts
<1>2. m \in Int /\ m = OutSum(tty) + One(cont[p].op, {"put"})
  BY UnitsTyped
<1> HIDE DEF m
<1>3. /\ Sends(tty, s) /\ Started(s) /\ PutGood(s, p, m, WroteFrom(p, "user"))
      /\ (cont[p].rest # <<>> => PutGood(s, p, m, WroteFrom(p, "go")))
  BY <1>1, <1>2, WroteGood
<1> HIDE DEF s
<1>4. PutGood(s, p, m, w)
  BY <1>2, <1>3, PutAllGood DEF Wrote
<1> HIDE DEF w
<1>5. PutGood(tty, p, m, w) /\ Started(w.t)
  BY <1>2, <1>3, <1>4, AfterSends
<1>6. QED  BY <1>1, <1>2, <1>5, GoesKeeps

\* The account of the writers: those that wait, and those that were let go.
LEMMA PuttersCount ==
  ASSUME TtyInv
  PROVE  /\ Cardinality(Released("put", tty.osem)) \in Nat /\ Len(tty.osem.q) \in Nat
         /\ Cardinality(Those(cont, {"put"})) = Len(tty.osem.q) + Cardinality(Released("put", tty.osem))
<1> DEFINE W == Those(cont, {"put"})
           q == tty.osem.q
           R == Released("put", tty.osem)
<1>1. Sound(tty.osem) /\ q \in Seq(Procs) /\ IsInjective(q) /\ ToSet(q) \subseteq W
  <2>1. Sound(tty.osem)
    BY DEF TtyInv, Good, OutGood
  <2>2. QED  BY <2>1, SoundFacts DEF TtyInv, OutAccount
<1>2. IsFiniteSet(W)
  BY ThoseFinite
<1>3. R = W \ ToSet(q)
  BY <1>1, ContainsIn DEF Released, Those, At
<1> HIDE DEF W, q, R
<1>4. Cardinality(W \ ToSet(q)) \in Nat /\ Cardinality(W) = Len(q) + Cardinality(W \ ToSet(q)) /\ Len(q) \in Nat
  BY <1>1, <1>2, OthersCount
<1>5. Cardinality(R) = Cardinality(W \ ToSet(q))
  BY ONLY <1>3, Zenon
<1>6. QED  BY <1>4, <1>5 DEF W, q, R

LEMMA DoGood ==
  ASSUME NEW op \in Ops, NEW rest \in Seq(Codes)
  PROVE  Do(op, rest) \in Conts /\ Do(op, rest).op = op /\ Do(op, rest).rest = rest
<1>1. Idle \in Conts
  BY IdleGood
<1>2. Do(op, rest) = [Idle EXCEPT !.op = op, !.rest = rest]
  BY DEF Do
<1>3. QED  BY <1>1, <1>2 DEF Conts

\* What only changes osem.
LEMMA OsemGood ==
  ASSUME NEW t, OutGood(t), NEW s, Sound(s)
  PROVE  LET u == [t EXCEPT !.osem = s] IN
         /\ OutGood(u) /\ SameIn(t, u) /\ u.osem = s /\ u.ocnt = t.ocnt /\ u.odsend = t.odsend
         /\ u.ecnt = t.ecnt /\ u.txint = t.txint /\ u.oheld = t.oheld /\ OutSum(u) = s.n + t.odsend + t.ocnt
<1> DEFINE u == [t EXCEPT !.osem = s]
<1>1. t \in Ttys /\ OutRing(t) /\ s \in SemSet
  BY OutFacts DEF Sound, SemSet
<1>2. /\ u \in Ttys /\ SameIn(t, u) /\ u.osem = s /\ u.ocnt = t.ocnt /\ u.ohead = t.ohead /\ u.otail = t.otail
      /\ u.odsend = t.odsend /\ u.ecnt = t.ecnt /\ u.txint = t.txint /\ u.oheld = t.oheld
  BY <1>1 DEF Ttys, SameIn
<1> HIDE DEF u
<1>3. OutGood(u) /\ OutSum(u) = s.n + t.odsend + t.ocnt
  BY <1>1, <1>2 DEF OutGood, OutRing, OutSum
<1>4. QED  BY <1>2, <1>3 DEF u

\* A reset semaphore forgets who waits and what was kept back: bonus says how much that is.
LEMMA TtywriteKeeps ==
  ASSUME TtyInv, Fits, NEW p \in Procs, NEW text \in Texts, Ttywrite(p, text), UNCHANGED <<over, interrupted>>
  PROVE  TtyInv' /\ SameIn(tty, tty')
<1> DEFINE room == OBUFLEN - tty.ocnt
           k == Fitting(text, room)
           put == Mapped(SubSeq(text, 1, k))
           left == Mapped(SubSeq(text, k + 1, Len(text)))
           t == Writcopied(tty, put)
           s == Sem(OBUFLEN - t.ocnt)
           u == [t EXCEPT !.osem = s]
           c == Do("wrote", left)
<1>1. OutGood(tty) /\ tty.ocnt \in Nat /\ room \in Nat /\ tty.osem.ok /\ tty.odsend \in Nat /\ Sound(tty.osem)
      /\ OBUFLEN \in Nat /\ OutSum(tty) \in Int
  <2>1. OutGood(tty)
    BY InvFacts
  <2>2. tty.ocnt \in Nat /\ tty.odsend \in Nat /\ Sound(tty.osem) /\ OutSum(tty) \in Int
    BY <2>1, OutFacts
  <2>3. room \in Nat
    BY <2>2, Sizes DEF Fits
  <2>4. QED  BY <2>1, <2>2, <2>3, Sizes, SoundFacts
<1>2. text \in Seq(Codes) /\ Len(text) \in Nat
  BY TextTyped
<1> HIDE DEF room
<1>3. k \in 0 .. Len(text) /\ Len(put) <= room
  BY <1>1, <1>2, FittingFits
<1> HIDE DEF k
<1>4. put \in Seq(Codes) /\ left \in Seq(Codes)
  <2>1. \A j \in 0 .. Len(text) : Mapped(SubSeq(text, 1, j)) \in Seq(Codes)
    BY <1>2, MappedTyped
  <2>2. k + 1 \in 1 .. Len(text) + 1 /\ Len(text) \in 0 .. Len(text)
    BY <1>2, <1>3
  <2>3. SubSeq(text, k + 1, Len(text)) \in Seq(Codes)
    BY <1>2, <2>2, SubSeqList
  <2>4. QED  BY <1>3, <2>1, <2>3, MappedTyped
<1>5. /\ cont[p].op = "user" /\ cont' = [cont EXCEPT ![p] = c] /\ tty' = u
      /\ bonus' = tty.odsend + Len(tty.osem.q) + Cardinality(Released("put", tty.osem))
  <2>1. t.osem = tty.osem
    BY <1>1, <1>4, WritcopiedGood
  <2>2. /\ cont[p].op = "user" /\ cont' = [cont EXCEPT ![p] = c]
        /\ bonus' = tty.odsend + Len(tty.osem.q) + Cardinality(Released("put", tty.osem))
    BY IdleGood DEF Ttywrite, Call, Then, k, room
  <2>3. tty' = [t EXCEPT !.osem = WasReset(t.osem, OBUFLEN - t.ocnt)]
    BY DEF Ttywrite, k, room
  <2> HIDE DEF t
  <2>4. WasReset(t.osem, OBUFLEN - t.ocnt) = s
    BY <1>1, <2>1 DEF WasReset
  <2>5. QED  BY <2>2, <2>3, <2>4
<1> HIDE DEF put, left
<1>6. /\ OutGood(t) /\ SameIn(tty, t) /\ t.osem = tty.osem /\ t.odsend = tty.odsend /\ t.ocnt = tty.ocnt + Len(put)
  BY <1>1, <1>4, WritcopiedGood
<1> HIDE DEF t
<1>7. t.ocnt \in Nat /\ OBUFLEN - t.ocnt \in Nat /\ t.odsend \in Nat
  BY <1>1, <1>3, <1>4, <1>6 DEF room
<1>8. Sound(s) /\ s.n = OBUFLEN - t.ocnt /\ ToSet(s.q) = {}
  BY <1>7, NewSound
<1> HIDE DEF s
<1>9. OutGood(u) /\ SameIn(t, u) /\ u.osem = s /\ OutSum(u) = s.n + t.odsend + t.ocnt
  BY <1>6, <1>8, OsemGood
<1> HIDE DEF u
<1>10. c \in Conts /\ c.op = "wrote" /\ ContGood(c)
  <2>1. "wrote" \in Ops
    BY DEF Ops
  <2>2. c \in Conts /\ c.op = "wrote"
    BY <1>4, <2>1, DoGood
  <2> HIDE DEF c
  <2>3. QED  BY <2>2 DEF ContGood
<1> HIDE DEF c
<1>11. bonus' \in Nat
       /\ OutSum(tty') + One(c.op, {"put"}) - bonus' = OutSum(tty) + One(cont[p].op, {"put"}) - bonus
  <2> DEFINE r == Cardinality(Released("put", tty.osem))
             l == Len(tty.osem.q)
             a == Cardinality(Those(cont, {"put"}))
             x == OutSum(tty)
             d == tty.odsend
             y == OutSum(u)
  <2>1. r \in Nat /\ l \in Nat /\ a = l + r
    BY PuttersCount
  <2>2. x + a = OBUFLEN + bonus /\ bonus \in Nat /\ x \in Int
    BY <1>1 DEF TtyInv, OutAccount
  <2>3. One(c.op, {"put"}) = 0 /\ One(cont[p].op, {"put"}) = 0
    BY <1>5, <1>10 DEF One
  <2>4. y = OBUFLEN + d /\ d \in Nat
    BY <1>1, <1>6, <1>7, <1>8, <1>9
  <2>5. bonus' = d + l + r /\ tty' = u
    BY <1>5
  <2> HIDE DEF r, l, a, x, d, y
  <2>6. d + l + r \in Nat /\ y + 0 - (d + l + r) = x + 0 - bonus
    BY ONLY <1>1, <2>1, <2>2, <2>4
  <2>7. QED  BY <2>3, <2>5, <2>6 DEF x, y
<1>12. OutputDue'
  <2>1. p \in Procs /\ cont'[p].op = "wrote" /\ u.ecnt = tty.ecnt /\ u.txint = tty.txint
    <3>1. cont \in [Procs -> Conts]
      BY InvFacts
    <3>2. u.ecnt = t.ecnt /\ u.txint = t.txint
      BY <1>6, <1>8, OsemGood DEF u
    <3>3. t.ecnt = tty.ecnt /\ t.txint = tty.txint
      BY <1>1, <1>4, WritcopiedGood DEF t
    <3>4. QED  BY <1>5, <1>10, <3>1, <3>2, <3>3
  <2>2. tty.ecnt > 0 => tty.txint
    <3>1. tty.ecnt \in Nat
      BY <1>1, Sizes DEF OutGood, Ttys
    <3>2. QED  BY <3>1 DEF TtyInv, OutputDue
  <2>3. u.ecnt \in Nat
    BY <1>9, Sizes DEF OutGood, Ttys
  <2>4. QED  BY <1>5, <2>1, <2>2, <2>3 DEF OutputDue, At
<1>13. /\ SameIn(tty, tty') /\ OutGood(tty') /\ ToSet(tty'.osem.q) = {}
       /\ cont[p].op \notin Holders /\ c.op \notin Holders
  BY <1>5, <1>6, <1>8, <1>9, <1>10 DEF SameIn, Holders, Waiters
<1>14. QED  BY <1>5, <1>10, <1>11, <1>12, <1>13, WriterKeeps

LEMMA WriterStepKeeps ==
  ASSUME TtyInv, Fits, NEW p \in Procs, WriterStep(p), UNCHANGED <<over, interrupted>>
  PROVE  TtyInv' /\ SameIn(tty, tty')
<1>1. CASE \E text \in Texts : IF Len(text) = 1 THEN Ttyputc(p, text[1]) ELSE Ttywrite(p, text)
  <2>1. PICK text \in Texts : IF Len(text) = 1 THEN Ttyputc(p, text[1]) ELSE Ttywrite(p, text)
    BY <1>1
  <2>2. CASE Len(text) = 1
    <3>1. text[1] \in Codes
      BY <2>2, TextTyped
    <3>2. QED  BY <2>1, <2>2, <3>1, TtyputcKeeps
  <2>3. QED  BY <2>1, <2>2, TtywriteKeeps
<1>2. QED  BY <1>1, FinishWriteKeeps, FinishPutKeeps, PutMoreKeeps DEF WriterStep

------------------------------------------------------------------------------
(* The steps of the upper half: readers. *)

\* The account of the readers: those that wait, and those that have a unit.
LEMMA HoldersCount ==
  ASSUME TtyInv
  PROVE  /\ Cardinality(Readers) \in Nat /\ Len(tty.isem.q) \in Nat
         /\ Cardinality(Those(cont, Holders)) = Len(tty.isem.q) + Cardinality(Readers)
<1> DEFINE W == Those(cont, Holders)
           q == tty.isem.q
           R == Readers
<1>1. Sound(tty.isem) /\ q \in Seq(Procs) /\ IsInjective(q) /\ ToSet(q) \subseteq Those(cont, Waiters)
  <2>1. Sound(tty.isem)
    BY DEF TtyInv, Good, InGood
  <2>2. QED  BY <2>1, SoundFacts DEF TtyInv, InAccount
<1>2. IsFiniteSet(W)
  BY ThoseFinite
<1>3. ToSet(q) \subseteq W
  BY <1>1 DEF Those, Holders
<1>4. R = W \ ToSet(q)
  <2> DEFINE P == {p \in Procs : At(p, "peeked")}
  <2>1. \A op : \A p : p \in Released(op, tty.isem) <=> p \in Procs /\ cont[p].op = op /\ p \notin ToSet(q)
    BY <1>1, ContainsIn DEF Released, At
  <2>2. \A p : p \in P <=> p \in Procs /\ cont[p].op = "peeked"
    BY DEF At
  <2>3. \A p : p \in R <=> (\E op \in Waiters : p \in Released(op, tty.isem)) \/ p \in P
    BY Zenon DEF Readers, Waiters
  <2> HIDE DEF P, R
  <2>4. \A p : p \in R <=> p \in Procs /\ ((cont[p].op \in Waiters /\ p \notin ToSet(q)) \/ cont[p].op = "peeked")
    BY ONLY <2>1, <2>2, <2>3
  <2>5. \A p \in Procs : cont[p].op = "peeked" => p \notin ToSet(q)
    BY <1>1 DEF Those, Waiters
  <2>6. \A p \in Procs : p \in W <=> cont[p].op \in Waiters \/ cont[p].op = "peeked"
    BY DEF Those, Holders
  <2>7. W \subseteq Procs
    BY DEF Those
  <2> HIDE DEF W
  <2>8. QED  BY <2>4, <2>5, <2>6, <2>7
<1> HIDE DEF W, q, R
<1>5. Cardinality(W \ ToSet(q)) \in Nat /\ Cardinality(W) = Len(q) + Cardinality(W \ ToSet(q)) /\ Len(q) \in Nat
  BY <1>1, <1>2, <1>3, OthersCount
<1>6. Cardinality(R) = Cardinality(W \ ToSet(q))
  BY ONLY <1>4, Zenon
<1>7. QED  BY <1>5, <1>6 DEF W, q, R

\* A process that is not waiting for characters starts its loop.
LEMMA GetsGood ==
  ASSUME TtyInv, NEW p \in Procs, cont[p].op \notin Holders, NEW n \in Nat, NEW got \in Seq(Codes),
         NEW op \in {"go", "user"}, op # "user" => n > 0,
         NEW m \in Int, m = InSum(tty) + One(cont[p].op, Holders)
  PROVE  TakeGood(tty, p, m, [t |-> tty, n |-> n, got |-> got, op |-> op])
<1> DEFINE r == [t |-> tty, n |-> n, got |-> got, op |-> op]
<1>1. InGood(tty) /\ tty \in Ttys /\ p \notin ToSet(tty.isem.q) /\ InSum(tty) \in Int
  BY InvFacts DEF Holders
<1>2. r \in Gets /\ r.t = tty /\ r.n = n /\ r.op = op
  BY <1>1 DEF Gets
<1> HIDE DEF r
<1>3. One(cont[p].op, Holders) = 0 /\ One(r.op, {"read"}) = 0
  BY <1>2 DEF One
<1>4. SameOut(tty, r.t) /\ ReadsOff(tty, r.t)
  BY <1>1, <1>2 DEF SameOut, ReadsOff, Ttys
<1>5. InSum(r.t) = m - One(r.op, {"read"})
  BY <1>1, <1>2, <1>3
<1>6. TakeGood(tty, p, m, r)
  BY <1>1, <1>2, <1>4, <1>5 DEF TakeGood
<1>7. QED  BY <1>6 DEF r

LEMMA ReadLaterKeeps ==
  ASSUME TtyInv, NEW p \in Procs, ReadLater(p)
  PROVE  TtyInv' /\ Reading
<1> DEFINE n == cont[p].n
           got == cont[p].got
           r(op) == [t |-> tty, n |-> n, got |-> got, op |-> op]
           m == InSum(tty) + One(cont[p].op, Holders)
           s == IF n = 0 THEN r("user") ELSE TakeAll(r("go"), p)
<1>1. cont[p].op = "later" /\ Takes(p, s) /\ UNCHANGED <<bonus, over, interrupted>>
  <2>1. [r("go") EXCEPT !.op = "user"] = r("user") /\ r("go").n = n
    OBVIOUS
  <2>2. cont[p].op = "later" /\ UNCHANGED <<bonus, over, interrupted>>
    BY DEF ReadLater, At
  <2>3. Takes(p, IF r("go").n = 0 THEN [r("go") EXCEPT !.op = "user"] ELSE TakeAll(r("go"), p))
    BY Zenon DEF ReadLater
  <2> HIDE DEF r
  <2>4. QED  BY <2>1, <2>2, <2>3
<1>2. n \in Nat /\ got \in Seq(Codes) /\ cont[p].op \notin Holders /\ tty \in Ttys
  BY <1>1, InvFacts DEF Holders, Waiters
<1>3. m \in Int /\ m = InSum(tty) + One(cont[p].op, Holders)
  BY UnitsTyped
<1> HIDE DEF m, n, got
<1>4. TakeGood(tty, p, m, r("user")) /\ (n # 0 => TakeGood(tty, p, m, r("go")))
  BY <1>2, <1>3, GetsGood
<1>5. r("user").op # "go"
  OBVIOUS
<1> HIDE DEF r
<1>6. TakeGood(tty, p, m, s) /\ s.op # "go"
  BY <1>2, <1>3, <1>4, <1>5, TakeAllGood
<1> HIDE DEF s
<1>7. cont[p].op \notin {"put", "more", "wrote"}
  BY <1>1
<1>8. QED  BY <1>1, <1>3, <1>6, <1>7, TakesKeeps

LEMMA FinishReadKeeps ==
  ASSUME TtyInv, NEW p \in Procs, FinishRead(p)
  PROVE  TtyInv' /\ Reading
<1> DEFINE n == cont[p].n
           got == cont[p].got
           r == [t |-> tty, n |-> n, got |-> got, op |-> "go"]
           m == InSum(tty) + One(cont[p].op, Holders)
           v == TakeOne(r)
           s == TakeAll(v, p)
<1>1. cont[p].op = "read" /\ ~Contains(tty.isem.q, p) /\ Takes(p, s) /\ UNCHANGED <<bonus, over, interrupted>>
  BY DEF FinishRead, At
<1>2. n \in Nat /\ n > 0 /\ got \in Seq(Codes) /\ InGood(tty) /\ tty \in Ttys /\ InSum(tty) \in Int
  BY <1>1, InvFacts DEF ContGood
<1>3. m \in Int /\ m = InSum(tty) + One(cont[p].op, Holders)
  BY UnitsTyped
<1>4. m = InSum(tty) + 1
  BY <1>1 DEF One, Holders, Waiters
<1> HIDE DEF m, n, got
<1>5. r \in Gets /\ r.t = tty /\ r.n = n
  BY <1>2 DEF Gets
<1> HIDE DEF r
<1>6. /\ v \in Gets /\ InGood(v.t) /\ SameOut(r.t, v.t) /\ InSum(v.t) = InSum(r.t) + 1
      /\ ToSet(v.t.isem.q) \subseteq ToSet(r.t.isem.q)
      /\ v.op \in {"user", "go"} /\ (v.op = "go" => v.n > 0 /\ v.n = r.n - 1) /\ ReadsOff(r.t, v.t)
  BY <1>2, <1>5, TakeOneGood
<1> HIDE DEF v
<1>7. p \notin ToSet(tty.isem.q)
  BY <1>1, <1>2, ContainsIn DEF InGood
<1>8. InSum(v.t) = m - One(v.op, {"read"})
  <2>1. One(v.op, {"read"}) = 0
    BY <1>6 DEF One
  <2>2. InSum(v.t) = InSum(tty) + 1
    BY <1>5, <1>6
  <2>3. QED  BY <1>2, <1>4, <2>1, <2>2
<1>9. TakeGood(tty, p, m, v)
  BY <1>5, <1>6, <1>7, <1>8 DEF TakeGood
<1>10. TakeGood(tty, p, m, s) /\ s.op # "go"
  BY <1>2, <1>3, <1>9, TakeAllGood
<1> HIDE DEF s
<1>11. cont[p].op \notin {"put", "more", "wrote"}
  BY <1>1
<1>12. QED  BY <1>1, <1>3, <1>10, <1>11, TakesKeeps

\* A process that waits for a character or takes the unit of one.
LEMMA WaitedIn ==
  ASSUME TtyInv, NEW p \in Procs, cont[p].op \notin Holders
  PROVE  LET u == [tty EXCEPT !.isem = Waited(tty.isem, p)] IN
         /\ InGood(u) /\ SameOut(tty, u) /\ u \in Ttys /\ InSum(u) = InSum(tty) - 1
         /\ ToSet(u.isem.q) \subseteq ToSet(tty.isem.q) \cup {p} /\ (p \in ToSet(u.isem.q) => Blocks(tty.isem))
         /\ ReadsOff(tty, u)
<1> DEFINE s == Waited(tty.isem, p)
           u == [tty EXCEPT !.isem = s]
<1>1. InGood(tty) /\ p \notin ToSet(tty.isem.q)
  BY InvFacts DEF Holders
<1>2. Sound(tty.isem) /\ tty.isem.n \in Int /\ tty.icnt \in Int
  BY <1>1, InFacts
<1>3. /\ Sound(s) /\ s.n = tty.isem.n - 1
      /\ ToSet(s.q) = IF tty.isem.n <= 0 THEN ToSet(tty.isem.q) \cup {p} ELSE {}
      /\ Blocks(tty.isem) <=> tty.isem.n <= 0
  BY <1>1, <1>2, WaitedSound
<1> HIDE DEF s
<1>4. InGood(u) /\ SameOut(tty, u) /\ u.isem = s /\ InSum(u) = s.n - tty.icnt /\ ReadsOff(tty, u)
  BY <1>1, <1>3, IsemGood
<1> HIDE DEF u
<1>5. InSum(u) = InSum(tty) - 1 /\ u \in Ttys
  BY <1>2, <1>3, <1>4 DEF InSum, InGood
<1>6. ToSet(u.isem.q) \subseteq ToSet(tty.isem.q) \cup {p} /\ (p \in ToSet(u.isem.q) => Blocks(tty.isem))
  BY <1>3, <1>4
<1>7. QED  BY <1>4, <1>5, <1>6 DEF u, s

\* A reader's step that takes or gives one unit, and what is left of its call.
LEMMA UnitKeeps ==
  ASSUME TtyInv, NEW p \in Procs, NEW c \in Conts, ContGood(c), cont' = [cont EXCEPT ![p] = c],
         InGood(tty'), SameOut(tty, tty'), NEW d \in Int, InSum(tty') = InSum(tty) + d,
         One(cont[p].op, Holders) - One(c.op, Holders) = d,
         ToSet(tty'.isem.q) \subseteq ToSet(tty.isem.q) \cup {p}, p \in ToSet(tty'.isem.q) => c.op \in Waiters,
         cont[p].op \notin {"put", "more", "wrote"}, c.op \notin {"put", "more", "wrote"}, ReadsOff(tty, tty'),
         UNCHANGED <<bonus, over, interrupted>>
  PROVE  TtyInv' /\ Reading
<1>1. over' \in Nat /\ over' = over /\ over \in Nat /\ InSum(tty) \in Int
  BY InvFacts
<1>2. InSum(tty') + One(c.op, Holders) - over' = InSum(tty) + One(cont[p].op, Holders) - over
  <2> DEFINE a == One(cont[p].op, Holders)
             b == One(c.op, Holders)
             x == InSum(tty)
             y == InSum(tty')
  <2>1. a \in Nat /\ b \in Nat
    BY DEF One
  <2>2. y = x + d /\ a - b = d /\ x \in Int
    BY <1>1
  <2> HIDE DEF a, b, x, y
  <2>3. y + b - over' = x + a - over
    BY ONLY <1>1, <2>1, <2>2, d \in Int
  <2>4. QED  BY <2>3 DEF a, b, x, y
<1>3. Reading
  <2>1. Rests(cont') = Rests(cont)
    BY InvFacts, RestsKept
  <2>2. QED  BY <2>1 DEF Reading
<1>4. QED  BY <1>1, <1>2, <1>3, ReaderKeeps

LEMMA TtygetcKeeps ==
  ASSUME TtyInv, NEW p \in Procs, Ttygetc(p)
  PROVE  TtyInv' /\ Reading
<1> DEFINE t == [tty EXCEPT !.isem = Waited(tty.isem, p)]
           c == Do("getc", <<>>)
<1>1. cont[p] = Idle /\ cont[p].op = "user" /\ UNCHANGED <<bonus, over, interrupted>>
  BY IdleGood DEF Ttygetc, Call
<1>2. IF Blocks(tty.isem) THEN tty' = t /\ cont' = [cont EXCEPT ![p] = c]
      ELSE tty' = Consumed(t, 1) /\ UNCHANGED cont
  BY DEF Ttygetc, Then
<1>3. /\ InGood(t) /\ SameOut(tty, t) /\ t \in Ttys /\ InSum(t) = InSum(tty) - 1
      /\ ToSet(t.isem.q) \subseteq ToSet(tty.isem.q) \cup {p} /\ (p \in ToSet(t.isem.q) => Blocks(tty.isem))
      /\ ReadsOff(tty, t)
  BY <1>1, WaitedIn DEF Holders, Waiters
<1> HIDE DEF t
<1>4. One(cont[p].op, Holders) = 0 /\ InSum(tty) \in Int /\ cont \in [Procs -> Conts]
  BY <1>1, InvFacts DEF One, Holders, Waiters
<1>5. CASE Blocks(tty.isem)
  <2>1. c \in Conts /\ c.op = "getc" /\ c.rest = <<>>
    <3>1. "getc" \in Ops /\ <<>> \in Seq(Codes)
      BY DEF Ops
    <3>2. QED  BY <3>1, DoGood
  <2> HIDE DEF c
  <2>2. ContGood(c) /\ One(c.op, Holders) = 1 /\ c.op \in Waiters
    BY <2>1 DEF ContGood, One, Holders, Waiters
  <2>3. InSum(tty') = InSum(tty) + (-1) /\ 0 - 1 = -1 /\ -1 \in Int
    BY <1>2, <1>3, <1>4, <1>5
  <2>4. tty' = t /\ cont' = [cont EXCEPT ![p] = c]
    BY <1>2, <1>5
  <2>5. One(cont[p].op, Holders) - One(c.op, Holders) = -1
    BY <1>4, <2>2, <2>3
  <2>6. QED  BY <1>1, <1>3, <2>1, <2>2, <2>3, <2>4, <2>5, UnitKeeps
<1>6. CASE ~Blocks(tty.isem)
  <2> DEFINE u == Consumed(t, 1)
  <2>1. InGood(u) /\ SameOut(t, u) /\ u.isem = t.isem /\ InSum(u) = InSum(t) + 1 /\ ReadsOff(t, u) /\ u \in Ttys
    <3>1. 1 \in Nat
      OBVIOUS
    <3>2. QED  BY <1>3, <3>1, ConsumedGood DEF InGood
  <2> HIDE DEF u
  <2>2. tty' = u /\ cont' = [cont EXCEPT ![p] = Idle]
    BY <1>1, <1>2, <1>4, <1>6 DEF u
  <2>3. InSum(tty') = InSum(tty) + 0 /\ 0 \in Int /\ 0 - 0 = 0 /\ SameOut(tty, tty')
    BY <1>3, <1>4, <2>1, <2>2 DEF SameOut
  <2>4. One(cont[p].op, Holders) - One(Idle.op, Holders) = 0
    BY <1>1, <1>4, <2>3
  <2>5. p \notin ToSet(tty'.isem.q) /\ ToSet(tty'.isem.q) \subseteq ToSet(tty.isem.q) \cup {p}
    BY <1>3, <1>6, <2>1, <2>2
  <2>6. ReadsOff(tty, tty')
    <3>1. tty \in Ttys
      BY InvFacts
    <3>2. QED  BY <1>3, <2>1, <2>2, <3>1, ReadsOn
  <2>7. QED  BY <1>1, <2>1, <2>2, <2>3, <2>4, <2>5, <2>6, IdleGood, UnitKeeps
<1>7. QED  BY <1>5, <1>6

LEMMA FinishGetcKeeps ==
  ASSUME TtyInv, NEW p \in Procs, FinishGetc(p)
  PROVE  TtyInv' /\ Reading
<1> DEFINE u == Consumed(tty, 1)
<1>1. /\ cont[p].op = "getc" /\ ~Contains(tty.isem.q, p) /\ UNCHANGED <<bonus, over, interrupted>>
      /\ tty' = u /\ cont' = [cont EXCEPT ![p] = Idle]
  BY DEF FinishGetc, At, Then
<1>2. InGood(tty)
  BY InvFacts
<1>3. InGood(u) /\ SameOut(tty, u) /\ u.isem = tty.isem /\ InSum(u) = InSum(tty) + 1 /\ ReadsOff(tty, u)
  <2>1. 1 \in Nat
    OBVIOUS
  <2>2. QED  BY <1>2, <2>1, ConsumedGood
<1> HIDE DEF u
<1>4. p \notin ToSet(tty.isem.q)
  BY <1>1, <1>2, ContainsIn DEF InGood
<1>5. One(cont[p].op, Holders) - One(Idle.op, Holders) = 1 /\ 1 \in Int
  BY <1>1, IdleGood DEF One, Holders, Waiters
<1>6. p \notin ToSet(tty'.isem.q) /\ ToSet(tty'.isem.q) \subseteq ToSet(tty.isem.q) \cup {p}
  BY <1>1, <1>3, <1>4
<1>7. cont[p].op \notin {"put", "more", "wrote"} /\ Idle.op \notin {"put", "more", "wrote"}
  BY <1>1, IdleGood
<1>8. QED  BY <1>1, <1>3, <1>5, <1>6, <1>7, IdleGood, UnitKeeps

LEMMA PeekKeeps ==
  ASSUME TtyInv, NEW p \in Procs, Peek(p)
  PROVE  TtyInv' /\ Reading
<1> DEFINE t == [tty EXCEPT !.isem = Waited(tty.isem, p)]
           op == IF Blocks(tty.isem) THEN "peek" ELSE "peeked"
           c == Do(op, <<>>)
<1>1. /\ cont[p].op = "user" /\ UNCHANGED <<bonus, over, interrupted>>
      /\ tty' = t /\ cont' = [cont EXCEPT ![p] = c]
  BY IdleGood DEF Peek, Call, Then
<1>2. /\ InGood(t) /\ SameOut(tty, t) /\ t \in Ttys /\ InSum(t) = InSum(tty) - 1
      /\ ToSet(t.isem.q) \subseteq ToSet(tty.isem.q) \cup {p} /\ (p \in ToSet(t.isem.q) => Blocks(tty.isem))
      /\ ReadsOff(tty, t)
  BY <1>1, WaitedIn DEF Holders, Waiters
<1> HIDE DEF t
<1>3. c \in Conts /\ c.op = op /\ c.rest = <<>>
  <2>1. op \in Ops /\ <<>> \in Seq(Codes)
    BY DEF Ops
  <2> HIDE DEF op
  <2>2. QED  BY <2>1, DoGood
<1> HIDE DEF c
<1>4. ContGood(c) /\ One(c.op, Holders) = 1 /\ (p \in ToSet(t.isem.q) => c.op \in Waiters)
      /\ c.op \notin {"put", "more", "wrote"}
  BY <1>2, <1>3 DEF ContGood, One, Holders, Waiters
<1>5. One(cont[p].op, Holders) = 0 /\ InSum(tty) \in Int
  BY <1>1, InvFacts DEF One, Holders, Waiters
<1>6. InSum(tty') = InSum(tty) + (-1) /\ -1 \in Int /\ One(cont[p].op, Holders) - One(c.op, Holders) = -1
  BY <1>1, <1>2, <1>4, <1>5
<1>7. cont[p].op \notin {"put", "more", "wrote"}
  BY <1>1
<1>8. QED  BY <1>1, <1>2, <1>3, <1>4, <1>6, <1>7, UnitKeeps

LEMMA PeekLaterKeeps ==
  ASSUME TtyInv, NEW p \in Procs, PeekLater(p)
  PROVE  TtyInv' /\ Reading
<1> DEFINE c == Do("peeked", <<>>)
<1>1. /\ cont[p].op = "peek" /\ ~Contains(tty.isem.q, p) /\ UNCHANGED <<bonus, over, interrupted>>
      /\ tty' = tty /\ cont' = [cont EXCEPT ![p] = c]
  BY DEF PeekLater, At, Then
<1>2. InGood(tty) /\ InSum(tty) \in Int
  BY InvFacts
<1>3. p \notin ToSet(tty.isem.q)
  BY <1>1, <1>2, ContainsIn DEF InGood
<1>4. c \in Conts /\ c.op = "peeked" /\ c.rest = <<>>
  <2>1. "peeked" \in Ops /\ <<>> \in Seq(Codes)
    BY DEF Ops
  <2>2. QED  BY <2>1, DoGood
<1> HIDE DEF c
<1>5. ContGood(c) /\ c.op \notin {"put", "more", "wrote"} /\ cont[p].op \notin {"put", "more", "wrote"}
      /\ One(c.op, Holders) = 1 /\ One(cont[p].op, Holders) = 1
  BY <1>1, <1>4 DEF ContGood, One, Holders, Waiters
<1>6. SameOut(tty, tty') /\ InGood(tty') /\ p \notin ToSet(tty'.isem.q)
      /\ ToSet(tty'.isem.q) \subseteq ToSet(tty.isem.q) \cup {p} /\ ReadsOff(tty, tty')
  BY <1>1, <1>2, <1>3 DEF SameOut, ReadsOff, InGood, Ttys
<1>7. InSum(tty') = InSum(tty) + 0 /\ 0 \in Int /\ One(cont[p].op, Holders) - One(c.op, Holders) = 0
  BY <1>1, <1>2, <1>5
<1>8. QED  BY <1>1, <1>4, <1>5, <1>6, <1>7, UnitKeeps

LEMMA FinishPeekKeeps ==
  ASSUME TtyInv, NEW p \in Procs, FinishPeek(p)
  PROVE  TtyInv' /\ Reading
<1> DEFINE s == Signaled(tty.isem)
           u == [tty EXCEPT !.isem = s]
<1>1. /\ cont[p].op = "peeked" /\ UNCHANGED <<bonus, over, interrupted>>
      /\ tty' = u /\ cont' = [cont EXCEPT ![p] = Idle]
  BY DEF FinishPeek, At, Then
<1>2. InGood(tty) /\ p \notin ToSet(tty.isem.q) /\ InSum(tty) \in Int
  BY <1>1, InvFacts DEF Waiters
<1>3. Sound(tty.isem) /\ tty.isem.n \in Int /\ tty.icnt \in Int
  BY <1>2, InFacts
<1>4. Sound(s) /\ s.n = tty.isem.n + 1 /\ ToSet(s.q) \subseteq ToSet(tty.isem.q)
  BY <1>3, SignaledSubset
<1> HIDE DEF s
<1>5. InGood(u) /\ SameOut(tty, u) /\ u.isem = s /\ InSum(u) = s.n - tty.icnt /\ ReadsOff(tty, u)
  BY <1>2, <1>4, IsemGood
<1> HIDE DEF u
<1>6. InSum(tty') = InSum(tty) + 1
  BY <1>1, <1>3, <1>4, <1>5 DEF InSum
<1>7. One(cont[p].op, Holders) - One(Idle.op, Holders) = 1 /\ 1 \in Int
  BY <1>1, IdleGood DEF One, Holders, Waiters
<1>8. p \notin ToSet(tty'.isem.q) /\ ToSet(tty'.isem.q) \subseteq ToSet(tty.isem.q) \cup {p}
  BY <1>1, <1>2, <1>4, <1>5
<1>9. cont[p].op \notin {"put", "more", "wrote"} /\ Idle.op \notin {"put", "more", "wrote"}
  BY <1>1, IdleGood
<1>10. QED  BY <1>1, <1>5, <1>6, <1>7, <1>8, <1>9, IdleGood, UnitKeeps

\* A step of no process keeps the invariant if it does to the control block what a character
\* from the line may.
LEMMA TypesKeeps ==
  ASSUME TtyInv, Types(tty, tty'), UNCHANGED <<cont, bonus, over>>, interrupted' \subseteq Procs \cup {Nobody}
  PROVE  TtyInv'
<1>1. /\ Good(tty') /\ InSum(tty') = InSum(tty) /\ OutSum(tty') = OutSum(tty) /\ Due(tty, tty')
      /\ ToSet(tty'.isem.q) \subseteq ToSet(tty.isem.q) /\ ToSet(tty'.osem.q) \subseteq ToSet(tty.osem.q)
  BY DEF Types
<1>2. Those(cont', Waiters) = Those(cont, Waiters) /\ Those(cont', {"put"}) = Those(cont, {"put"})
      /\ Those(cont', Holders) = Those(cont, Holders)
  BY DEF Those
<1>3. InAccount'
  <2>1. Cardinality(Those(cont', Holders)) = Cardinality(Those(cont, Holders))
    BY ONLY <1>2, Zenon
  <2>2. InSum(tty) + Cardinality(Those(cont, Holders)) = over /\ over \in Nat
        /\ ToSet(tty.isem.q) \subseteq Those(cont, Waiters)
    BY DEF TtyInv, InAccount
  <2>3. InSum(tty') + Cardinality(Those(cont', Holders)) = over'
    BY <1>1, <2>1, <2>2
  <2>4. QED  BY <1>1, <1>2, <2>2, <2>3 DEF InAccount
<1>4. OutAccount'
  <2>1. Cardinality(Those(cont', {"put"})) = Cardinality(Those(cont, {"put"}))
    BY ONLY <1>2, Zenon
  <2>2. OutSum(tty) + Cardinality(Those(cont, {"put"})) = OBUFLEN + bonus /\ bonus \in Nat
        /\ ToSet(tty.osem.q) \subseteq Those(cont, {"put"})
    BY DEF TtyInv, OutAccount
  <2>3. OutSum(tty') + Cardinality(Those(cont', {"put"})) = OBUFLEN + bonus'
    BY <1>1, <2>1, <2>2
  <2>4. QED  BY <1>1, <1>2, <2>2, <2>3 DEF OutAccount
<1>5. OutputDue'
  <2>1. CASE Started(tty')
    BY <2>1 DEF OutputDue, Started
  <2>2. CASE ~Started(tty')
    <3>1. tty'.ocnt = tty.ocnt /\ tty'.ecnt = tty.ecnt /\ tty'.txint = tty.txint /\ (tty.oheld => tty'.oheld)
      BY <1>1, <2>2 DEF Due
    <3>2. QED  BY <3>1 DEF TtyInv, OutputDue, At
  <2>3. QED  BY <2>1, <2>2
<1>6. ContsGood'
  BY DEF TtyInv, ContsGood
<1>7. QED  BY <1>1, <1>3, <1>4, <1>5, <1>6 DEF TtyInv

LEMMA TtycntlKeeps ==
  ASSUME TtyInv, NEW p \in Procs, Ttycntl(p)
  PROVE  TtyInv' /\ Reading
<1> DEFINE mode(b) == [tty EXCEPT !.imode = b]
           echo(b) == [tty EXCEPT !.iecho = b]
           none == [tty EXCEPT !.iintr = FALSE]
           Modes == {"RAW", "COOKED", "CBREAK"}
<1>1. UNCHANGED <<cont, bonus, over, interrupted>>
      /\ ((\E b \in Modes : tty' = mode(b)) \/ (\E b \in BOOLEAN : tty' = echo(b)) \/ tty' = none)
  BY DEF Ttycntl
<1>2. /\ tty \in Ttys /\ Sound(tty.isem) /\ InRing(tty)
  BY InvFacts DEF InGood
<1>3. /\ tty' \in Ttys /\ SameOut(tty, tty') /\ tty'.isem = tty.isem /\ tty'.icnt = tty.icnt /\ tty'.ihead = tty.ihead
      /\ tty'.itail = tty.itail /\ tty'.icursor = tty.icursor
      /\ tty'.ibuff = tty.ibuff
  <2>1. CASE \E b \in Modes : tty' = mode(b)
    BY <1>2, <2>1 DEF Ttys, SameOut
  <2>2. CASE \E b \in BOOLEAN : tty' = echo(b)
    BY <1>2, <2>2 DEF Ttys, SameOut
  <2>3. CASE tty' = none
    BY <1>2, <2>3 DEF Ttys, SameOut
  <2>4. QED  BY <1>1, <2>1, <2>2, <2>3
<1>4. InGood(tty')
  BY <1>2, <1>3 DEF InGood, InRing
<1>5. Types(tty, tty')
  <2>1. InSum(tty') = InSum(tty) /\ ToSet(tty'.isem.q) \subseteq ToSet(tty.isem.q) /\ Good(tty)
    BY <1>3 DEF InSum, TtyInv
  <2>2. QED  BY <1>3, <1>4, <2>1, InTypes
<1>6. interrupted' \subseteq Procs \cup {Nobody}
  BY <1>1 DEF TtyInv
<1>7. Reading
  BY <1>1, <1>2, <1>3 DEF Reading, ReadsOff, Ttys
<1>8. QED  BY <1>1, <1>5, <1>6, <1>7, TypesKeeps

LEMMA TcintKeeps ==
  ASSUME TtyInv, NEW p \in Procs, Tcint(p)
  PROVE  TtyInv' /\ Reading
<1> DEFINE u == [tty EXCEPT !.iintr = TRUE]
           c == Do("intr", <<>>)
<1>1. /\ cont[p].op = "user" /\ UNCHANGED <<bonus, over, interrupted>>
      /\ tty' = u /\ cont' = [cont EXCEPT ![p] = c]
  BY IdleGood DEF Tcint, Call, Then
<1>2. InGood(tty) /\ tty \in Ttys /\ InSum(tty) \in Int /\ p \notin ToSet(tty.isem.q)
  BY <1>1, InvFacts DEF Waiters
<1>3. u \in Ttys /\ SameOut(tty, u) /\ InSum(u) = InSum(tty) /\ u.isem = tty.isem /\ ReadsOff(tty, u)
      /\ u.itail = tty.itail /\ u.icnt = tty.icnt
  <2>1. u \in Ttys
    BY ONLY <1>2 DEF Ttys
  <2>2. /\ u.ibuff = tty.ibuff /\ u.ihead = tty.ihead /\ u.itail = tty.itail /\ u.icnt = tty.icnt
        /\ u.icursor = tty.icursor /\ u.isem = tty.isem /\ tty.icnt \in Int
    BY ONLY <1>2 DEF Ttys
  <2>3. SameOut(tty, u)
    BY ONLY <1>2 DEF Ttys, SameOut
  <2>4. QED  BY <2>1, <2>2, <2>3 DEF InSum, ReadsOff
<1>4. InGood(u)
  BY <1>2, <1>3 DEF InGood, InRing, ReadsOff
<1>5. c \in Conts /\ c.op = "intr" /\ c.rest = <<>>
  <2>1. "intr" \in Ops /\ <<>> \in Seq(Codes)
    BY DEF Ops
  <2>2. QED  BY <2>1, DoGood
<1> HIDE DEF u, c
<1>6. ContGood(c) /\ c.op \notin {"put", "more", "wrote"} /\ cont[p].op \notin {"put", "more", "wrote"}
      /\ One(c.op, Holders) = 0 /\ One(cont[p].op, Holders) = 0
  BY <1>1, <1>5 DEF ContGood, One, Holders, Waiters
<1>7. InSum(tty') = InSum(tty) + 0 /\ 0 \in Int /\ One(cont[p].op, Holders) - One(c.op, Holders) = 0
  BY <1>1, <1>2, <1>3, <1>6
<1>8. p \notin ToSet(tty'.isem.q) /\ ToSet(tty'.isem.q) \subseteq ToSet(tty.isem.q) \cup {p}
  BY <1>1, <1>2, <1>3
<1>9. QED  BY <1>1, <1>3, <1>4, <1>5, <1>6, <1>7, <1>8, UnitKeeps

LEMMA FinishTcintKeeps ==
  ASSUME TtyInv, NEW p \in Procs, FinishTcint(p)
  PROVE  TtyInv' /\ Reading
<1> DEFINE u == [tty EXCEPT !.iintpid = p]
<1>1. /\ cont[p].op = "intr" /\ UNCHANGED <<bonus, over, interrupted>>
      /\ tty' = u /\ cont' = [cont EXCEPT ![p] = Idle]
  BY DEF FinishTcint, At, Then
<1>2. InGood(tty) /\ tty \in Ttys /\ InSum(tty) \in Int /\ p \notin ToSet(tty.isem.q)
  BY <1>1, InvFacts DEF Waiters
<1>3. u \in Ttys /\ SameOut(tty, u) /\ InSum(u) = InSum(tty) /\ u.isem = tty.isem /\ ReadsOff(tty, u)
      /\ u.itail = tty.itail /\ u.icnt = tty.icnt
  <2>1. u \in Ttys
    BY ONLY <1>2, p \in Procs DEF Ttys
  <2>2. /\ u.ibuff = tty.ibuff /\ u.ihead = tty.ihead /\ u.itail = tty.itail /\ u.icnt = tty.icnt
        /\ u.icursor = tty.icursor /\ u.isem = tty.isem /\ tty.icnt \in Int
    BY ONLY <1>2 DEF Ttys
  <2>3. SameOut(tty, u)
    BY ONLY <1>2 DEF Ttys, SameOut
  <2>4. QED  BY <2>1, <2>2, <2>3 DEF InSum, ReadsOff
<1>4. InGood(u)
  BY <1>2, <1>3 DEF InGood, InRing, ReadsOff
<1> HIDE DEF u
<1>5. cont[p].op \notin {"put", "more", "wrote"} /\ Idle.op \notin {"put", "more", "wrote"}
      /\ One(Idle.op, Holders) = 0 /\ One(cont[p].op, Holders) = 0
  BY <1>1, IdleGood DEF One, Holders, Waiters
<1>6. InSum(tty') = InSum(tty) + 0 /\ 0 \in Int /\ One(cont[p].op, Holders) - One(Idle.op, Holders) = 0
  BY <1>1, <1>2, <1>3, <1>5
<1>7. p \notin ToSet(tty'.isem.q) /\ ToSet(tty'.isem.q) \subseteq ToSet(tty.isem.q) \cup {p}
  BY <1>1, <1>2, <1>3
<1>8. QED  BY <1>1, <1>3, <1>4, <1>5, <1>6, <1>7, IdleGood, UnitKeeps

LEMMA MinOfTwo ==
  ASSUME NEW a \in Nat, NEW b \in Nat
  PROVE  Min({a, b}) \in Nat /\ Min({a, b}) <= a /\ Min({a, b}) <= b
<1>1. {a, b} \subseteq Nat /\ {a, b} # {} /\ a \in {a, b} /\ b \in {a, b}
  OBVIOUS
<1>2. Min({a, b}) \in {a, b} /\ \A y \in {a, b} : Min({a, b}) <= y
  BY <1>1, MinNat
<1>3. QED  BY <1>1, <1>2

\* ttyread takes at least one of the characters there are, and no more.
LEMMA TakenNowTyped ==
  ASSUME NEW t, NEW d \in Nat \ {0}
  PROVE  TakenNow(t, d) \in 1 .. d
<1> DEFINE ch(i) == t.ibuff[(t.itail + i - 1) % IBUFLEN]
           ends == {i \in 2 .. d : ch(i) \in {"NL", "EOF"}}
           e == Min(ends)
<1>1. TakenNow(t, d) = IF ends = {} THEN d ELSE IF ch(e) = "EOF" THEN e - 1 ELSE e
  BY DEF TakenNow
<1>2. ends \subseteq 2 .. d /\ ends \subseteq Nat
  OBVIOUS
<1> HIDE DEF ends, ch
<1>3. ends # {} => e \in 2 .. d
  BY <1>2, MinNat
<1> HIDE DEF e
<1>4. QED  BY <1>1, <1>3

LEMMA CharsTyped ==
  ASSUME NEW t, InGood(t), NEW n \in Nat
  PROVE  Chars(t, n) \in Seq(Codes)
<1> DEFINE at(i) == (t.itail + i - 1) % IBUFLEN
<1>1. t.itail \in Int /\ t.ibuff \in [IPlaces -> Codes]
  BY InFacts
<1>2. \A i \in 1 .. n : t.ibuff[at(i)] \in Codes
  <2>1. TAKE i \in 1 .. n
  <2>2. t.itail + i - 1 \in Int /\ IBUFLEN \in Nat \ {0}
    BY <1>1, Sizes
  <2>3. at(i) \in 0 .. IBUFLEN - 1
    BY ONLY <2>2, RoundTyped
  <2> HIDE DEF at
  <2>4. QED  BY <1>1, <2>3 DEF IPlaces
<1>3. Chars(t, n) = [i \in 1 .. n |-> t.ibuff[at(i)]]
  BY DEF Chars
<1> HIDE DEF at
<1>4. QED  BY <1>2, <1>3

\* Two ways to read: wait for characters, or take those there are and reset isem to the rest.
LEMMA TtyreadKeeps ==
  ASSUME TtyInv, Fits, NEW p \in Procs, NEW count \in Reads, Ttyread(p, count)
  PROVE  TtyInv' /\ Reading
<1> DEFINE avail == tty.icnt
           wanted == IF count = 0 THEN avail ELSE count
           donow == Min({wanted, avail})
           atEof == First(tty) = "EOF"
           k == IF atEof THEN 1 ELSE TakenNow(tty, donow)
           got == Chars(tty, k)
           more == IF ~atEof /\ k = donow /\ (k = 1 \/ got[k] # "NL") THEN wanted - donow ELSE 0
           r == [t |-> tty, n |-> wanted, got |-> <<>>, op |-> "go"]
           t == Consumed(tty, k)
           u == [t EXCEPT !.isem = WasReset(t.isem, avail - k)]
           c == [Idle EXCEPT !.op = "later", !.n = more, !.got = got]
<1>1. /\ cont[p].op = "user" /\ wanted > 0 /\ UNCHANGED <<bonus, interrupted>>
      /\ donow = 0 => Takes(p, TakeAll(r, p)) /\ UNCHANGED over
      /\ donow # 0 => /\ tty' = u /\ cont' = [cont EXCEPT ![p] = c]
                      /\ over' = Cardinality(Readers) + Len(tty.isem.q)
  BY IdleGood DEF Ttyread, Call, Then
<1>2. InGood(tty) /\ tty \in Ttys /\ avail \in Nat /\ count \in Nat /\ InSum(tty) \in Int /\ Sound(tty.isem)
      /\ over \in Nat /\ tty.isem.ok
  <2>1. InGood(tty) /\ tty \in Ttys /\ over \in Nat /\ InSum(tty) \in Int
    BY InvFacts
  <2>2. tty.icnt \in Int /\ Sound(tty.isem)
    BY <2>1, InFacts
  <2>3. QED  BY <2>1, <2>2, SoundFacts, KeysAssumption DEF Fits
<1>3. cont[p].op \notin Holders /\ cont[p].op \notin {"put", "more", "wrote"} /\ One(cont[p].op, Holders) = 0
  BY <1>1 DEF Holders, Waiters, One
<1>4. wanted \in Nat
  BY <1>2
<1>5. donow \in Nat /\ donow <= wanted /\ donow <= avail
  <2> HIDE DEF wanted, avail
  <2>1. QED  BY <1>2, <1>4, MinOfTwo
<1> HIDE DEF wanted, donow
<1>6. CASE donow = 0
  <2> DEFINE m == InSum(tty) + One(cont[p].op, Holders)
             s == TakeAll(r, p)
  <2>1. m \in Int /\ m = InSum(tty) + One(cont[p].op, Holders)
    BY UnitsTyped
  <2> HIDE DEF m
  <2>2. TakeGood(tty, p, m, r)
    <3>1. <<>> \in Seq(Codes) /\ "go" \in {"go", "user"}
      OBVIOUS
    <3>2. QED  BY <1>1, <1>3, <1>4, <2>1, <3>1, GetsGood
  <2> HIDE DEF r
  <2>3. TakeGood(tty, p, m, s) /\ s.op # "go"
    BY <1>2, <2>1, <2>2, TakeAllGood
  <2>4. Takes(p, s) /\ UNCHANGED <<bonus, over, interrupted>>
    BY <1>1, <1>6
  <2> HIDE DEF s
  <2>5. QED  BY <1>3, <2>1, <2>3, <2>4, TakesKeeps
<1>7. CASE donow # 0
  <2>1. k \in Nat /\ k \in 1 .. donow
    <3>1. TakenNow(tty, donow) \in 1 .. donow
      BY <1>5, <1>7, TakenNowTyped
    <3>2. QED  BY <1>5, <1>7, <3>1
  <2> HIDE DEF k
  <2>2. got \in Seq(Codes)
    BY <1>2, <2>1, CharsTyped
  <2>3. avail - k \in Nat
    BY <1>2, <1>5, <2>1
  <2>4. more \in Nat
    BY <1>4, <1>5
  <2> HIDE DEF got, more
  <2>5. c \in Conts /\ c.op = "later" /\ c.rest = <<>>
    <3>1. "later" \in Ops
      BY DEF Ops
    <3>2. QED  BY <2>2, <2>4, <3>1, IdleGood DEF Conts
  <2> HIDE DEF c
  <2>6. ContGood(c) /\ c.op \notin {"put", "more", "wrote"} /\ One(c.op, Holders) = 0
    BY <2>5 DEF ContGood, One, Holders, Waiters
  <2>7. InGood(t) /\ SameOut(tty, t) /\ t.isem = tty.isem /\ t.icnt = avail - k /\ ReadsOff(tty, t) /\ t \in Ttys
    BY <1>2, <2>1, ConsumedGood DEF InGood
  <2> DEFINE s == Sem(avail - k)
  <2>8. Sound(s) /\ s.n = avail - k /\ ToSet(s.q) = {}
    BY <2>3, NewSound
  <2>9. WasReset(t.isem, avail - k) = s
    BY <1>2, <2>7 DEF WasReset
  <2> HIDE DEF t, s
  <2>10. InGood(u) /\ SameOut(t, u) /\ u.isem = s /\ InSum(u) = s.n - t.icnt /\ ReadsOff(t, u) /\ u \in Ttys
    BY <2>7, <2>8, <2>9, IsemGood DEF InGood
  <2> HIDE DEF u
  <2>11. /\ InGood(tty') /\ SameOut(tty, tty') /\ ToSet(tty'.isem.q) = {} /\ InSum(tty') = 0
         /\ cont' = [cont EXCEPT ![p] = c]
    <3>1. s.n - t.icnt = 0
      BY <2>3, <2>7, <2>8
    <3>2. QED  BY <1>1, <1>7, <2>7, <2>8, <2>10, <3>1 DEF SameOut
  <2>12. over' \in Nat
         /\ InSum(tty') + One(c.op, Holders) - over' = InSum(tty) + One(cont[p].op, Holders) - over
    <3> DEFINE h == Cardinality(Those(cont, Holders))
               l == Len(tty.isem.q)
               n == Cardinality(Readers)
               x == InSum(tty)
    <3>1. n \in Nat /\ l \in Nat /\ h = l + n
      BY HoldersCount
    <3>2. x + h = over /\ x \in Int
      BY <1>2 DEF TtyInv, InAccount
    <3>3. over' = n + l
      BY <1>1, <1>7
    <3> HIDE DEF h, l, n, x
    <3>4. over' \in Nat /\ 0 + 0 - over' = x + 0 - over
      BY ONLY <1>2, <3>1, <3>2, <3>3
    <3>5. QED  BY <1>3, <2>6, <2>11, <3>4 DEF x
  <2>13. ToSet(tty'.isem.q) \subseteq ToSet(tty.isem.q) \cup {p} /\ p \notin ToSet(tty'.isem.q)
    BY <2>11
  <2>14. Reading
    <3>1. ReadsOff(tty, tty')
      BY <1>1, <1>2, <1>7, <2>7, <2>10, ReadsOn
    <3>2. Rests(cont') = Rests(cont)
      BY <1>3, <2>5, <2>6, <2>11, InvFacts, RestsKept
    <3>3. QED  BY <2>11, <3>1, <3>2 DEF Reading
  <2>15. QED  BY <1>1, <1>3, <2>5, <2>6, <2>11, <2>12, <2>13, <2>14, ReaderKeeps
<1>8. QED  BY <1>6, <1>7

------------------------------------------------------------------------------
(* The invariant holds always, and what follows from it. *)

LEMMA TtyiinKeeps ==
  ASSUME TtyInv, NEW ch \in Keys, Ttyiin(ch)
  PROVE  TtyInv'
<1>1. tty' = Typed(tty, ch) /\ UNCHANGED <<cont, bonus, over>>
  BY DEF Ttyiin
<1>2. Types(tty, tty')
  BY <1>1, TypedTypes DEF TtyInv
<1>3. interrupted' \subseteq Procs \cup {Nobody}
  <2>1. tty.iintpid \in Procs \cup {Nobody}
    BY DEF TtyInv, Good, InGood, Ttys
  <2>2. QED  BY <2>1 DEF Ttyiin, TtyInv
<1>4. QED  BY <1>1, <1>2, <1>3, TypesKeeps

LEMMA TxInterruptKeeps ==
  ASSUME TtyInv, TxInterrupt, InputAlone
  PROVE  TtyInv'
<1>1. tty.txint /\ tty' = Ttyoin(tty) /\ UNCHANGED <<cont, bonus, over>> /\ interrupted' \subseteq Procs \cup {Nobody}
  BY DEF TxInterrupt, InputAlone, TtyInv
<1>2. Sends(tty, tty') /\ Started(tty')
  BY <1>1, TtyoinSends DEF TtyInv, Good
<1>3. Types(tty, tty')
  BY <1>2, SendTypes DEF Due, TtyInv
<1>4. QED  BY <1>1, <1>3, TypesKeeps

LEMMA StutterKeeps ==
  ASSUME TtyInv, UNCHANGED vars
  PROVE  TtyInv'
<1>1. tty' = tty /\ UNCHANGED <<cont, bonus, over>> /\ interrupted' \subseteq Procs \cup {Nobody}
  BY DEF vars, TtyInv
<1>2. Types(tty, tty')
  BY <1>1, SameTypes DEF TtyInv
<1>3. QED  BY <1>1, <1>2, TypesKeeps

LEMMA TtyStep ==
  TtyInv /\ [Next]_vars => TtyInv'
<1> SUFFICES ASSUME TtyInv, [Next]_vars PROVE TtyInv'
  OBVIOUS
<1>1. CASE UNCHANGED vars
  BY <1>1, StutterKeeps
<1>2. CASE Next
  <2>1. Fits
    BY <1>2 DEF Next
  <2>2. CASE \E ch \in Keys \cap calls : Ttyiin(ch)
    BY <2>2, TtyiinKeeps
  <2>3. CASE TxInterrupt /\ InputAlone
    BY <2>3, TxInterruptKeeps
  <2>4. ASSUME NEW p \in Procs, ReaderStep(p) PROVE TtyInv'
    BY <2>1, <2>4, TtyreadKeeps, ReadLaterKeeps, FinishReadKeeps, TtygetcKeeps, FinishGetcKeeps, PeekKeeps,
       PeekLaterKeeps, FinishPeekKeeps, TtycntlKeeps, TcintKeeps, FinishTcintKeeps DEF ReaderStep
  <2>5. ASSUME NEW p \in Procs, WriterStep(p), InputAlone PROVE TtyInv'
    BY <2>1, <2>5, WriterStepKeeps DEF InputAlone
  <2>6. QED  BY <1>2, <2>2, <2>3, <2>4, <2>5 DEF Next
<1>3. QED  BY <1>1, <1>2

LEMMA TtyInit ==
  Init => TtyInv
<1> SUFFICES ASSUME Init PROVE TtyInv
  OBVIOUS
<1> DEFINE t == [ibuff |-> [i \in 0 .. IBUFLEN - 1 |-> "x"], ihead |-> 0, itail |-> 0, icnt |-> 0,
            icursor |-> 0, isem |-> Sem(0), imode |-> "COOKED", iecho |-> TRUE,
            iintr |-> FALSE, iintpid |-> Nobody,
            obuff |-> [i \in 0 .. OBUFLEN - 1 |-> "x"], ohead |-> 0, otail |-> 0, ocnt |-> 0,
            osem |-> Sem(OBUFLEN), odsend |-> 0, oheld |-> FALSE, ecnt |-> 0, txint |-> FALSE]
           S == Sem(0)
           R == Sem(OBUFLEN)
<1>1. /\ tty = t /\ cont = [p \in Procs |-> Idle] /\ bonus = 0 /\ over = 0 /\ interrupted = {}
  BY DEF Init
<1>2. /\ Sound(S) /\ S.n = 0 /\ S.q = <<>> /\ ToSet(S.q) = {} /\ Sound(R) /\ R.n = OBUFLEN /\ ToSet(R.q) = {}
  <2>1. 0 \in Nat /\ OBUFLEN \in Nat
    BY Sizes
  <2>2. QED  BY <2>1, NewSound
<1>3. "x" \in Codes
  BY DEF Codes, Keys
<1>4. 0 \in IPlaces /\ 0 \in OPlaces /\ 0 \in 0 .. OBMINSP - 1 /\ 0 \in 0 .. EBUFLEN - 1
  BY Sizes DEF IPlaces, OPlaces
<1>5. S \in SemSet /\ R \in SemSet
  BY <1>2 DEF Sound, SemSet
<1> HIDE DEF S, R
<1>6. tty \in Ttys
  <2> DEFINE b == [i \in IPlaces |-> "x"]
             o == [i \in OPlaces |-> "x"]
  <2>1. b \in [IPlaces -> Codes] /\ o \in [OPlaces -> Codes]
    BY <1>3
  <2>2. tty = [ibuff |-> b, ihead |-> 0, itail |-> 0, icnt |-> 0,
            icursor |-> 0, isem |-> S, imode |-> "COOKED", iecho |-> TRUE,
            iintr |-> FALSE, iintpid |-> Nobody,
            obuff |-> o, ohead |-> 0, otail |-> 0, ocnt |-> 0,
            osem |-> R, odsend |-> 0, oheld |-> FALSE, ecnt |-> 0, txint |-> FALSE]
    BY <1>1 DEF IPlaces, OPlaces, S, R
  <2> HIDE DEF b, o, t
  <2>3. 0 \in Int /\ 0 \in Nat
    OBVIOUS
  <2>4. QED  BY ONLY <1>4, <1>5, <2>1, <2>2, <2>3 DEF Ttys
<1>7. /\ tty.isem = S /\ tty.osem = R /\ tty.ihead = 0 /\ tty.itail = 0 /\ tty.icnt = 0 /\ tty.icursor = 0
      /\ tty.ohead = 0 /\ tty.otail = 0 /\ tty.ocnt = 0 /\ tty.odsend = 0 /\ tty.iintr = FALSE /\ tty.ecnt = 0
  BY <1>1 DEF S, R
<1> HIDE DEF t
<1>8. 0 - 0 - 0 - 0 = 0 /\ 0 - 0 - 0 = 0 /\ 0 % IBUFLEN = 0 /\ 0 % OBUFLEN = 0
  <2>1. IBUFLEN * 0 = 0 /\ OBUFLEN * 0 = 0 /\ 0 \in Int
    BY Sizes
  <2>2. (IBUFLEN * 0) % IBUFLEN = 0 /\ (OBUFLEN * 0) % OBUFLEN = 0
    BY <2>1, Sizes, Multiple
  <2>3. QED  BY <2>1, <2>2
<1>9. Good(tty)
  BY <1>2, <1>6, <1>7, <1>8 DEF Good, InGood, OutGood, InRing, OutRing
<1>10. ContsGood
  BY <1>1, IdleGood DEF ContsGood
<1>11. \A ops : "user" \notin ops => Cardinality(Those(cont, ops)) = 0
  <2>1. SUFFICES ASSUME NEW ops, "user" \notin ops PROVE Cardinality(Those(cont, ops)) = 0
    OBVIOUS
  <2>2. Those(cont, ops) = {}
    BY <1>1, <2>1, IdleGood DEF Those
  <2>3. Cardinality({}) = 0
    BY FS_EmptySet
  <2>4. QED  BY ONLY <2>2, <2>3, Zenon
<1>12. InAccount
  <2>1. Cardinality(Those(cont, Holders)) = 0
    BY <1>11 DEF Holders, Waiters
  <2>2. InSum(tty) = 0
    BY <1>2, <1>7 DEF InSum
  <2>3. QED  BY <1>1, <1>2, <1>7, <2>1, <2>2 DEF InAccount
<1>13. OutAccount
  <2>1. Cardinality(Those(cont, {"put"})) = 0
    BY <1>11
  <2>2. OutSum(tty) = OBUFLEN
    BY <1>2, <1>7, Sizes DEF OutSum
  <2>3. QED  BY <1>1, <1>2, <1>7, <2>1, <2>2, Sizes DEF OutAccount
<1>14. OutputDue /\ interrupted \subseteq Procs \cup {Nobody}
  BY <1>1, <1>7 DEF OutputDue
<1>15. QED  BY <1>9, <1>10, <1>12, <1>13, <1>14 DEF TtyInv

LEMMA TtyInvAlways ==
  Spec => []TtyInv
BY TtyInit, TtyStep, PTL DEF Spec

LEMMA InvTypes ==
  TtyInv => TypeOK
<1> SUFFICES ASSUME TtyInv PROVE TypeOK
  OBVIOUS
<1>1. tty \in Ttys /\ Sound(tty.isem) /\ Sound(tty.osem) /\ interrupted \subseteq Procs \cup {Nobody}
  BY DEF TtyInv, Good, InGood, OutGood
<1>2. \A p \in Procs : cont[p] = Idle \/ cont[p].op \in
        {"put", "more", "wrote", "later", "read", "getc", "peek", "peeked", "intr"}
  <2>1. TAKE p \in Procs
  <2>2. ContGood(cont[p]) /\ cont[p].op \in Ops
    BY InvFacts
  <2>3. QED  BY <2>2 DEF ContGood, Ops
<1>3. {tty.ihead, tty.itail} \subseteq 0 .. IBUFLEN - 1 /\ tty.icursor \in 0 .. IBUFLEN - 1
      /\ {tty.ohead, tty.otail} \subseteq 0 .. OBUFLEN - 1 /\ tty.odsend \in 0 .. OBMINSP - 1
      /\ tty.icnt \in Int /\ tty.ocnt \in Nat /\ tty.ecnt \in 0 .. EBUFLEN - 1
      /\ tty.imode \in {"RAW", "COOKED", "CBREAK"}
  BY <1>1 DEF Ttys, IPlaces, OPlaces
<1>4. SemGood(tty.isem) /\ SemGood(tty.osem)
  BY <1>1 DEF Sound
<1>5. QED  BY <1>1, <1>2, <1>3, <1>4 DEF TypeOK

LEMMA InvInput ==
  TtyInv => InputAccounted
<1> SUFFICES ASSUME TtyInv PROVE InputAccounted
  OBVIOUS
<1> DEFINE n == tty.isem.n
           l == Len(tty.isem.q)
           r == Cardinality(Readers)
           h == Cardinality(Those(cont, Holders))
           c == tty.icnt
<1>1. InGood(tty)
  BY DEF TtyInv, Good
<1>2. Sound(tty.isem) /\ InRing(tty) /\ c \in Int
  BY <1>1, InFacts
<1>3. n \in Int /\ l = IF n < 0 THEN -n ELSE 0
  BY <1>2, SoundFacts
<1>4. r \in Nat /\ h = l + r
  BY HoldersCount
<1>5. (n - c) + h = over /\ over \in Nat
  BY DEF TtyInv, InAccount, InSum
<1>6. Fits => (tty.ihead - tty.itail - tty.icnt - tty.icursor) % IBUFLEN = 0
  BY <1>2 DEF InRing
<1> HIDE DEF n, l, r, h, c
<1>7. n + l + r = c + over /\ (over = 0 => c >= 0)
  BY ONLY <1>2, <1>3, <1>4, <1>5
<1>8. QED  BY <1>6, <1>7 DEF InputAccounted, n, l, r, c

LEMMA InvOutput ==
  TtyInv => OutputAccounted
<1> SUFFICES ASSUME TtyInv PROVE OutputAccounted
  OBVIOUS
<1> DEFINE n == tty.osem.n
           l == Len(tty.osem.q)
           R == Released("put", tty.osem)
           r == Cardinality(R)
           h == Cardinality(Those(cont, {"put"}))
           c == tty.ocnt
           d == tty.odsend
<1>1. OutGood(tty)
  BY DEF TtyInv, Good
<1>2. Sound(tty.osem) /\ OutRing(tty) /\ c \in Nat /\ d \in 0 .. OBMINSP - 1 /\ OBMINSP < OBUFLEN
      /\ OBUFLEN \in Nat /\ OBMINSP \in Nat
  BY <1>1, OutFacts, Sizes DEF Ttys
<1>3. n \in Int /\ (l = IF n < 0 THEN -n ELSE 0) /\ (n >= 0 => tty.osem.q = <<>>)
  BY <1>2, SoundFacts
<1>4. r \in Nat /\ h = l + r
  BY PuttersCount
<1>5. (n + d + c) + h = OBUFLEN + bonus /\ bonus \in Nat
  BY DEF TtyInv, OutAccount, OutSum
<1>6. Fits => (tty.ohead - tty.otail - tty.ocnt) % OBUFLEN = 0
  BY <1>2 DEF OutRing
<1>7. R = {} => r = 0
  <2>1. Cardinality({}) = 0
    BY FS_EmptySet
  <2>2. R = {} => Cardinality(R) = Cardinality({})
    BY Zenon
  <2>3. QED  BY <2>1, <2>2
<1> HIDE DEF n, l, r, h, c, d, R
<1>8. n + l + r + d + c = OBUFLEN + bonus /\ (bonus = 0 => c <= OBUFLEN)
  BY ONLY <1>2, <1>3, <1>4, <1>5
<1>9. n < 0 /\ bonus = 0 => c > 0 \/ r # 0
  BY ONLY <1>2, <1>3, <1>4, <1>5
<1>10. tty.osem.q # <<>> /\ bonus = 0 => c > 0 \/ R # {}
  <2>1. tty.osem.q # <<>> => n < 0
    BY <1>3
  <2>2. QED  BY ONLY <1>7, <1>9, <2>1
<1>11. QED  BY <1>6, <1>8, <1>10 DEF OutputAccounted, n, l, r, c, d, R

\* The control block of the line (struct tty) and the rest of each call hold values of their
\* types, and the counts of isem and osem are what wait, signal and sreset keep them.
THEOREM TtyTypeCorrect == Spec => []TypeOK
BY TtyInvAlways, InvTypes, PTL

\* Every unit of isem is a character that ttyiin finished and nobody read, beyond those that
\* ttyread's sreset gave twice: without any of those, while a reader sleeps every character
\* is due to one that was let go and has not run yet.
THEOREM InputCorrect == Spec => []InputAccounted
BY TtyInvAlways, InvInput, PTL

\* Every unit of osem is room in the output queue, is kept back by ttyoin, or was created by
\* writcopy's sreset: as long as that created none the queue does not overflow, and a writer
\* waits only while there is output or one who was let go is about to put some.
THEOREM OutputCorrect == Spec => []OutputAccounted
BY TtyInvAlways, InvOutput, PTL

\* Output and echo that may be sent are on their way: the transmitter is going to interrupt,
\* or a writer between writcopy and ttyostart is about to start it.
THEOREM OutputDueCorrect == Spec => []OutputDue
<1>1. TtyInv => OutputDue
  BY DEF TtyInv
<1>2. QED  BY TtyInvAlways, <1>1, PTL

------------------------------------------------------------------------------
(* Rings as lists: what a ring holds from one place on, and how that is cut and joined. *)

\* Numbers that differ by a multiple of n have the same remainder, and so does one that is
\* reduced before another is added.
LEMMA Residue ==
  ASSUME NEW x \in Int, NEW y \in Int, NEW n \in Nat \ {0}, (x - y) % n = 0
  PROVE  x % n = y % n
<1> DEFINE q == (x - y) \div n
           k == y \div n
           r == y % n
<1>1. q \in Int /\ k \in Int /\ r \in 0 .. n - 1 /\ x - y = n * q /\ y = n * k + r
  BY RoundTyped
<1> HIDE DEF q, k, r
<1>2. x = n * (q + k) + r /\ q + k \in Int
  BY <1>1
<1> DEFINE j == q + k
<1>3. x = n * j + r /\ j \in Int
  BY <1>2
<1> HIDE DEF j
<1>4. x % n = r
  BY <1>1, <1>3
<1>5. QED  BY <1>4 DEF r

LEMMA SlotSum ==
  ASSUME NEW a \in Int, NEW b \in Int, NEW n \in Nat \ {0}
  PROVE  ((a % n) + b) % n = (a + b) % n
<1> DEFINE r == a % n
<1>1. a % n \in Int /\ a \div n \in Int /\ a = n * (a \div n) + (a % n)
  BY RoundTyped
<1> DEFINE q == a \div n
<1>2. r \in Int /\ q \in Int /\ a = n * q + r
  BY <1>1
<1> HIDE DEF r, q
<1>3. (a + b) - (r + b) = n * q /\ (n * q) % n = 0
  BY <1>2, Multiple
<1>4. a + b \in Int /\ r + b \in Int
  BY <1>2
<1>5. ((a + b) - (r + b)) % n = 0
  BY ONLY <1>3
<1>6. (a + b) % n = (r + b) % n
  BY ONLY <1>4, <1>5, n \in Nat \ {0}, Residue
<1>7. QED  BY <1>6 DEF r

\* Two numbers less than n apart have different slots.
LEMMA SlotsDiffer ==
  ASSUME NEW x \in Int, NEW y \in Int, NEW n \in Nat \ {0}, x < y, y - x < n
  PROVE  x % n # y % n
<1> DEFINE q == x \div n
           k == y \div n
           r == x % n
           s == y % n
<1>1. q \in Int /\ k \in Int /\ r \in Int /\ s \in Int /\ x = n * q + r /\ y = n * k + s
  BY RoundTyped
<1> HIDE DEF q, k, r, s
<1>2. SUFFICES ASSUME r = s PROVE FALSE
  BY DEF r, s
<1>3. y - x = n * (k - q)
  BY <1>1, <1>2
<1> DEFINE d == k - q
<1>4. d \in Int /\ y - x = n * d
  BY <1>1, <1>3
<1> HIDE DEF d
<1>5. CASE d <= 0
  <2>1. n * d <= 0
    BY <1>4, <1>5
  <2>2. QED  BY <1>4, <2>1
<1>6. CASE d >= 1
  <2>1. n * d >= n
    BY <1>4, <1>6
  <2>2. QED  BY <1>4, <2>1
<1>7. QED  BY <1>4, <1>5, <1>6

------------------------------------------------------------------------------
(* What a ring holds, as a sequence. *)

\* Sums and parts as relations: provers find the instance of a fact by its terms, and among
\* them sums and the standard operators of sequences are not found.
Adds(x, y, z) == x + y = z
Cuts(w, j, x, y) == x = SubSeq(w, 1, j) /\ y = SubSeq(w, j + 1, Len(w))
Joins(x, y, w) == w = x \o y

Ring(n, b) == b \in [0 .. n - 1 -> Codes]

\* The k entries of the ring b of n places that begin at place from.
Window(b, n, from, k) == [i \in 1 .. k |-> b[(from + i - 1) % n]]

\* d is the ring b with c stored k places after from.
Stores(n, b, from, k, c, d) ==
  LET at == (from + k) % n IN Ring(n, d) /\ d[at] = c /\ \A i \in 0 .. n - 1 : i # at => d[i] = b[i]

LEMMA SameList ==
  ASSUME NEW S, NEW a \in Seq(S), NEW b \in Seq(S), Len(a) = Len(b), \A i \in 1 .. Len(a) : a[i] = b[i]
  PROVE  a = b
OBVIOUS

LEMMA WindowTyped ==
  ASSUME NEW n \in Nat \ {0}, NEW b, Ring(n, b), NEW from \in Int, NEW k \in Nat
  PROVE  /\ Window(b, n, from, k) \in Seq(Codes) /\ Len(Window(b, n, from, k)) = k
         /\ \A i \in 1 .. k : Window(b, n, from, k)[i] = b[(from + i - 1) % n]
<1>0. n \in Nat \ {0} /\ b \in [0 .. n - 1 -> Codes]
  BY DEF Ring
<1>1. \A i \in 1 .. k : b[(from + i - 1) % n] \in Codes
  <2>1. TAKE i \in 1 .. k
  <2>2. from + i - 1 \in Int
    OBVIOUS
  <2>3. (from + i - 1) % n \in 0 .. n - 1
    BY ONLY <1>0, <2>2, RoundTyped
  <2>4. QED  BY <1>0, <2>3
<1> DEFINE e(i) == b[(from + i - 1) % n]
<1>2. Window(b, n, from, k) = [i \in 1 .. k |-> e(i)]
  BY DEF Window
<1>3. \A i \in 1 .. k : e(i) \in Codes
  BY <1>1
<1> HIDE DEF e
<1>4. QED
  <2>1. [i \in 1 .. k |-> e(i)] \in Seq(Codes) /\ Len([i \in 1 .. k |-> e(i)]) = k
        /\ \A i \in 1 .. k : [j \in 1 .. k |-> e(j)][i] = e(i)
    BY <1>3
  <2>2. QED  BY <1>2, <2>1 DEF e

LEMMA WindowSame ==
  ASSUME NEW n \in Nat \ {0}, NEW b, Ring(n, b), NEW from \in Int, NEW to \in Int,
         from % n = to % n, NEW k \in Nat
  PROVE  Window(b, n, from, k) = Window(b, n, to, k)
<1>0. n \in Nat \ {0}
  BY DEF Ring
<1>1. ASSUME NEW i \in 1 .. k PROVE (from + i - 1) % n = (to + i - 1) % n
  <2>1. i - 1 \in Int
    OBVIOUS
  <2>2. ((from % n) + (i - 1)) % n = (from + (i - 1)) % n /\ ((to % n) + (i - 1)) % n = (to + (i - 1)) % n
    BY ONLY <1>0, <2>1, from \in Int, to \in Int, SlotSum
  <2>3. from + (i - 1) = from + i - 1 /\ to + (i - 1) = to + i - 1
    OBVIOUS
  <2>4. QED  BY ONLY <2>2, <2>3, from % n = to % n
<1>2. \A i \in 1 .. k : b[(from + i - 1) % n] = b[(to + i - 1) % n]
  BY ONLY <1>1
<1>3. QED  BY ONLY <1>2 DEF Window

LEMMA WindowCut ==
  ASSUME NEW n \in Nat \ {0}, NEW b, Ring(n, b), NEW from \in Int, NEW k \in Nat, NEW j \in Nat,
         NEW g \in Int, Adds(from, j, g), NEW e \in Nat, Adds(j, e, k)
  PROVE  Cuts(Window(b, n, from, k), j, Window(b, n, from, j), Window(b, n, g, e))
<1> DEFINE w == Window(b, n, from, k)
           x == Window(b, n, from, j)
           y == Window(b, n, g, e)
<1>1. w \in Seq(Codes) /\ Len(w) = k /\ \A i \in 1 .. k : w[i] = b[(from + i - 1) % n]
  BY WindowTyped
<1>2. j \in Nat /\ j <= k /\ e \in Nat /\ g \in Int /\ e = k - j /\ g = from + j
  BY DEF Adds
<1>3. x \in Seq(Codes) /\ Len(x) = j /\ \A i \in 1 .. j : x[i] = b[(from + i - 1) % n]
  BY WindowTyped
<1>4. y \in Seq(Codes) /\ Len(y) = e /\ \A i \in 1 .. e : y[i] = b[(g + i - 1) % n]
  BY WindowTyped
<1> HIDE DEF w, x, y
<1> DEFINE a == SubSeq(w, 1, j)
           z == SubSeq(w, j + 1, k)
<1>5. a \in Seq(Codes) /\ Len(a) = j /\ \A i \in 1 .. j : a[i] = w[i]
  BY <1>1, <1>2
<1>6. z \in Seq(Codes) /\ Len(z) = e /\ \A i \in 1 .. e : z[i] = w[j + i]
  BY <1>1, <1>2
<1> HIDE DEF a, z
<1>7. a = x
  <2>1. \A i \in 1 .. j : a[i] = x[i]
    BY <1>1, <1>2, <1>3, <1>5
  <2>2. QED  BY ONLY <1>3, <1>5, <2>1, SameList
<1>8. z = y
  <2>1. ASSUME NEW i \in 1 .. e PROVE z[i] = y[i]
    <3>1. j + i \in 1 .. k /\ from + (j + i) - 1 = g + i - 1
      BY <1>2
    <3>2. w[j + i] = b[(from + (j + i) - 1) % n]
      BY <1>1, <3>1
    <3>3. QED  BY <1>4, <1>6, <3>1, <3>2
  <2>2. QED  BY ONLY <1>4, <1>6, <2>1, SameList
<1>9. QED  BY <1>1, <1>7, <1>8 DEF a, z, w, x, y, Cuts

LEMMA WindowJoin ==
  ASSUME NEW n \in Nat \ {0}, NEW b, Ring(n, b), NEW from \in Int, NEW k \in Nat, NEW j \in Nat,
         NEW m \in Nat, Adds(k, j, m), NEW g \in Int, Adds(from, k, g)
  PROVE  Joins(Window(b, n, from, k), Window(b, n, g, j), Window(b, n, from, m))
<1> DEFINE w == Window(b, n, from, m)
           x == Window(b, n, from, k)
           y == Window(b, n, g, j)
<1>1. m \in Nat /\ k \in 0 .. m /\ m = k + j
  BY DEF Adds
<1>2. w \in Seq(Codes) /\ Len(w) = m
  <2>1. w \in Seq(Codes)
    BY <1>1, WindowTyped
  <2>2. Len(w) = m
    BY <1>1, WindowTyped
  <2>3. QED  BY <2>1, <2>2
<1>3. Cuts(w, k, x, y)
  BY WindowCut
<1> HIDE DEF w, x, y
<1>5. SubSeq(w, 1, k) \o SubSeq(w, k + 1, m) = w
  BY ONLY <1>1, <1>2, k \in Nat
<1>6. x \o y = w
  BY ONLY <1>2, <1>3, <1>5 DEF Cuts
<1>7. QED  BY <1>6 DEF w, x, y, Joins

\* An entry that is written behind the window leaves it, and one right behind it makes it longer.
LEMMA WindowBehind ==
  ASSUME NEW n \in Nat \ {0}, NEW b, Ring(n, b), NEW from \in Int, NEW k \in Nat,
         NEW m \in Nat, k <= m, m < n, NEW c, NEW d, Stores(n, b, from, m, c, d)
  PROVE  Window(d, n, from, k) = Window(b, n, from, k)
<1>0. n \in Nat \ {0}
  OBVIOUS
<1>1. ASSUME NEW i \in 1 .. k
      PROVE  d[(from + i - 1) % n] = b[(from + i - 1) % n]
  <2>1. from + i - 1 \in Int /\ from + m \in Int /\ from + i - 1 < from + m /\ (from + m) - (from + i - 1) < n
    BY ONLY <1>0, from \in Int, k \in Nat, m \in Nat, k <= m, m < n, i \in 1 .. k
  <2>2. (from + i - 1) % n # (from + m) % n
    BY ONLY <1>0, <2>1, SlotsDiffer
  <2>3. (from + i - 1) % n \in 0 .. n - 1
    BY ONLY <1>0, <2>1, RoundTyped
  <2>4. QED  BY <2>2, <2>3 DEF Stores
<1>2. \A i \in 1 .. k : d[(from + i - 1) % n] = b[(from + i - 1) % n]
  BY ONLY <1>1
<1>3. QED  BY ONLY <1>2 DEF Window

LEMMA WindowAppend ==
  ASSUME NEW n \in Nat \ {0}, NEW b, Ring(n, b), NEW from \in Int, NEW k \in Nat, k < n, NEW c \in Codes,
         NEW m \in Nat, Adds(k, 1, m), NEW d, Stores(n, b, from, k, c, d)
  PROVE  Window(d, n, from, m) = Append(Window(b, n, from, k), c)
<1> DEFINE w == Window(d, n, from, m)
           x == Window(b, n, from, k)
<1>1. m \in Nat /\ m = k + 1 /\ k <= k /\ from + k \in Int /\ from + m - 1 = from + k /\ k \in 0 .. m
  BY DEF Adds
<1>3. Ring(n, d) /\ d[(from + k) % n] = c
  BY DEF Stores
<1>4. Window(d, n, from, k) = x
  BY <1>1, WindowBehind
<1>5. w \in Seq(Codes) /\ Len(w) = m /\ \A i \in 1 .. m : w[i] = d[(from + i - 1) % n]
  BY <1>1, <1>3, WindowTyped
<1>6. x \in Seq(Codes) /\ Len(x) = k /\ \A i \in 1 .. k : x[i] = d[(from + i - 1) % n]
  BY ONLY <1>1, <1>3, <1>4, n \in Nat \ {0}, k \in Nat, from \in Int, WindowTyped
<1> HIDE DEF w, x
<1>7. w[m] = c
  <2>1. w[m] = d[(from + m - 1) % n]
    BY <1>1, <1>5
  <2>2. QED  BY ONLY <1>1, <1>3, <2>1
<1> DEFINE a == Append(x, c)
<1>8. a \in Seq(Codes) /\ Len(a) = m /\ a[m] = c /\ \A i \in 1 .. k : a[i] = x[i]
  BY <1>1, <1>6
<1> HIDE DEF a
<1>9. \A i \in 1 .. Len(w) : w[i] = a[i]
  <2>1. TAKE i \in 1 .. Len(w)
  <2>2. CASE i = m
    BY <1>7, <1>8, <2>2
  <2>3. CASE i # m
    <3>1. i \in 1 .. k /\ i \in 1 .. m
      BY <1>1, <1>5, <2>3
    <3>2. QED  BY ONLY <1>5, <1>6, <1>8, <3>1
  <2>4. QED  BY <2>2, <2>3
<1>10. w = a
  BY ONLY <1>5, <1>8, <1>9, SameList
<1>11. QED  BY <1>10 DEF w, x, a

------------------------------------------------------------------------------
(* What leaves the line while something else is done. *)

\* At most one character leaves, and only where that starts the transmitter.
Leaves(t, u) ==
  /\ u.obuff = t.obuff /\ (t.txint => u.txint)
  /\ \/ u.otail = t.otail /\ u.ocnt = t.ocnt
     \/ u.otail = (t.otail + 1) % OBUFLEN /\ u.ocnt = t.ocnt - 1 /\ t.ocnt > 0 /\ ~t.txint /\ u.txint

LEMMA LeavesOn ==
  ASSUME NEW t, NEW u, NEW v, Leaves(t, u), Leaves(u, v)
  PROVE  Leaves(t, v)
BY DEF Leaves

LEMMA SameLeaves ==
  ASSUME NEW t, NEW u, NEW v, Leaves(t, u), SameOut(u, v)
  PROVE  Leaves(t, v)
BY DEF Leaves, SameOut

\* ttyoin takes the oldest character, or none.
LEMMA TtyoinTakes ==
  ASSUME NEW t, OutGood(t)
  PROVE  LET u == Ttyoin(t) IN
         /\ u.obuff = t.obuff
         /\ \/ u.otail = t.otail /\ u.ocnt = t.ocnt
            \/ u.otail = (t.otail + 1) % OBUFLEN /\ u.ocnt = t.ocnt - 1 /\ t.ocnt > 0 /\ u.txint = t.txint
<1>1. t \in Ttys /\ t.ocnt \in Nat
  BY OutFacts
<1>2. CASE t.ecnt # 0
  BY <1>1, <1>2 DEF Ttyoin, Ttys
<1>3. CASE t.ecnt = 0 /\ (t.oheld \/ t.ocnt = 0)
  BY <1>1, <1>3 DEF Ttyoin, Ttys
<1>4. CASE t.ecnt = 0 /\ ~(t.oheld \/ t.ocnt = 0)
  <2> DEFINE tail == (t.otail + 1) % OBUFLEN
             v == [t EXCEPT !.ocnt = @ - 1, !.otail = tail]
             r == Ttyoin(t)
  <2>1. t.ocnt > 0
    BY <1>1, <1>4
  <2>2. r = IF t.ocnt > OBMINSP THEN [v EXCEPT !.osem = Signaled(@)]
            ELSE IF t.odsend + 1 = OBMINSP THEN [v EXCEPT !.odsend = 0, !.osem = SignaledBy(@, OBMINSP)]
            ELSE [v EXCEPT !.odsend = @ + 1]
    BY <1>4 DEF Ttyoin
  <2> HIDE DEF tail
  <2>3. v.obuff = t.obuff /\ v.otail = tail /\ v.ocnt = t.ocnt - 1 /\ v.txint = t.txint
        /\ DOMAIN v = DOMAIN t /\ {"obuff", "otail", "ocnt", "txint", "osem", "odsend"} \subseteq DOMAIN v
    BY <1>1 DEF Ttys
  <2> HIDE DEF v, r
  <2>4. r.obuff = t.obuff /\ r.otail = tail /\ r.ocnt = t.ocnt - 1 /\ r.txint = t.txint
    <3>1. CASE t.ocnt > OBMINSP
      BY <2>2, <2>3, <3>1
    <3>2. CASE ~(t.ocnt > OBMINSP) /\ t.odsend + 1 = OBMINSP
      BY <2>2, <2>3, <3>2
    <3>3. CASE ~(t.ocnt > OBMINSP) /\ t.odsend + 1 # OBMINSP
      BY <2>2, <2>3, <3>3
    <3>4. QED  BY <3>1, <3>2, <3>3
  <2>5. QED  BY <2>1, <2>4 DEF r, tail
<1>5. QED  BY <1>2, <1>3, <1>4

LEMMA StartLeaves ==
  ASSUME NEW t, OutGood(t)
  PROVE  Leaves(t, Ttyostart(t)) /\ OutGood(Ttyostart(t))
<1>0. OutGood(Ttyostart(t))
  BY TtyostartSends DEF Sends
<1>1. CASE t.txint
  BY <1>0, <1>1 DEF Ttyostart, Leaves
<1>2. CASE ~t.txint
  <2> DEFINE u == [t EXCEPT !.txint = TRUE]
             r == Ttyoin(u)
  <2>1. Ttyostart(t) = r
    BY <1>2 DEF Ttyostart
  <2>2. /\ u \in Ttys /\ u.osem = t.osem /\ u.obuff = t.obuff /\ u.ocnt = t.ocnt
        /\ u.ohead = t.ohead /\ u.otail = t.otail /\ u.txint
    BY DEF OutGood, Ttys
  <2> HIDE DEF u
  <2>3. OutGood(u)
    BY <2>2 DEF OutGood, OutRing
  <2>4. /\ r.obuff = u.obuff
        /\ \/ r.otail = u.otail /\ r.ocnt = u.ocnt
           \/ r.otail = (u.otail + 1) % OBUFLEN /\ r.ocnt = u.ocnt - 1 /\ u.ocnt > 0 /\ r.txint = u.txint
    BY <2>3, TtyoinTakes
  <2> HIDE DEF r
  <2>5. QED  BY <1>0, <1>2, <2>1, <2>2, <2>4 DEF Leaves
<1>3. QED  BY <1>1, <1>2

\* What each call of eputc keeps, n calls keep.
LEMMA EputcIn ==
  ASSUME NEW S, NEW t \in S, NEW n \in Nat, \A u \in S : Eput(u) \in S
  PROVE  Eputc(t, n) \in S
<1> DEFINE g == [u \in S |-> Eput(u)]
           Loop(f) == f = [i \in 0 .. n |-> IF i = 0 THEN t ELSE Eput(f[i-1])]
<1>1. g \in [S -> S] /\ \A u \in S : g[u] = Eput(u)
  OBVIOUS
<1> HIDE DEF g, Loop
<1>2. PICK f : Iterates(f, n, S, g, t)
  BY ONLY t \in S, n \in Nat, <1>1, Iterated
<1>3. f \in [0 .. n -> S] /\ f[0] = t /\ \A i \in 1 .. n : f[i] = g[f[i-1]]
  BY ONLY <1>2 DEF Iterates
<1>4. \A i \in 0 .. n : f[i] = IF i = 0 THEN t ELSE Eput(f[i-1])
  <2>1. TAKE i \in 0 .. n
  <2>2. CASE i # 0
    <3>1. i - 1 \in 0 .. n /\ i \in 1 .. n
      BY <2>2
    <3>2. f[i-1] \in S
      BY <1>3, <3>1
    <3>3. QED  BY <1>1, <1>3, <2>2, <3>1, <3>2
  <2>3. QED  BY <1>3, <2>2
<1>5. Loop(f)
  BY ONLY <1>3, <1>4 DEF Loop
<1> DEFINE r == CHOOSE x : Loop(x)
<1>6. Loop(r)
  BY <1>5
<1>7. Eputc(t, n) = r[n]
  BY DEF Eputc, Loop, Eput
<1> HIDE DEF r
<1>8. r[0] = t /\ \A k \in 1 .. n : r[k] = Eput(r[k-1])
  <2>1. 0 \in 0 .. n /\ \A k \in 1 .. n : k \in 0 .. n /\ k # 0
    OBVIOUS
  <2>2. QED  BY ONLY <1>6, <2>1 DEF Loop
<1>9. \A k \in 0 .. n : r[k] \in S
  <2>1. \A k \in 1 .. n : r[k-1] \in S => r[k] = g[r[k-1]]
    BY <1>1, <1>8
  <2>2. QED  BY ONLY t \in S, n \in Nat, <1>1, <1>8, <2>1, LoopIn
<1>10. n \in 0 .. n
  OBVIOUS
<1>11. QED  BY <1>7, <1>9, <1>10

LEMMA EputLeaves ==
  ASSUME NEW t, OutGood(t)
  PROVE  Leaves(t, Eput(t)) /\ OutGood(Eput(t))
<1> DEFINE u == [t EXCEPT !.ecnt = (@ + 1) % EBUFLEN]
<1>1. t \in Ttys /\ t.ecnt \in Int
  BY OutFacts, Sizes DEF Ttys
<1>2. (t.ecnt + 1) % EBUFLEN \in 0 .. EBUFLEN - 1
  <2>1. t.ecnt + 1 \in Int /\ EBUFLEN \in Nat \ {0}
    BY <1>1, Sizes
  <2>2. QED  BY ONLY <2>1, RoundTyped
<1>3. /\ u \in Ttys /\ u.osem = t.osem /\ u.obuff = t.obuff /\ u.ocnt = t.ocnt
      /\ u.ohead = t.ohead /\ u.otail = t.otail /\ u.txint = t.txint
  BY <1>1, <1>2 DEF Ttys
<1>4. Eput(t) = Ttyostart(u)
  BY DEF Eput
<1> HIDE DEF u
<1>5. OutGood(u) /\ Leaves(t, u)
  BY <1>3 DEF OutGood, OutRing, Leaves
<1>6. QED  BY <1>4, <1>5, StartLeaves, LeavesOn

LEMMA EputcLeaves ==
  ASSUME NEW t, OutGood(t), NEW n \in Nat
  PROVE  Leaves(t, Eputc(t, n)) /\ OutGood(Eputc(t, n))
<1> DEFINE S == {u \in Ttys : OutGood(u) /\ Leaves(t, u)}
<1>1. t \in S
  BY DEF OutGood, Leaves
<1>2. ASSUME NEW u \in S PROVE Eput(u) \in S
  <2>1. Leaves(u, Eput(u)) /\ OutGood(Eput(u))
    BY EputLeaves
  <2>2. QED  BY <2>1, LeavesOn DEF OutGood
<1> HIDE DEF S
<1>3. Eputc(t, n) \in S
  BY <1>1, <1>2, EputcIn
<1>4. QED  BY <1>3 DEF S

LEMMA EchoLeaves ==
  ASSUME NEW t, OutGood(t), NEW ch
  PROVE  Leaves(t, Echo(t, ch)) /\ OutGood(Echo(t, ch)) /\ SameIn(t, Echo(t, ch))
<1>1. SameIn(t, Echo(t, ch))
  BY EchoSends DEF Sends
<1>2. CASE ~t.iecho
  BY <1>1, <1>2 DEF Echo, Leaves
<1>3. CASE t.iecho
  <2> DEFINE n == IF ch \in Control THEN 2 ELSE 1
  <2>1. n \in Nat /\ Echo(t, ch) = Eputc(t, n)
    BY <1>3 DEF Echo
  <2> HIDE DEF n
  <2>2. QED  BY <1>1, <2>1, EputcLeaves
<1>4. QED  BY <1>2, <1>3

------------------------------------------------------------------------------
(* The streams of the input, and what a character or a read does to them. *)

\* The lists p, q and all are r and l with c: behind l, behind both, and with the border moved.
Pushes(r, l, c, q, all, p, m) ==
  /\ q = Append(l, c) /\ all = r \o Append(l, c)
  /\ LET x == Append(r \o l, c) IN p = SubSeq(x, 1, Len(r) + 1) /\ m = SubSeq(x, Len(r) + 2, Len(x))

\* A character that comes behind two windows that lie one behind the other: it can lengthen the
\* second one, be the first one's with all of the second, or move the border between them.
LEMMA AppendJoin ==
  ASSUME NEW a \in Seq(Codes), NEW b \in Seq(Codes), NEW c \in Codes
  PROVE  Append(a \o b, c) = a \o Append(b, c)
<1> DEFINE x == Append(a \o b, c)
           y == a \o Append(b, c)
<1>1. x \in Seq(Codes) /\ y \in Seq(Codes) /\ Len(x) = Len(a) + Len(b) + 1 /\ Len(y) = Len(a) + (Len(b) + 1)
  OBVIOUS
<1>2. ASSUME NEW i \in 1 .. Len(x) PROVE x[i] = y[i]
  BY <1>1
<1> HIDE DEF x, y
<1>3. Len(x) = Len(y)
  BY <1>1
<1>4. x = y
  BY ONLY <1>1, <1>2, <1>3, SameList
<1>5. QED  BY <1>4 DEF x, y

LEMMA Pushed ==
  ASSUME NEW n \in Nat \ {0}, NEW b, Ring(n, b), NEW from \in Int, NEW a \in Nat, NEW l \in Nat, a + l < n, NEW c \in Codes,
         NEW d, NEW f \in Int, Adds(from, a, f), NEW m \in Nat, Adds(a, l, m), Stores(n, b, from, m, c, d),
         NEW R, R = Window(b, n, from, a), NEW L, L = Window(b, n, f, l),
         NEW k \in Nat, Adds(m, 1, k), NEW j \in Nat, Adds(a, 1, j), NEW e \in Nat, Adds(l, 1, e),
         NEW g \in Int, Adds(from, j, g)
  PROVE  /\ Window(d, n, from, a) = R
         /\ Pushes(R, L, c, Window(d, n, f, e), Window(d, n, from, k), Window(d, n, from, j), Window(d, n, g, l))
<1> DEFINE all == Append(R \o L, c)
<1>1. Stores(n, b, f, l, c, d) /\ Ring(n, d) /\ m < n /\ l < n /\ a <= m
  <2>1. f + l = from + m
    BY DEF Adds
  <2>2. QED  BY <2>1 DEF Stores, Adds
<1>2. R \in Seq(Codes) /\ Len(R) = a
  BY WindowTyped
<1>3. L \in Seq(Codes) /\ Len(L) = l
  BY WindowTyped
<1>4. Window(d, n, from, a) = R
  BY <1>1, WindowBehind
<1>5. Window(d, n, f, e) = Append(L, c)
  BY <1>1, WindowAppend
<1>6. Window(d, n, from, k) = Append(Window(b, n, from, m), c)
  BY <1>1, WindowAppend
<1>7. R \o L = Window(b, n, from, m)
  <2>1. Joins(Window(b, n, from, a), Window(b, n, f, l), Window(b, n, from, m))
    BY WindowJoin
  <2>2. QED  BY ONLY <2>1, R = Window(b, n, from, a), L = Window(b, n, f, l) DEF Joins
<1> DEFINE w == Window(d, n, from, k)
<1>8. w = all
  BY <1>6, <1>7
<1>9. w \in Seq(Codes) /\ Len(w) = k
  BY <1>1, WindowTyped
<1> HIDE DEF w
<1>10. j = Len(R) + 1 /\ j + 1 = Len(R) + 2 /\ k = Len(all)
  BY <1>2, <1>8, <1>9 DEF Adds
<1>11. Cuts(w, j, Window(d, n, from, j), Window(d, n, g, l))
  <2>1. Adds(j, l, k)
    BY DEF Adds
  <2>2. QED  BY ONLY <1>1, <2>1, n \in Nat \ {0}, from \in Int, k \in Nat, j \in Nat, g \in Int, Adds(from, j, g), l \in Nat,
             WindowCut DEF w
<1>12. w = R \o Append(L, c)
  <2>1. Append(R \o L, c) = R \o Append(L, c)
    BY ONLY <1>2, <1>3, c \in Codes, AppendJoin
  <2>2. QED  BY <1>8, <2>1
<1>13. Window(d, n, from, j) = SubSeq(all, 1, Len(R) + 1) /\ Window(d, n, g, l) = SubSeq(all, Len(R) + 2, Len(all))
  BY ONLY <1>8, <1>10, <1>11 DEF Cuts
<1>14. QED  BY ONLY <1>4, <1>5, <1>12, <1>13 DEF w, all, Pushes

\* The list s is r without its first k.
Parts(r, k, s) == s = SubSeq(r, k + 1, Len(r))

\* Characters taken from the first of the two windows.
LEMMA Popped ==
  ASSUME NEW n \in Nat \ {0}, NEW b, Ring(n, b), NEW from \in Int, NEW a \in Nat, NEW l \in Nat, NEW k \in Nat,
         NEW to \in Int, to = (from + k) % n, NEW R, R = Window(b, n, from, a), NEW e \in Nat, Adds(k, e, a),
         NEW g \in Int, Adds(to, e, g), NEW h \in Int, Adds(from, a, h)
  PROVE  /\ Parts(R, k, Window(b, n, to, e))
         /\ Window(b, n, g, l) = Window(b, n, h, l)
<1>1. PICK f \in Int : Adds(from, k, f)
  BY DEF Adds
<1>2. f + e = h /\ f + 0 = f /\ to = f % n /\ 0 \in Int /\ g = to + e
  BY <1>1 DEF Adds
<1>3. to % n = f % n
  <2>1. ((f % n) + 0) % n = (f + 0) % n
    BY ONLY <1>2, f \in Int, n \in Nat \ {0}, SlotSum
  <2>2. to + 0 = to
    OBVIOUS
  <2>3. QED  BY ONLY <1>2, <2>1, <2>2
<1>4. g % n = h % n
  <2>1. ((f % n) + e) % n = (f + e) % n
    BY ONLY f \in Int, e \in Nat, e \in Int, n \in Nat \ {0}, SlotSum
  <2>2. QED  BY ONLY <1>2, <2>1
<1>5. Window(b, n, to, e) = Window(b, n, f, e)
  BY <1>3, WindowSame
<1>6. Window(b, n, g, l) = Window(b, n, h, l)
  BY <1>4, WindowSame
<1>7. Len(R) = a
  <2>1. Len(Window(b, n, from, a)) = a
    BY ONLY n \in Nat \ {0}, Ring(n, b), from \in Int, a \in Nat, WindowTyped
  <2>2. QED  BY <2>1
<1>8. Cuts(Window(b, n, from, a), k, Window(b, n, from, k), Window(b, n, f, e))
  BY <1>1, WindowCut
<1>9. SubSeq(R, k + 1, Len(R)) = Window(b, n, f, e)
  BY ONLY <1>8, R = Window(b, n, from, a) DEF Cuts
<1>10. QED  BY <1>5, <1>6, <1>9 DEF Parts

------------------------------------------------------------------------------
(* The steps of AbsTty, on what the control block holds. *)

ReadyOf(t) == Window(t.ibuff, IBUFLEN, t.itail, t.icnt)
LineOf(t) == Window(t.ibuff, IBUFLEN, t.itail + t.icnt, t.icursor)
OutOf(t) == Window(t.obuff, OBUFLEN, t.otail, t.ocnt)

\* An input step, or none: from what is ready and the line to what they are then.
Enters(r, l, s, m) ==
  \/ \E c \in Keys : \/ m = Append(l, c) /\ s = r
                     \/ s = r \o Append(l, c) /\ m = <<>>
                     \/ LET all == Append(r \o l, c)
                        IN  s = SubSeq(all, 1, Len(r) + 1) /\ m = SubSeq(all, Len(r) + 2, Len(all))
  \/ \E k \in 0 .. Len(l) - 1 : m = SubSeq(l, 1, k) /\ s = r
  \/ \E k \in 1 .. Len(r) : s = SubSeq(r, k + 1, Len(r)) /\ m = l
  \/ s = r /\ m = l

\* Some of a text is put behind the output, and up to one character leaves.
Hands(o, text, v, rest) ==
  \E k \in 0 .. Len(text), j \in 0 .. 1 :
    rest = SubSeq(text, k + 1, Len(text))
    /\ LET all == o \o SubSeq(text, 1, k) IN v = SubSeq(all, j + 1, Len(all))

\* An output step, or none.
Sending(o, f, v, g) ==
  \/ \E p \in Procs : \E rest :
     \E text \in {f[p]} \cup (IF f[p] = <<>> THEN {Mapped(t) : t \in Texts} ELSE {}) :
        g = [f EXCEPT ![p] = rest] /\ Hands(o, text, v, rest)
  \/ g = f /\ (v = o \/ (o # <<>> /\ v = Tail(o)))

LEMMA EntersIs ==
  ASSUME Enters(ReadyOf(tty), LineOf(tty), ReadyOf(tty'), LineOf(tty'))
  PROVE  AbsLine!Input \/ UNCHANGED AbsLine!input
<1>1. /\ ReadyOf(tty) = Chars(tty, tty.icnt) /\ ReadyOf(tty') = Chars(tty, tty.icnt)'
      /\ LineOf(tty) = [i \in 1 .. tty.icursor |-> tty.ibuff[(tty.itail + tty.icnt + i - 1) % IBUFLEN]]
      /\ LineOf(tty') = [i \in 1 .. tty.icursor |-> tty.ibuff[(tty.itail + tty.icnt + i - 1) % IBUFLEN]]'
  BY DEF ReadyOf, LineOf, Window, Chars
<1> DEFINE r == ReadyOf(tty)
           l == LineOf(tty)
           s == ReadyOf(tty')
           m == LineOf(tty')
<1>2. Enters(r, l, s, m)
  OBVIOUS
<1>3. AbsLine!Input \/ UNCHANGED AbsLine!input
      <=> \/ \E c \in Keys : \/ m = Append(l, c) /\ s = r
                             \/ s = r \o Append(l, c) /\ m = <<>>
                             \/ LET all == Append(r \o l, c)
                                IN  s = SubSeq(all, 1, Len(r) + 1) /\ m = SubSeq(all, Len(r) + 2, Len(all))
          \/ \E k \in 0 .. Len(l) - 1 : m = SubSeq(l, 1, k) /\ s = r
          \/ \E k \in 1 .. Len(r) : s = SubSeq(r, k + 1, Len(r)) /\ m = l
          \/ <<s, m>> = <<r, l>>
  BY <1>1 DEF AbsLine!Input, AbsLine!input, AbsLine!Extend, AbsLine!Finish, AbsLine!Deliver, AbsLine!Shorten, AbsLine!Read
<1>4. QED  BY <1>2, <1>3 DEF Enters

LEMMA SendingIs ==
  ASSUME Sending(OutOf(tty), Rests(cont), OutOf(tty'), Rests(cont'))
  PROVE  (\E p \in Procs : AbsLine!Write(p)) \/ AbsLine!Leave \/ UNCHANGED AbsLine!output
<1>1. /\ OutOf(tty) = Pending(tty) /\ OutOf(tty') = Pending(tty)'
      /\ Rests(cont) = [p \in Procs |-> cont[p].rest]
      /\ Rests(cont') = [p \in Procs |-> cont[p].rest]'
  BY DEF OutOf, Window, Pending, Rests
<1> DEFINE o == OutOf(tty)
           f == Rests(cont)
           v == OutOf(tty')
           g == Rests(cont')
<1>2. CASE g = f /\ v = o
  BY <1>1, <1>2 DEF AbsLine!output
<1>3. CASE g = f /\ o # <<>> /\ v = Tail(o)
  BY <1>1, <1>3 DEF AbsLine!Leave
<1>4. ASSUME NEW p \in Procs, NEW rest, NEW text \in {f[p]} \cup (IF f[p] = <<>> THEN {Mapped(t) : t \in Texts} ELSE {}),
             g = [f EXCEPT ![p] = rest], Hands(o, text, v, rest)
      PROVE  AbsLine!Write(p)
  <2>1. \A t : AbsLine!Sent(t) = Mapped(t)
    BY DEF AbsLine!Sent, AbsLine!FlattenSeq, Mapped, FlattenSeq
  <2>2. text \in {f[p]} \cup (IF f[p] = <<>> THEN {AbsLine!Sent(t) : t \in Texts} ELSE {})
    BY <1>4, <2>1
  <2>3. PICK k \in 0 .. Len(text), j \in 0 .. 1 :
          rest = SubSeq(text, k + 1, Len(text)) /\ v = SubSeq(o \o SubSeq(text, 1, k), j + 1, Len(o \o SubSeq(text, 1, k)))
    BY <1>4 DEF Hands
  <2>4. g = [f EXCEPT ![p] = SubSeq(text, k + 1, Len(text))]
    BY ONLY <1>4, <2>3
  <2> HIDE DEF o, v, f, g
  <2>5. \E x \in {f[p]} \cup (IF f[p] = <<>> THEN {AbsLine!Sent(t) : t \in Texts} ELSE {}) :
        \E i \in 0 .. Len(x), h \in 0 .. 1 :
          g = [f EXCEPT ![p] = SubSeq(x, i + 1, Len(x))]
          /\ v = SubSeq(o \o SubSeq(x, 1, i), h + 1, Len(o \o SubSeq(x, 1, i)))
    BY ONLY <2>2, <2>3, <2>4
  <2>6. QED  BY ONLY <1>1, <2>5 DEF AbsLine!Write, o, v, f, g
<1>5. QED  BY <1>2, <1>3, <1>4 DEF Sending

LEMMA OwnSlot ==
  ASSUME NEW n \in Nat \ {0}, NEW x \in 0 .. n - 1, NEW y \in Int, (x - y) % n = 0
  PROVE  x = y % n
<1>1. x \in Int /\ x % n = x
  OBVIOUS
<1>2. x % n = y % n
  BY ONLY <1>1, y \in Int, n \in Nat \ {0}, (x - y) % n = 0, Residue
<1>3. QED  BY ONLY <1>1, <1>2

\* The slot of an end of a ring follows from the slots and the length of what it holds.
Balanced(n, h, a, c, l) == (h - a - c - l) % n = 0

LEMMA EndSlot ==
  ASSUME NEW n \in Nat \ {0}, NEW h \in Int, NEW a \in Int, NEW b \in Int, b \in 0 .. n - 1, NEW c \in Int, NEW d \in Int,
         NEW k \in Int, NEW l \in Int, Balanced(n, h, a, c, l), Balanced(n, h, b, d, l), Adds(k, d, c)
  PROVE  b = (a + k) % n
<1>0. (h - a - c - l) % n = 0 /\ (h - b - d - l) % n = 0 /\ k + d = c
  BY DEF Balanced, Adds
<1>1. PICK x \in Int : x = h - a - c - l
  OBVIOUS
<1>2. PICK y \in Int : y = a + k
  OBVIOUS
<1>3. PICK z \in Int : z = h - b - d - l
  OBVIOUS
<1>4. x % n = 0 /\ z % n = 0 /\ b \in Int
  BY ONLY <1>0, <1>1, <1>3, b \in 0 .. n - 1, n \in Nat \ {0}
<1>5. (x - z + (z % n)) % n = 0
  BY ONLY <1>4, x \in Int, z \in Int, n \in Nat \ {0}, Reduced
<1>6. x - z + (z % n) = b - y
  BY ONLY <1>1, <1>2, <1>3, <1>0, <1>4, h \in Int, a \in Int, c \in Int, d \in Int, l \in Int, k \in Int
<1>7. (b - y) % n = 0
  BY ONLY <1>5, <1>6
<1>8. b = y % n
  BY ONLY <1>7, y \in Int, b \in 0 .. n - 1, n \in Nat \ {0}, OwnSlot
<1>9. QED  BY <1>2, <1>8

\* Where the next character goes, and how far reading has come.
LEMMA HeadSlot ==
  ASSUME NEW t, InGood(t), NEW m \in Int, Adds(t.icnt, t.icursor, m)
  PROVE  t.ihead = (t.itail + m) % IBUFLEN
<1>1. /\ t.ihead \in 0 .. IBUFLEN - 1 /\ t.itail \in Int /\ t.icnt \in Int /\ t.icursor \in Int
      /\ IBUFLEN \in Nat \ {0} /\ (t.ihead - t.itail - t.icnt - t.icursor) % IBUFLEN = 0
  BY Sizes DEF InGood, Ttys, IPlaces, InRing
<1>2. PICK y \in Int : y = t.itail + m
  BY <1>1
<1>3. t.ihead - t.itail - t.icnt - t.icursor = t.ihead - y
  BY <1>1, <1>2 DEF Adds
<1>4. (t.ihead - y) % IBUFLEN = 0
  BY ONLY <1>1, <1>3
<1>5. t.ihead = y % IBUFLEN
  BY ONLY <1>1, <1>4, y \in Int, OwnSlot
<1>6. QED  BY <1>2, <1>5

LEMMA TailSlot ==
  ASSUME NEW t, InGood(t), NEW u, InGood(u), u.ihead = t.ihead, u.icursor = t.icursor, NEW k \in Int, Adds(k, u.icnt, t.icnt)
  PROVE  u.itail = (t.itail + k) % IBUFLEN
<1>1. PICK h \in Int, l \in Int : h = t.ihead /\ l = t.icursor
  BY Sizes DEF InGood, Ttys, IPlaces
<1>2. PICK a \in Int, c \in Int : a = t.itail /\ c = t.icnt
  BY Sizes DEF InGood, Ttys, IPlaces
<1>3. PICK b \in Int, d \in Int : b = u.itail /\ d = u.icnt /\ b \in 0 .. IBUFLEN - 1
  BY Sizes DEF InGood, Ttys, IPlaces
<1>4. Balanced(IBUFLEN, h, a, c, l) /\ Balanced(IBUFLEN, h, b, d, l)
  BY <1>1, <1>2, <1>3 DEF InGood, InRing, Balanced
<1>5. Adds(k, d, c)
  BY <1>2, <1>3
<1>6. IBUFLEN \in Nat \ {0} /\ b \in 0 .. IBUFLEN - 1
  BY <1>3, Sizes
<1>7. b = (a + k) % IBUFLEN
  BY ONLY <1>4, <1>5, <1>6, a \in Int, b \in Int, c \in Int, d \in Int, h \in Int, l \in Int, k \in Int, EndSlot
<1>8. QED  BY <1>2, <1>3, <1>7

\* What a character from the line does to the ring of the input: it goes away or makes the
\* line shorter, or is stored and makes the line longer, ends it, or is there for readers.
Edits(t, u, ch) ==
  /\ u.itail = t.itail
  /\ \/ u.ibuff = t.ibuff /\ u.icnt = t.icnt /\ u.icursor \in 0 .. t.icursor
     \/ /\ u.ibuff = [t.ibuff EXCEPT ![t.ihead] = ch]
        /\ \/ u.icnt = t.icnt /\ u.icursor = t.icursor + 1
           \/ u.icnt = t.icnt + t.icursor + 1 /\ u.icursor = 0
           \/ u.icnt = t.icnt + 1 /\ u.icursor = t.icursor

LEMMA InPlaces ==
  ASSUME NEW t, InGood(t)
  PROVE  /\ t \in Ttys /\ Ring(IBUFLEN, t.ibuff) /\ t.itail \in Int /\ t.icnt \in Int /\ t.icursor \in Nat
         /\ t.ibuff \in [0 .. IBUFLEN - 1 -> Codes] /\ t.ihead \in 0 .. IBUFLEN - 1 /\ IBUFLEN \in Nat \ {0}
BY Sizes DEF InGood, Ttys, IPlaces, Ring

LEMMA CharStored ==
  ASSUME NEW t, InGood(t), NEW m \in Int, Adds(t.icnt, t.icursor, m), NEW ch \in Codes
  PROVE  Stores(IBUFLEN, t.ibuff, t.itail, m, ch, [t.ibuff EXCEPT ![t.ihead] = ch])
<1>1. t.ihead = (t.itail + m) % IBUFLEN
  BY HeadSlot
<1>2. t.ibuff \in [0 .. IBUFLEN - 1 -> Codes] /\ t.ihead \in 0 .. IBUFLEN - 1
  BY InPlaces
<1> DEFINE at == (t.itail + m) % IBUFLEN
           d == [t.ibuff EXCEPT ![at] = ch]
<1>3. at \in 0 .. IBUFLEN - 1 /\ t.ihead = at
  BY <1>1, <1>2
<1> HIDE DEF at
<1>4. d \in [0 .. IBUFLEN - 1 -> Codes] /\ d[at] = ch /\ \A i \in 0 .. IBUFLEN - 1 : i # at => d[i] = t.ibuff[i]
  BY <1>2, <1>3
<1>5. d = [t.ibuff EXCEPT ![t.ihead] = ch]
  BY <1>3
<1> HIDE DEF d
<1>6. QED  BY ONLY <1>4, <1>5 DEF Stores, Ring, at

LEMMA EditEnters ==
  ASSUME NEW t, InGood(t), t.icnt >= 0, NEW ch \in Keys, NEW u, Edits(t, u, ch), u.icnt + u.icursor <= IBUFLEN
  PROVE  Enters(ReadyOf(t), LineOf(t), ReadyOf(u), LineOf(u))
<1> DEFINE r == ReadyOf(t)
           l == LineOf(t)
           s == ReadyOf(u)
           m == LineOf(u)
<1>1. PICK from \in Int, a \in Nat, w \in Nat : from = t.itail /\ a = t.icnt /\ w = t.icursor
  BY InPlaces
<1>2. PICK n \in Nat \ {0} : n = IBUFLEN
  BY InPlaces
<1>3. PICK f \in Int : Adds(from, a, f) /\ f = from + a
  BY DEF Adds
<1>4. Ring(n, t.ibuff)
  BY <1>2, InPlaces
<1>5. r = Window(t.ibuff, n, from, a) /\ l = Window(t.ibuff, n, f, w)
  BY <1>1, <1>2, <1>3 DEF ReadyOf, LineOf
<1>6. ch \in Codes
  BY DEF Codes
<1>7. CASE u.ibuff = t.ibuff /\ u.icnt = t.icnt /\ u.icursor \in 0 .. t.icursor
  <2>1. PICK k \in Nat : k = u.icursor /\ k <= w
    BY <1>1, <1>7
  <2>2. s = r /\ m = Window(t.ibuff, n, f, k)
    BY <1>1, <1>2, <1>3, <1>5, <1>7, <2>1 DEF ReadyOf, LineOf, Edits
  <2>3. CASE k = w
    <3>1. m = l
      BY ONLY <1>5, <2>2, <2>3
    <3>2. QED  BY <2>2, <3>1 DEF Enters
  <2>4. CASE k # w
    <3>1. PICK e \in Nat, g \in Int : Adds(k, e, w) /\ Adds(f, k, g)
      <4>1. w - k \in Nat /\ Adds(k, w - k, w) /\ f + k \in Int /\ Adds(f, k, f + k)
        BY <2>1 DEF Adds
      <4>2. QED  BY ONLY <4>1
    <3>2. Cuts(Window(t.ibuff, n, f, w), k, Window(t.ibuff, n, f, k), Window(t.ibuff, n, g, e))
      BY ONLY <1>4, <3>1, n \in Nat \ {0}, f \in Int, w \in Nat, k \in Nat, g \in Int, e \in Nat, WindowCut
    <3>3. m = SubSeq(l, 1, k)
      BY ONLY <1>5, <2>2, <3>2 DEF Cuts
    <3>4. Len(Window(t.ibuff, n, f, w)) = w
      BY ONLY <1>4, n \in Nat \ {0}, f \in Int, w \in Nat, WindowTyped, SMTT(20)
    <3>5. k \in 0 .. Len(l) - 1
      BY ONLY <1>5, <2>1, <2>4, <3>4, k \in Nat, w \in Nat
    <3> HIDE DEF r, l, s, m
    <3>6. Enters(r, l, s, m)
      BY ONLY <2>2, <3>3, <3>5 DEF Enters
    <3>7. QED  BY <3>6 DEF r, l, s, m
  <2>5. QED  BY <2>3, <2>4
<1>8. CASE /\ u.ibuff = [t.ibuff EXCEPT ![t.ihead] = ch] /\ u.itail = t.itail
           /\ \/ u.icnt = t.icnt /\ u.icursor = t.icursor + 1
              \/ u.icnt = t.icnt + t.icursor + 1 /\ u.icursor = 0
              \/ u.icnt = t.icnt + 1 /\ u.icursor = t.icursor
  <2>1. PICK h \in Nat, k \in Nat, j \in Nat, e \in Nat, g \in Int :
          Adds(a, w, h) /\ Adds(h, 1, k) /\ Adds(a, 1, j) /\ Adds(w, 1, e) /\ Adds(from, j, g)
    <3>1. /\ a + w \in Nat /\ (a + w) + 1 \in Nat /\ a + 1 \in Nat /\ w + 1 \in Nat /\ from + (a + 1) \in Int
          /\ Adds(a, w, a + w) /\ Adds(a + w, 1, (a + w) + 1) /\ Adds(a, 1, a + 1) /\ Adds(w, 1, w + 1)
          /\ Adds(from, a + 1, from + (a + 1))
      BY DEF Adds
    <3>2. QED  BY ONLY <3>1
  <2>2. Stores(n, t.ibuff, from, h, ch, u.ibuff)
    <3>1. Adds(t.icnt, t.icursor, h)
      BY <1>1, <2>1
    <3>2. QED  BY ONLY <1>1, <1>2, <1>6, <1>8, <3>1, InGood(t), h \in Nat, h \in Int, CharStored
  <2>3. a + w < n
    BY <1>1, <1>2, <1>8
  <2>4. PICK b, d : b = t.ibuff /\ d = u.ibuff
    OBVIOUS
  <2>5. /\ Window(d, n, from, a) = r
        /\ Pushes(r, l, ch, Window(d, n, f, e), Window(d, n, from, k), Window(d, n, from, j), Window(d, n, g, w))
    <3>1. /\ Window(d, n, from, a) = Window(b, n, from, a)
          /\ Pushes(Window(b, n, from, a), Window(b, n, f, w), ch,
                    Window(d, n, f, e), Window(d, n, from, k), Window(d, n, from, j), Window(d, n, g, w))
      <4>1. Ring(n, b) /\ Stores(n, b, from, h, ch, d)
        BY <1>4, <2>2, <2>4
      <4>2. QED  BY ONLY <1>3, <1>6, <2>1, <2>3, <4>1, n \in Nat \ {0}, from \in Int, a \in Nat, w \in Nat, f \in Int, h \in Nat,
                 k \in Nat, j \in Nat, e \in Nat, g \in Int, Pushed
    <3>2. QED  BY ONLY <1>5, <2>4, <3>1
  <2> HIDE DEF r, l
  <2>6. CASE u.icnt = t.icnt /\ u.icursor = t.icursor + 1
    <3>1. u.icnt = a /\ u.icursor = e /\ u.itail = from /\ from + a = f
      BY <1>1, <1>3, <1>8, <2>1, <2>6 DEF Adds
    <3>2. s = Window(d, n, from, a) /\ m = Window(d, n, f, e)
      BY ONLY <1>2, <2>4, <3>1 DEF ReadyOf, LineOf
    <3> HIDE DEF s, m
    <3>3. Enters(r, l, s, m)
      BY ONLY <2>5, <3>2, ch \in Keys DEF Enters, Pushes
    <3>4. QED  BY <3>3 DEF r, l, s, m
  <2>7. CASE u.icnt = t.icnt + t.icursor + 1 /\ u.icursor = 0
    <3>1. u.icnt = k /\ u.icursor = 0 /\ u.itail = from
      BY <1>1, <1>8, <2>1, <2>7 DEF Adds
    <3>2. s = Window(d, n, from, k) /\ m = <<>>
      BY ONLY <1>2, <2>4, <3>1 DEF ReadyOf, LineOf, Window
    <3> HIDE DEF s, m
    <3>3. Enters(r, l, s, m)
      BY ONLY <2>5, <3>2, ch \in Keys DEF Enters, Pushes
    <3>4. QED  BY <3>3 DEF r, l, s, m
  <2>8. CASE u.icnt = t.icnt + 1 /\ u.icursor = t.icursor
    <3>1. u.icnt = j /\ u.icursor = w /\ u.itail = from /\ from + j = g
      BY <1>1, <1>8, <2>1, <2>8 DEF Adds
    <3>2. s = Window(d, n, from, j) /\ m = Window(d, n, g, w)
      BY ONLY <1>2, <2>4, <3>1 DEF ReadyOf, LineOf
    <3> HIDE DEF s, m
    <3>3. Enters(r, l, s, m)
      BY ONLY <2>5, <3>2, ch \in Keys DEF Enters, Pushes
    <3>4. QED  BY <3>3 DEF r, l, s, m
  <2>9. QED  BY <1>8, <2>6, <2>7, <2>8
<1>9. QED  BY <1>7, <1>8 DEF Edits

LEMMA ReadEnters ==
  ASSUME NEW t, InGood(t), NEW u, InGood(u), ReadsOff(t, u), u.icnt >= 0
  PROVE  Enters(ReadyOf(t), LineOf(t), ReadyOf(u), LineOf(u))
<1> DEFINE r == ReadyOf(t)
           l == LineOf(t)
           s == ReadyOf(u)
           m == LineOf(u)
<1>1. PICK from \in Int, a \in Nat, w \in Nat : from = t.itail /\ a = t.icnt /\ w = t.icursor
  BY InPlaces DEF ReadsOff
<1>2. PICK to \in Int, e \in Nat : to = u.itail /\ e = u.icnt
  BY InPlaces
<1>3. PICK n \in Nat \ {0} : n = IBUFLEN
  BY InPlaces
<1>4. PICK k \in Nat : Adds(k, e, a)
  <2>1. a - e \in Nat /\ Adds(a - e, e, a)
    BY <1>1, <1>2 DEF Adds, ReadsOff
  <2>2. QED  BY ONLY <2>1
<1>5. PICK g \in Int, h \in Int : Adds(to, e, g) /\ Adds(from, a, h)
  <2>1. to + e \in Int /\ from + a \in Int /\ Adds(to, e, to + e) /\ Adds(from, a, from + a)
    BY DEF Adds
  <2>2. QED  BY ONLY <2>1
<1>6. Ring(n, t.ibuff)
  BY <1>3, InPlaces
<1>7. to = (from + k) % n
  <2>1. u.itail = (t.itail + k) % IBUFLEN
    <3>1. k \in Int /\ Adds(k, u.icnt, t.icnt)
      BY <1>1, <1>2, <1>4
    <3>2. QED  BY <3>1, TailSlot DEF ReadsOff
  <2>2. QED  BY ONLY <1>1, <1>2, <1>3, <2>1
<1>8. r = Window(t.ibuff, n, from, a) /\ l = Window(t.ibuff, n, h, w)
  BY ONLY <1>1, <1>3, <1>5 DEF ReadyOf, LineOf, Adds
<1>9. s = Window(t.ibuff, n, to, e) /\ m = Window(t.ibuff, n, g, w)
  BY ONLY <1>1, <1>2, <1>3, <1>5, ReadsOff(t, u) DEF ReadyOf, LineOf, Adds, ReadsOff
<1>10. s = SubSeq(r, k + 1, Len(r)) /\ m = l
  <2>1. Parts(Window(t.ibuff, n, from, a), k, Window(t.ibuff, n, to, e))
        /\ Window(t.ibuff, n, g, w) = Window(t.ibuff, n, h, w)
    BY ONLY <1>4, <1>5, <1>6, <1>7, n \in Nat \ {0}, from \in Int, a \in Nat, w \in Nat, to \in Int, e \in Nat,
       k \in Nat, g \in Int, h \in Int, Popped
  <2>2. QED  BY ONLY <1>8, <1>9, <2>1 DEF Parts
<1>11. Len(r) = a /\ r \in Seq(Codes)
  <2>1. Len(Window(t.ibuff, n, from, a)) = a /\ Window(t.ibuff, n, from, a) \in Seq(Codes)
    BY ONLY <1>6, n \in Nat \ {0}, from \in Int, a \in Nat, WindowTyped
  <2>2. QED  BY <1>8, <2>1
<1> HIDE DEF r, l, s, m
<1>12. CASE k = 0
  <2>1. s = r
    BY ONLY <1>10, <1>11, <1>12
  <2>2. QED  BY <1>10, <2>1 DEF Enters, r, l, s, m
<1>13. CASE k # 0
  <2>1. k \in 1 .. Len(r)
    BY <1>4, <1>11, <1>13 DEF Adds
  <2>2. Enters(r, l, s, m)
    BY ONLY <1>10, <2>1 DEF Enters
  <2>3. QED  BY <2>2 DEF r, l, s, m
<1>14. QED  BY <1>12, <1>13

------------------------------------------------------------------------------
(* A character from the line makes an input step, and a character may leave meanwhile. *)

Moves(t, u, ch) == Edits(t, u, ch) /\ Leaves(t, u)

\* What only sends leaves the input, before what a character does to it or after.
LEMMA SendMoves ==
  ASSUME NEW t, InGood(t), NEW u, SameIn(t, u), Leaves(t, u), NEW ch
  PROVE  Moves(t, u, ch)
<1>1. t.icursor \in 0 .. t.icursor
  BY InPlaces
<1>2. QED  BY <1>1 DEF Moves, Edits, SameIn

LEMMA MovesAfter ==
  ASSUME NEW t, NEW e, NEW u, NEW ch, SameIn(t, e), Leaves(t, e), Edits(e, u, ch), SameOut(e, u)
  PROVE  Moves(t, u, ch)
<1>1. Edits(t, u, ch)
  BY DEF Edits, SameIn
<1>2. QED  BY <1>1, SameLeaves DEF Moves

LEMMA MovesBefore ==
  ASSUME NEW t, NEW v, NEW u, NEW ch, SameOut(t, v), Edits(t, v, ch), SameIn(v, u), Leaves(v, u)
  PROVE  Moves(t, u, ch)
<1>1. Edits(t, u, ch)
  BY DEF Edits, SameIn
<1>2. Leaves(t, u)
  BY DEF Leaves, SameOut
<1>3. QED  BY <1>1, <1>2 DEF Moves

LEMMA EputcMoves ==
  ASSUME NEW t, InGood(t), OutGood(t), NEW n \in Nat \ {0}, NEW ch
  PROVE  Moves(t, Eputc(t, n), ch) /\ SameIn(t, Eputc(t, n)) /\ Leaves(t, Eputc(t, n))
<1>1. SameIn(t, Eputc(t, n))
  BY EputcSends DEF Sends
<1>2. Leaves(t, Eputc(t, n))
  BY EputcLeaves
<1>3. QED  BY <1>1, <1>2, SendMoves

\* A character that is stored, and k of them that are ready.
LEMMA AcceptedIs ==
  ASSUME NEW t \in Ttys, NEW ch, NEW k
  PROVE  LET a == Accept(t, ch)
             v == Available(a, k)
         IN  /\ a.ibuff = [t.ibuff EXCEPT ![t.ihead] = ch] /\ a.itail = t.itail /\ a.icnt = t.icnt /\ a.icursor = t.icursor
             /\ SameOut(t, a)
             /\ v.ibuff = [t.ibuff EXCEPT ![t.ihead] = ch] /\ v.itail = t.itail /\ v.icnt = t.icnt + k
             /\ v.icursor = t.icursor /\ SameOut(t, v)
BY DEF Accept, Available, Ttys, SameOut

LEMMA RawMoves ==
  ASSUME NEW t, Good(t), NEW ch \in Codes
  PROVE  Moves(t, Raw(t, ch), ch)
<1>1. t \in Ttys /\ InGood(t) /\ OutGood(t)
  BY DEF Good, InGood
<1>2. SameIn(t, t) /\ Leaves(t, t)
  BY <1>1 DEF SameIn, Leaves
<1>3. CASE t.icnt >= IBUFLEN
  BY <1>1, <1>2, <1>3, SendMoves DEF Raw
<1>4. CASE ~(t.icnt >= IBUFLEN)
  <2> DEFINE v == Available(Accept(t, ch), 1)
  <2>1. Raw(t, ch) = v
    BY <1>4 DEF Raw
  <2>2. /\ v.ibuff = [t.ibuff EXCEPT ![t.ihead] = ch] /\ v.itail = t.itail /\ v.icnt = t.icnt + 1
        /\ v.icursor = t.icursor /\ SameOut(t, v)
    BY <1>1, AcceptedIs
  <2> HIDE DEF v
  <2>3. Edits(t, v, ch)
    BY <2>2 DEF Edits
  <2>4. QED  BY <1>2, <2>1, <2>2, <2>3, MovesAfter
<1>5. QED  BY <1>3, <1>4

LEMMA AcceptOut ==
  ASSUME NEW t, Good(t), NEW ch \in Codes
  PROVE  OutGood(Accept(t, ch))
<1> DEFINE h == (t.ihead + 1) % IBUFLEN
           b == [t.ibuff EXCEPT ![t.ihead] = ch]
           a == [t EXCEPT !.ibuff = b, !.ihead = h]
<1>1. t \in Ttys /\ t.ihead \in Int /\ t.ibuff \in [IPlaces -> Codes] /\ IBUFLEN \in Nat \ {0}
  BY GoodFacts, Sizes
<1>2. h \in 0 .. IBUFLEN - 1
  <2>1. t.ihead + 1 \in Int
    BY <1>1
  <2>2. QED  BY ONLY <1>1, <2>1, RoundTyped
<1>3. b \in [IPlaces -> Codes]
  BY <1>1
<1>4. Accept(t, ch) = a
  BY DEF Accept
<1> HIDE DEF h, b
<1>5. a \in Ttys /\ SameOut(t, a)
  BY <1>1, <1>2, <1>3 DEF Ttys, SameOut, IPlaces
<1> HIDE DEF a
<1>6. QED  BY <1>4, <1>5 DEF Good, OutGood, SameOut, OutRing

LEMMA CbreakMoves ==
  ASSUME NEW t, Good(t), NEW ch \in Codes
  PROVE  Moves(t, Cbreak(t, ch), ch)
<1>1. t \in Ttys /\ InGood(t) /\ OutGood(t) /\ t.icnt \in Int
  BY GoodFacts DEF Good
<1>2. CASE t.icnt >= IBUFLEN
  <2>1. 1 \in Nat \ {0}
    OBVIOUS
  <2>2. Moves(t, Eputc(t, 1), ch)
    BY <1>1, <2>1, EputcMoves
  <2>3. QED  BY <1>2, <2>2 DEF Cbreak
<1>3. CASE ~(t.icnt >= IBUFLEN)
  <2> DEFINE a == Accept(t, ch)
             e == Echo(a, ch)
             r == Available(e, 1)
  <2>1. /\ a.ibuff = [t.ibuff EXCEPT ![t.ihead] = ch] /\ a.itail = t.itail /\ a.icnt = t.icnt /\ a.icursor = t.icursor
        /\ SameOut(t, a)
    BY <1>1, AcceptedIs
  <2>2. OutGood(a)
    BY AcceptOut
  <2> HIDE DEF a
  <2>3. Leaves(a, e) /\ OutGood(e) /\ SameIn(a, e)
    BY <2>2, EchoLeaves
  <2> HIDE DEF e
  <2>4. e \in Ttys /\ e.icnt = t.icnt
    BY <2>1, <2>3 DEF OutGood, SameIn
  <2>5. /\ r.ibuff = e.ibuff /\ r.itail = e.itail /\ r.icnt = e.icnt + 1 /\ r.icursor = e.icursor /\ SameOut(e, r)
    BY <2>4 DEF Available, Ttys, SameOut
  <2>6. Cbreak(t, ch) = r
    <3>1. e.icnt < IBUFLEN
      BY <1>1, <1>3, <2>4, Sizes
    <3>2. QED  BY <1>3, <3>1 DEF Cbreak, r, e, a
  <2> HIDE DEF r
  <2>7. Edits(t, r, ch)
    BY <2>1, <2>3, <2>5 DEF Edits, SameIn
  <2>8. Leaves(t, r)
    BY <2>1, <2>3, <2>5 DEF Leaves, SameOut
  <2>9. QED  BY <2>6, <2>7, <2>8 DEF Moves
<1>4. QED  BY <1>2, <1>3

LEMMA KillLineMoves ==
  ASSUME NEW t, Good(t), NEW ch
  PROVE  Moves(t, KillLine(t), ch)
<1> DEFINE v == [t EXCEPT !.ihead = (@ - t.icursor) % IBUFLEN, !.icursor = 0]
           u == Eputc(v, 2)
<1>1. t \in Ttys /\ t.icursor \in Nat /\ t.ihead \in Int /\ IBUFLEN \in Nat \ {0}
  BY GoodFacts, Sizes
<1>2. (t.ihead - t.icursor) % IBUFLEN \in 0 .. IBUFLEN - 1 /\ 0 \in 0 .. IBUFLEN - 1
  <2>1. t.ihead - t.icursor \in Int
    BY <1>1
  <2>2. (t.ihead - t.icursor) % IBUFLEN \in 0 .. IBUFLEN - 1
    BY ONLY <1>1, <2>1, RoundTyped
  <2>3. QED  BY <1>1, <2>2
<1>3. /\ v \in Ttys /\ SameOut(t, v) /\ v.ibuff = t.ibuff /\ v.itail = t.itail /\ v.icnt = t.icnt /\ v.icursor = 0
  BY <1>1, <1>2 DEF Ttys, SameOut, IPlaces
<1>4. KillLine(t) = u
  BY DEF KillLine
<1> HIDE DEF v
<1>5. OutGood(v)
  BY <1>3 DEF Good, OutGood, SameOut, OutRing
<1>6. Leaves(v, u) /\ SameIn(v, u)
  <2>1. 2 \in Nat \ {0} /\ 2 \in Nat
    OBVIOUS
  <2>2. QED  BY <1>5, <2>1, EputcLeaves, EputcSends DEF Sends
<1> HIDE DEF u
<1>7. Edits(t, v, ch)
  BY <1>1, <1>3 DEF Edits
<1>8. QED  BY <1>3, <1>4, <1>6, <1>7, MovesBefore

LEMMA EraseMoves ==
  ASSUME NEW t, Good(t), NEW ch
  PROVE  Moves(t, Erase(t), ch)
<1> DEFINE h == (t.ihead - 1) % IBUFLEN
           v == [t EXCEPT !.ihead = h, !.icursor = @ - 1]
           n == IF t.ibuff[h] \in Control THEN 6 ELSE 3
<1>1. t \in Ttys /\ t.icursor \in Nat /\ t.icursor \in IPlaces /\ t.ihead \in Int /\ IBUFLEN \in Nat \ {0} /\ InGood(t) /\ OutGood(t)
  BY GoodFacts, Sizes DEF Good
<1>2. CASE t.icursor = 0
  <2>1. SameIn(t, t) /\ Leaves(t, t)
    BY <1>1 DEF SameIn, Leaves
  <2>2. QED  BY <1>1, <1>2, <2>1, SendMoves DEF Erase
<1>3. CASE t.icursor # 0
  <2>1. h \in 0 .. IBUFLEN - 1 /\ t.icursor - 1 \in 0 .. IBUFLEN - 1
    <3>1. t.ihead - 1 \in Int /\ t.icursor - 1 \in 0 .. IBUFLEN - 1
      BY <1>1, <1>3 DEF IPlaces
    <3>2. QED  BY ONLY <1>1, <3>1, RoundTyped
  <2>2. Erase(t) = IF ~t.iecho THEN Ttyostart(v) ELSE Eputc(v, n)
    BY <1>3 DEF Erase
  <2>3. n \in Nat \ {0} /\ n \in Nat
    OBVIOUS
  <2> HIDE DEF h, n
  <2>4. /\ v \in Ttys /\ SameOut(t, v) /\ v.ibuff = t.ibuff /\ v.itail = t.itail /\ v.icnt = t.icnt /\ v.icursor = t.icursor - 1
    BY <1>1, <2>1 DEF Ttys, SameOut, IPlaces
  <2> HIDE DEF v
  <2>5. OutGood(v)
    BY <1>1, <2>4 DEF OutGood, SameOut, OutRing
  <2>6. Edits(t, v, ch)
    BY <1>1, <1>3, <2>4 DEF Edits
  <2>7. Leaves(v, Ttyostart(v)) /\ SameIn(v, Ttyostart(v))
    BY <2>5, StartLeaves, TtyostartSends DEF Sends
  <2>8. Leaves(v, Eputc(v, n)) /\ SameIn(v, Eputc(v, n))
    BY <2>3, <2>5, EputcLeaves, EputcSends DEF Sends
  <2>9. QED  BY <2>2, <2>4, <2>6, <2>7, <2>8, MovesBefore
<1>4. QED  BY <1>2, <1>3

LEMMA EndLineMoves ==
  ASSUME NEW t, Good(t), NEW ch \in Codes
  PROVE  Moves(t, EndLine(t, ch), ch)
<1> DEFINE e == Echo(t, ch)
           u == IF ch = "EOF" THEN Echo(e, "NL") ELSE e
           k == t.icursor + 1
           v == Available(Accept(u, ch), k)
           r == [v EXCEPT !.icursor = 0]
<1>1. OutGood(t) /\ t.icnt \in Int /\ t.icursor \in Int
  BY GoodFacts DEF Good
<1>2. Leaves(t, e) /\ OutGood(e) /\ SameIn(t, e)
  BY <1>1, EchoLeaves
<1> HIDE DEF e
<1>3. Leaves(e, Echo(e, "NL")) /\ OutGood(Echo(e, "NL")) /\ SameIn(e, Echo(e, "NL"))
  BY <1>2, EchoLeaves
<1>4. Leaves(t, u) /\ OutGood(u) /\ SameIn(t, u)
  <2>1. Leaves(t, Echo(e, "NL"))
    BY ONLY <1>2, <1>3, LeavesOn
  <2>2. QED  BY <1>2, <1>3, <2>1 DEF SameIn
<1>5. EndLine(t, ch) = r
  BY DEF EndLine, e
<1> HIDE DEF u, k
<1>6. u \in Ttys /\ u.icnt = t.icnt /\ u.icursor = t.icursor
  BY <1>4 DEF OutGood, SameIn
<1>7. /\ v.ibuff = [u.ibuff EXCEPT ![u.ihead] = ch] /\ v.itail = u.itail /\ v.icnt = u.icnt + k /\ SameOut(u, v)
      /\ DOMAIN v = DOMAIN u /\ "icursor" \in DOMAIN u
  BY <1>6 DEF Accept, Available, Ttys, SameOut
<1> HIDE DEF v
<1>8. r.ibuff = v.ibuff /\ r.itail = v.itail /\ r.icnt = v.icnt /\ r.icursor = 0 /\ SameOut(v, r)
  BY <1>7 DEF SameOut
<1> HIDE DEF r
<1>9. u.icnt + k = u.icnt + u.icursor + 1
  BY <1>1, <1>6 DEF k
<1>10. Edits(u, r, ch) /\ SameOut(u, r)
  BY <1>7, <1>8, <1>9 DEF Edits, SameOut
<1>11. QED  BY <1>4, <1>5, <1>10, MovesAfter

LEMMA OrdinaryMoves ==
  ASSUME NEW t, Good(t), NEW ch \in Codes
  PROVE  Moves(t, Ordinary(t, ch), ch)
<1> DEFINE full == (IF t.icnt < 0 THEN 0 ELSE t.icnt) + t.icursor >= IBUFLEN - 1
           e == Echo(t, ch)
           c == [e EXCEPT !.icursor = @ + 1]
           r == Accept(c, ch)
<1>1. OutGood(t) /\ InGood(t)
  BY DEF Good
<1>2. CASE full
  <2>1. 1 \in Nat \ {0}
    OBVIOUS
  <2>2. Moves(t, Eputc(t, 1), ch)
    BY <1>1, <2>1, EputcMoves
  <2>3. QED  BY <1>2, <2>2 DEF Ordinary
<1>3. CASE ~full
  <2>1. Leaves(t, e) /\ OutGood(e) /\ SameIn(t, e)
    BY <1>1, EchoLeaves
  <2>2. Ordinary(t, ch) = r
    BY <1>3 DEF Ordinary
  <2> HIDE DEF e
  <2>3. /\ r.ibuff = [e.ibuff EXCEPT ![e.ihead] = ch] /\ r.itail = e.itail /\ r.icnt = e.icnt
        /\ r.icursor = e.icursor + 1 /\ SameOut(e, r)
    <3>1. e \in Ttys
      BY <2>1 DEF OutGood
    <3>2. QED  BY <3>1 DEF Accept, Ttys, SameOut
  <2> HIDE DEF r
  <2>4. Edits(e, r, ch)
    BY <2>3 DEF Edits
  <2>5. QED  BY <2>1, <2>2, <2>3, <2>4, MovesAfter
<1>4. QED  BY <1>2, <1>3

LEMMA TypedMoves ==
  ASSUME NEW t, Good(t), NEW ch \in Keys
  PROVE  Moves(t, Typed(t, ch), ch)
<1>1. ch \in Codes /\ t \in Ttys /\ InGood(t) /\ OutGood(t) /\ 1 \in Nat \ {0}
  BY GoodFacts DEF Codes, Good
<1>2. Moves(t, Raw(t, ch), ch) /\ Moves(t, Cbreak(t, ch), ch) /\ Moves(t, Eputc(t, 1), ch)
  BY <1>1, RawMoves, CbreakMoves, EputcMoves
<1>3. Moves(t, Cooked(t, ch), ch)
  BY <1>1, KillLineMoves, EraseMoves, EndLineMoves, OrdinaryMoves DEF Cooked
<1>4. Moves(t, [t EXCEPT !.oheld = TRUE], ch) /\ Moves(t, Ttyostart([t EXCEPT !.oheld = FALSE]), ch)
  <2> DEFINE u(b) == [t EXCEPT !.oheld = b]
  <2>1. \A b \in BOOLEAN : /\ u(b) \in Ttys /\ SameIn(t, u(b)) /\ u(b).osem = t.osem /\ u(b).obuff = t.obuff
                           /\ u(b).ocnt = t.ocnt /\ u(b).ohead = t.ohead /\ u(b).otail = t.otail /\ u(b).txint = t.txint
    BY <1>1 DEF Ttys, SameIn
  <2> HIDE DEF u
  <2>2. \A b \in BOOLEAN : OutGood(u(b)) /\ Leaves(t, u(b)) /\ SameIn(t, u(b))
    BY <1>1, <2>1 DEF OutGood, OutRing, Leaves
  <2> DEFINE v == u(FALSE)
             w == Ttyostart(v)
  <2>3. OutGood(v) /\ Leaves(t, v) /\ SameIn(t, v)
    BY <2>2
  <2> HIDE DEF v
  <2>4. Leaves(v, w) /\ SameIn(v, w)
    BY <2>3, StartLeaves, TtyostartSends DEF Sends
  <2> HIDE DEF w
  <2>5. Leaves(t, w) /\ SameIn(t, w)
    BY <2>3, <2>4, LeavesOn DEF SameIn
  <2>6. Moves(t, w, ch)
    BY ONLY <1>1, <2>5, SendMoves
  <2>7. Moves(t, u(TRUE), ch)
    BY <1>1, <2>2, SendMoves
  <2>8. QED  BY <2>6, <2>7 DEF u, v, w
<1>5. QED  BY <1>2, <1>3, <1>4 DEF Typed

------------------------------------------------------------------------------
(* What leaves is the oldest character. *)

LEMMA OutPlaces ==
  ASSUME NEW t, OutGood(t)
  PROVE  /\ t \in Ttys /\ Ring(OBUFLEN, t.obuff) /\ t.otail \in Int /\ t.ocnt \in Nat /\ t.ohead \in 0 .. OBUFLEN - 1
         /\ t.otail \in 0 .. OBUFLEN - 1 /\ OBUFLEN \in Nat \ {0} /\ t.obuff \in [0 .. OBUFLEN - 1 -> Codes]
BY Sizes DEF OutGood, Ttys, OPlaces, Ring

LEMMA TakenSending ==
  ASSUME NEW t, NEW u, OutGood(t), OutGood(u), u.obuff = t.obuff,
         \/ u.otail = t.otail /\ u.ocnt = t.ocnt
         \/ u.otail = (t.otail + 1) % OBUFLEN /\ u.ocnt = t.ocnt - 1 /\ t.ocnt > 0
  PROVE  OutOf(u) = OutOf(t) \/ (OutOf(t) # <<>> /\ OutOf(u) = Tail(OutOf(t)))
<1>1. PICK n \in Nat \ {0}, from \in Int, a \in Nat, to \in Int, e \in Nat :
        n = OBUFLEN /\ from = t.otail /\ a = t.ocnt /\ to = u.otail /\ e = u.ocnt
  BY OutPlaces
<1>2. Ring(n, t.obuff) /\ u.obuff = t.obuff
  BY <1>1, OutPlaces
<1>3. CASE to = from /\ e = a
  BY <1>1, <1>2, <1>3 DEF OutOf
<1>4. CASE ~(to = from /\ e = a)
  <2>1. to = (from + 1) % n /\ e = a - 1 /\ a > 0
    BY <1>1, <1>4
  <2> DEFINE R == Window(t.obuff, n, from, a)
  <2>2. PICK k \in Nat : k = 1
    OBVIOUS
  <2>3. to = (from + k) % n /\ Adds(k, e, a)
    BY <2>1, <2>2 DEF Adds
  <2>4. PICK g \in Int, h \in Int : Adds(to, e, g) /\ Adds(from, a, h)
    <3>1. to + e \in Int /\ from + a \in Int /\ Adds(to, e, to + e) /\ Adds(from, a, from + a)
      BY DEF Adds
    <3>2. QED  BY ONLY <3>1
  <2>5. PICK l \in Nat : l = 0
    OBVIOUS
  <2>6. Parts(R, k, Window(t.obuff, n, to, e))
    BY ONLY <1>2, <2>3, <2>4, n \in Nat \ {0}, from \in Int, a \in Nat, to \in Int, e \in Nat, k \in Nat, l \in Nat,
       g \in Int, h \in Int, Popped
  <2>7. R \in Seq(Codes) /\ Len(R) = a
    <3>1. PICK b : b = t.obuff /\ Ring(n, b)
      BY <1>2
    <3>2. Ring(n, b)
      BY <3>1
    <3>3. Window(b, n, from, a) \in Seq(Codes) /\ Len(Window(b, n, from, a)) = a
      BY ONLY <3>2, n \in Nat \ {0}, from \in Int, a \in Nat, WindowTyped
    <3>4. QED  BY <3>1, <3>3
  <2>8. OutOf(t) = R /\ OutOf(u) = Window(t.obuff, n, to, e)
    BY <1>1, <1>2 DEF OutOf
  <2> HIDE DEF R
  <2>9. OutOf(u) = SubSeq(R, 2, Len(R))
    BY <2>2, <2>6, <2>8 DEF Parts
  <2>10. R # <<>> /\ SubSeq(R, 2, Len(R)) = Tail(R)
    BY <2>1, <2>7
  <2>11. QED  BY <2>8, <2>9, <2>10
<1>5. QED  BY <1>3, <1>4

LEMMA LeavesSending ==
  ASSUME NEW t, NEW u, OutGood(t), OutGood(u), Leaves(t, u)
  PROVE  OutOf(u) = OutOf(t) \/ (OutOf(t) # <<>> /\ OutOf(u) = Tail(OutOf(t)))
BY TakenSending DEF Leaves

------------------------------------------------------------------------------
(* The characters of a text are put into the ring of the output one by one. *)

\* The ring b has the last of the first k entries of the list s, the first one at from.
Streams(n, b, from, s, k) == \A m \in 1 .. k : m > k - n => b[(from + m - 1) % n] = s[m]

LEMMA StreamPuts ==
  ASSUME NEW n \in Nat \ {0}, NEW b, NEW from \in Int, NEW s, NEW k \in Nat, Streams(n, b, from, s, k),
         NEW m \in Nat, Adds(k, 1, m), NEW c, c = s[m], NEW d, Stores(n, b, from, k, c, d)
  PROVE  Streams(n, d, from, s, m)
<1>1. m = k + 1 /\ from + m - 1 = from + k
  BY DEF Adds
<1>2. d[(from + k) % n] = s[m]
  BY DEF Stores
<1>3. ASSUME NEW i \in 1 .. m, i > m - n, i # m
      PROVE  d[(from + i - 1) % n] = s[i]
  <2>1. i \in 1 .. k /\ i > k - n
    BY <1>1, <1>3
  <2>2. b[(from + i - 1) % n] = s[i]
    BY <2>1 DEF Streams
  <2>3. from + i - 1 \in Int /\ from + k \in Int /\ from + i - 1 < from + k /\ (from + k) - (from + i - 1) < n
    BY <1>1, <1>3, <2>1
  <2>4. (from + i - 1) % n # (from + k) % n
    BY ONLY <2>3, n \in Nat \ {0}, SlotsDiffer
  <2>5. (from + i - 1) % n \in 0 .. n - 1
    BY ONLY <2>3, n \in Nat \ {0}, RoundTyped
  <2>6. QED  BY <2>2, <2>4, <2>5 DEF Stores
<1>4. ASSUME NEW i \in 1 .. m, i > m - n
      PROVE  d[(from + i - 1) % n] = s[i]
  <2>1. CASE i = m
    BY <1>1, <1>2, <2>1
  <2>2. CASE i # m
    BY <1>3, <1>4, <2>2
  <2>3. QED  BY <2>1, <2>2
<1>5. QED  BY <1>4 DEF Streams

\* What the ring has from the place of entry j on, as far as that did not become too much.
LEMMA StreamIs ==
  ASSUME NEW n \in Nat \ {0}, NEW b, Ring(n, b), NEW from \in Int, NEW s \in Seq(Codes), NEW k \in Nat, k <= Len(s),
         Streams(n, b, from, s, k), NEW j \in Nat, NEW e \in Nat, Adds(j, e, k), e <= n,
         NEW to \in Int, to = (from + j) % n
  PROVE  Window(b, n, to, e) = SubSeq(s, j + 1, k)
<1> DEFINE w == Window(b, n, to, e)
           v == SubSeq(s, j + 1, k)
<1>1. k = j + e
  BY DEF Adds
<1>2. w \in Seq(Codes) /\ Len(w) = e /\ \A i \in 1 .. e : w[i] = b[(to + i - 1) % n]
  <2>1. /\ Window(b, n, to, e) \in Seq(Codes) /\ Len(Window(b, n, to, e)) = e
        /\ \A i \in 1 .. e : Window(b, n, to, e)[i] = b[(to + i - 1) % n]
    BY ONLY Ring(n, b), n \in Nat \ {0}, to \in Int, e \in Nat, WindowTyped
  <2>2. QED  BY ONLY <2>1 DEF w
<1>3. v \in Seq(Codes) /\ Len(v) = e /\ \A i \in 1 .. e : v[i] = s[j + i]
  BY <1>1
<1> HIDE DEF w, v
<1>4. ASSUME NEW i \in 1 .. e PROVE w[i] = v[i]
  <2>1. j + i \in 1 .. k /\ j + i > k - n
    BY <1>1
  <2>2. b[(from + (j + i) - 1) % n] = s[j + i]
    BY <2>1 DEF Streams
  <2>3. PICK x \in Int, y \in Int : x = from + j /\ y = i - 1
    OBVIOUS
  <2>4. ((x % n) + y) % n = (x + y) % n
    BY ONLY x \in Int, y \in Int, n \in Nat \ {0}, SlotSum
  <2>5. x + y = from + (j + i) - 1 /\ (x % n) + y = to + i - 1
    BY <2>3
  <2>6. (to + i - 1) % n = (from + (j + i) - 1) % n
    BY ONLY <2>4, <2>5
  <2>7. QED  BY <1>2, <1>3, <2>2, <2>6
<1>5. w = v
  BY ONLY <1>2, <1>3, <1>4, SameList
<1>6. QED  BY <1>5 DEF w, v

\* The first k characters of a text are behind what t has, and the first j of all have left.
Put(t, text, k, j, u) ==
  /\ u.otail = (t.otail + j) % OBUFLEN /\ u.ocnt = t.ocnt + k - j
  /\ Streams(OBUFLEN, u.obuff, t.otail, OutOf(t) \o text, t.ocnt + k)

\* A writer's loop after some of a text that it began with the control block t: at most one
\* character leaves meanwhile, which starts the transmitter.
On(t, text, w) ==
  /\ \E k \in 0 .. Len(text), j \in 0 .. 1 :
       w.rest = SubSeq(text, k + 1, Len(text)) /\ Put(t, text, k, j, w.t) /\ (j = 1 => w.t.txint)
  /\ (w.op = "user" => w.rest = <<>>)

LEMMA OutTyped ==
  ASSUME NEW t, OutGood(t)
  PROVE  /\ OutOf(t) \in Seq(Codes) /\ Len(OutOf(t)) = t.ocnt
         /\ \A i \in 1 .. t.ocnt : OutOf(t)[i] = t.obuff[(t.otail + i - 1) % OBUFLEN]
<1>0. PICK b : b = t.obuff
  OBVIOUS
<1>1. PICK n \in Nat \ {0}, from \in Int, a \in Nat :
        n = OBUFLEN /\ from = t.otail /\ a = t.ocnt /\ b = t.obuff /\ Ring(n, b)
  BY <1>0, OutPlaces
<1>2. Ring(n, b)
  BY <1>1
<1>3. /\ Window(b, n, from, a) \in Seq(Codes) /\ Len(Window(b, n, from, a)) = a
      /\ \A i \in 1 .. a : Window(b, n, from, a)[i] = b[(from + i - 1) % n]
  BY ONLY <1>2, n \in Nat \ {0}, from \in Int, a \in Nat, WindowTyped
<1>4. QED  BY <1>1, <1>3 DEF OutOf

LEMMA JoinedTyped ==
  ASSUME NEW a \in Seq(Codes), NEW b \in Seq(Codes)
  PROVE  /\ a \o b \in Seq(Codes) /\ Len(a \o b) = Len(a) + Len(b)
         /\ \A i \in 1 .. Len(a) : (a \o b)[i] = a[i]
         /\ \A i \in 1 .. Len(b) : (a \o b)[Len(a) + i] = b[i]
OBVIOUS

LEMMA BeginsOn ==
  ASSUME NEW t, OutGood(t), NEW text \in Seq(Codes), NEW w, w.rest = text, Leaves(t, w.t), OutGood(w.t),
         w.op = "user" => text = <<>>
  PROVE  On(t, text, w)
<1> DEFINE u == w.t
           s == OutOf(t) \o text
<1>1. /\ t.otail \in Int /\ t.ocnt \in Nat /\ t.otail \in 0 .. OBUFLEN - 1 /\ OBUFLEN \in Nat \ {0} /\ u.otail \in Int
  BY OutPlaces
<1>2. Len(OutOf(t)) = t.ocnt /\ \A i \in 1 .. t.ocnt : s[i] = t.obuff[(t.otail + i - 1) % OBUFLEN]
  BY OutTyped, JoinedTyped
<1> HIDE DEF s
<1>3. u.obuff = t.obuff
  BY DEF Leaves
<1>4. Streams(OBUFLEN, u.obuff, t.otail, s, t.ocnt)
  BY <1>2, <1>3 DEF Streams
<1>5. t.ocnt + 0 = t.ocnt /\ 0 + 1 = 1 /\ 0 \in 0 .. Len(text) /\ SubSeq(text, 1, Len(text)) = text
  BY <1>1
<1>6. PICK j \in 0 .. 1 : /\ u.otail = (t.otail + j) % OBUFLEN /\ u.ocnt = t.ocnt + 0 - j /\ (j = 1 => u.txint)
  <2>1. CASE u.otail = t.otail /\ u.ocnt = t.ocnt
    <3>1. t.otail = (t.otail + 0) % OBUFLEN /\ t.ocnt = t.ocnt + 0 - 0 /\ 0 \in 0 .. 1
      BY <1>1
    <3>2. QED  BY <2>1, <3>1
  <2>2. CASE u.otail = (t.otail + 1) % OBUFLEN /\ u.ocnt = t.ocnt - 1 /\ u.txint
    <3>1. t.ocnt - 1 = t.ocnt + 0 - 1 /\ 1 \in 0 .. 1
      BY <1>1
    <3>2. QED  BY <2>2, <3>1
  <2>3. QED  BY <2>1, <2>2 DEF Leaves
<1>7. Put(t, text, 0, j, u)
  BY <1>4, <1>5, <1>6 DEF Put, s
<1>8. QED  BY <1>5, <1>6, <1>7 DEF On

\* Where the next character goes.
LEMMA OheadSlot ==
  ASSUME NEW t, OutGood(t), NEW m \in Int, NEW j \in Int, NEW u, OutGood(u),
         u.otail = (t.otail + j) % OBUFLEN, u.ocnt = m - j
  PROVE  u.ohead = (t.otail + m) % OBUFLEN
<1>1. /\ t.otail \in Int /\ u.otail \in Int /\ u.ocnt \in Int /\ u.ohead \in 0 .. OBUFLEN - 1 /\ OBUFLEN \in Nat \ {0}
      /\ u.ohead \in Int
  BY OutPlaces
<1>2. (u.ohead - u.otail - u.ocnt) % OBUFLEN = 0
  BY DEF OutGood, OutRing
<1>3. PICK x \in Int, y \in Int, c \in Int : x = t.otail + j /\ y = u.otail + u.ocnt /\ c = m - j
  BY <1>1
<1>4. u.ohead = y % OBUFLEN
  <2>1. u.ohead - u.otail - u.ocnt = u.ohead - y
    BY ONLY <1>1, <1>3
  <2>2. (u.ohead - y) % OBUFLEN = 0
    BY ONLY <1>2, <2>1
  <2>3. QED  BY ONLY <1>1, <2>2, y \in Int, OwnSlot
<1>5. ((x % OBUFLEN) + c) % OBUFLEN = (x + c) % OBUFLEN
  BY ONLY <1>1, x \in Int, c \in Int, SlotSum
<1>6. y = (x % OBUFLEN) + c /\ x + c = t.otail + m
  BY <1>1, <1>3
<1>7. QED  BY ONLY <1>4, <1>5, <1>6

LEMMA PutLeaves ==
  ASSUME NEW t, OutGood(t), NEW text, NEW k \in Nat, NEW j \in 0 .. 1, NEW x, Put(t, text, k, j, x), j = 1 => x.txint,
         NEW u, Leaves(x, u)
  PROVE  \E i \in 0 .. 1 : Put(t, text, k, i, u) /\ (i = 1 => u.txint)
<1>1. /\ t.otail \in Int /\ t.ocnt \in Nat /\ OBUFLEN \in Nat \ {0}
  BY OutPlaces
<1>2. u.obuff = x.obuff /\ (x.txint => u.txint)
  BY DEF Leaves
<1>3. CASE u.otail = x.otail /\ u.ocnt = x.ocnt
  BY <1>2, <1>3 DEF Put
<1>4. CASE u.otail = (x.otail + 1) % OBUFLEN /\ u.ocnt = x.ocnt - 1 /\ ~x.txint /\ u.txint
  <2>1. j = 0 /\ 1 \in 0 .. 1
    BY <1>4
  <2>2. x.otail = (t.otail + 0) % OBUFLEN /\ x.ocnt = t.ocnt + k - 0 /\ t.otail + 0 = t.otail
    BY <1>1, <2>1 DEF Put
  <2>3. ((t.otail % OBUFLEN) + 1) % OBUFLEN = (t.otail + 1) % OBUFLEN
    <3>1. 1 \in Int
      OBVIOUS
    <3>2. QED  BY ONLY <1>1, <3>1, SlotSum
  <2>4. u.otail = (t.otail + 1) % OBUFLEN
    BY <1>4, <2>2, <2>3
  <2>5. u.ocnt = t.ocnt + k - 1
    BY <1>1, <1>4, <2>2
  <2>6. Put(t, text, k, 1, u)
    BY <1>2, <2>4, <2>5 DEF Put
  <2>7. QED  BY <1>4, <2>1, <2>6
<1>5. QED  BY <1>3, <1>4 DEF Leaves

LEMMA StoredPuts ==
  ASSUME NEW t, OutGood(t), NEW text \in Seq(Codes), NEW k \in Nat, k < Len(text), NEW j \in 0 .. 1,
         NEW x, OutGood(x), Put(t, text, k, j, x), NEW c, c = text[k + 1]
  PROVE  Put(t, text, k + 1, j, Stored(x, c)) /\ Stored(x, c).txint = x.txint
<1> DEFINE s == OutOf(t) \o text
           u == Stored(x, c)
           d == [x.obuff EXCEPT ![x.ohead] = c]
<1>1. /\ t.otail \in Int /\ t.ocnt \in Nat /\ OBUFLEN \in Nat \ {0}
      /\ x \in Ttys /\ x.obuff \in [0 .. OBUFLEN - 1 -> Codes] /\ x.ohead \in 0 .. OBUFLEN - 1 /\ x.ocnt \in Int
  BY OutPlaces
<1>2. PICK n \in Nat \ {0}, from \in Int, a \in Nat : n = OBUFLEN /\ from = t.otail /\ a = t.ocnt
  BY <1>1
<1>3. k + 1 \in 1 .. Len(text) /\ c \in Codes
  BY DEF Codes
<1>4. PICK m \in Nat, l \in Nat : m = a + k /\ Adds(m, 1, l) /\ l = a + (k + 1)
  BY DEF Adds
<1>5. c = s[l]
  BY <1>2, <1>3, <1>4, OutTyped, JoinedTyped, SMTT(20)
<1>6. u.obuff = d /\ u.otail = x.otail /\ u.ocnt = x.ocnt + 1 /\ u.txint = x.txint
  BY <1>1 DEF Stored, Ttys
<1>7. x.otail = (t.otail + j) % OBUFLEN /\ x.ocnt = t.ocnt + k - j /\ Streams(OBUFLEN, x.obuff, t.otail, s, t.ocnt + k)
  BY DEF Put
<1> HIDE DEF s, u
<1>8. x.ohead = (t.otail + m) % OBUFLEN
  <2>1. x.ocnt = m - j /\ j \in Int /\ m \in Int
    BY <1>2, <1>4, <1>7
  <2>2. QED  BY <1>7, <2>1, OheadSlot
<1>9. Stores(n, x.obuff, from, m, c, d)
  <2> DEFINE at == (from + m) % n
  <2>1. at = x.ohead
    BY <1>2, <1>8
  <2>2. d \in [0 .. n - 1 -> Codes] /\ d[x.ohead] = c /\ \A i \in 0 .. n - 1 : i # x.ohead => d[i] = x.obuff[i]
    BY <1>1, <1>2, <1>3
  <2> HIDE DEF at, d
  <2>3. QED  BY <2>1, <2>2 DEF Stores, Ring, at
<1>10. Streams(n, d, from, s, l)
  <2>1. PICK b : b = x.obuff
    OBVIOUS
  <2>2. Streams(n, b, from, s, m) /\ Stores(n, b, from, m, c, d) /\ Adds(m, 1, l) /\ c = s[l]
    BY <1>2, <1>4, <1>5, <1>7, <1>9, <2>1
  <2> HIDE DEF d
  <2>3. QED  BY ONLY <2>2, n \in Nat \ {0}, from \in Int, m \in Nat, l \in Nat, StreamPuts
<1>11. u.ocnt = t.ocnt + (k + 1) - j
  BY <1>1, <1>6, <1>7
<1>12. Streams(OBUFLEN, u.obuff, t.otail, s, t.ocnt + (k + 1))
  BY <1>2, <1>4, <1>6, <1>10
<1>13. QED  BY <1>6, <1>7, <1>11, <1>12 DEF Put, s, u

LEMMA RestParts ==
  ASSUME NEW text \in Seq(Codes), NEW k \in 0 .. Len(text), NEW r, r = SubSeq(text, k + 1, Len(text)), r # <<>>
  PROVE  /\ k < Len(text) /\ Head(r) = text[k + 1] /\ Tail(r) = SubSeq(text, (k + 1) + 1, Len(text))
         /\ Len(r) = 1 => Tail(r) = <<>>
<1>1. k \in Nat /\ Len(text) \in Nat /\ k <= Len(text)
  OBVIOUS
<1>2. r \in Seq(Codes) /\ Len(r) = Len(text) - k /\ \A i \in 1 .. Len(r) : r[i] = text[k + i]
  BY <1>1
<1>3. Len(r) # 0 /\ k < Len(text) /\ 1 \in 1 .. Len(r)
  BY <1>1, <1>2
<1>4. Head(r) = text[k + 1]
  BY <1>2, <1>3
<1> DEFINE x == Tail(r)
           y == SubSeq(text, (k + 1) + 1, Len(text))
<1>5. x \in Seq(Codes) /\ Len(x) = Len(r) - 1 /\ \A i \in 1 .. Len(x) : x[i] = r[i + 1]
  BY <1>2, <1>3
<1>6. y \in Seq(Codes) /\ Len(y) = Len(text) - (k + 1) /\ \A i \in 1 .. Len(y) : y[i] = text[(k + 1) + i]
  BY <1>1, <1>3
<1> HIDE DEF x, y
<1>7. ASSUME NEW i \in 1 .. Len(x) PROVE x[i] = y[i]
  <2>1. i \in 1 .. Len(y) /\ i + 1 \in 1 .. Len(r) /\ k + (i + 1) = (k + 1) + i
    BY <1>1, <1>2, <1>5, <1>6
  <2>2. QED  BY <1>2, <1>5, <1>6, <2>1
<1>8. Len(x) = Len(y)
  BY <1>1, <1>2, <1>5, <1>6
<1>9. x = y
  BY ONLY <1>5, <1>6, <1>7, <1>8, SameList
<1>10. Len(r) = 1 => x = <<>>
  BY <1>5
<1>11. QED  BY <1>3, <1>4, <1>9, <1>10 DEF x, y

LEMMA PutOneOn ==
  ASSUME NEW t, OutGood(t), NEW text \in Seq(Codes), NEW w \in Puts, OutGood(w.t), On(t, text, w), w.rest # <<>>
  PROVE  On(t, text, PutOne(w))
<1> DEFINE c == Head(w.rest)
           x == Stored(w.t, c)
           u == Ttyostart(x)
           v == PutOne(w)
<1>1. PICK k \in 0 .. Len(text), j \in 0 .. 1 :
        w.rest = SubSeq(text, k + 1, Len(text)) /\ Put(t, text, k, j, w.t) /\ (j = 1 => w.t.txint)
  BY DEF On
<1>2. /\ k < Len(text) /\ c = text[k + 1] /\ Tail(w.rest) = SubSeq(text, (k + 1) + 1, Len(text))
      /\ Len(w.rest) = 1 => Tail(w.rest) = <<>>
  BY <1>1, RestParts
<1>3. k \in Nat /\ k + 1 \in 0 .. Len(text) /\ k + 1 \in Nat /\ c \in Codes
  BY <1>2
<1> HIDE DEF c
<1>4. Put(t, text, k + 1, j, x) /\ x.txint = w.t.txint
  BY <1>1, <1>2, <1>3, StoredPuts
<1>5. OutGood(x)
  BY <1>3, StoredGood
<1>6. v.t = u /\ v.rest = Tail(w.rest) /\ (v.op = "user" => Len(w.rest) = 1)
  BY DEF PutOne, c
<1> HIDE DEF x, v
<1>7. Leaves(x, u)
  BY <1>5, StartLeaves
<1> HIDE DEF u
<1>8. PICK i \in 0 .. 1 : Put(t, text, k + 1, i, u) /\ (i = 1 => u.txint)
  BY <1>1, <1>3, <1>4, <1>7, PutLeaves
<1>9. v.rest = SubSeq(text, (k + 1) + 1, Len(text)) /\ (v.op = "user" => v.rest = <<>>)
  BY <1>2, <1>6
<1>10. On(t, text, v)
  BY <1>3, <1>6, <1>8, <1>9 DEF On
<1>11. QED  BY <1>10 DEF v

LEMMA PutNextOn ==
  ASSUME NEW t, OutGood(t), NEW text \in Seq(Codes), NEW s, NEW p \in Procs, NEW m \in Int, NEW w,
         PutGood(s, p, m, w), On(t, text, w)
  PROVE  On(t, text, PutNext(w, p))
<1>1. w \in Puts /\ OutGood(w.t) /\ (w.op # "user" => w.rest # <<>>)
      /\ (p \in ToSet(w.t.osem.q) => w.op = "put")
  BY DEF PutGood
<1>2. CASE w.op # "go"
  BY <1>2 DEF PutNext
<1>3. CASE w.op = "go"
  <2> DEFINE x == Waiting(w, p)
  <2>1. x \in Puts /\ OutGood(x.t) /\ x.rest = w.rest /\ x.op = w.op
    BY <1>1, <1>3, WaitingGood
  <2>2. x.t.obuff = w.t.obuff /\ x.t.otail = w.t.otail /\ x.t.ocnt = w.t.ocnt /\ x.t.txint = w.t.txint
    BY <1>1 DEF Waiting, Puts, Ttys
  <2> HIDE DEF x
  <2>3. On(t, text, x)
    BY <2>1, <2>2 DEF On, Put
  <2>4. CASE Blocks(w.t.osem)
    <3> DEFINE v == [x EXCEPT !.op = "put"]
    <3>1. PutNext(w, p) = v
      BY <1>3, <2>4 DEF PutNext, x
    <3>2. v.t = x.t /\ v.rest = x.rest /\ v.op = "put"
      BY <2>1 DEF Puts
    <3> HIDE DEF v
    <3>3. QED  BY <2>3, <3>1, <3>2 DEF On
  <2>5. CASE ~Blocks(w.t.osem)
    <3>1. PutNext(w, p) = PutOne(x)
      BY <1>3, <2>5 DEF PutNext, x
    <3>2. x.rest # <<>>
      BY <1>1, <1>3, <2>1
    <3>3. QED  BY <2>1, <2>3, <3>1, <3>2, PutOneOn
  <2>6. QED  BY <2>4, <2>5
<1>4. QED  BY <1>2, <1>3

\* What each round of the loop keeps, the loop keeps.
LEMMA PutAllIn ==
  ASSUME NEW p, NEW S, NEW w \in S, Len(w.rest) \in Nat, \A u \in S : PutNext(u, p) \in S
  PROVE  PutAll(w, p) \in S
<1> DEFINE n == Len(w.rest)
           step(u) == PutNext(u, p)
           g == [u \in S |-> step(u)]
           Loop(f) == f = [i \in 0 .. n |-> IF i = 0 THEN w ELSE step(f[i-1])]
<1>1. w \in S /\ n \in Nat
  OBVIOUS
<1>2. g \in [S -> S] /\ \A u \in S : g[u] = step(u)
  OBVIOUS
<1> HIDE DEF g, Loop, step, n
<1>3. PICK f : Iterates(f, n, S, g, w)
  BY ONLY <1>1, <1>2, Iterated
<1>4. f \in [0 .. n -> S] /\ f[0] = w /\ \A i \in 1 .. n : f[i] = g[f[i-1]]
  BY ONLY <1>3 DEF Iterates
<1>5. \A i \in 0 .. n : f[i] = IF i = 0 THEN w ELSE step(f[i-1])
  <2>1. TAKE i \in 0 .. n
  <2>2. CASE i # 0
    <3>1. i - 1 \in 0 .. n /\ i \in 1 .. n
      BY <1>1, <2>2
    <3>2. f[i-1] \in S
      BY <1>4, <3>1
    <3>3. QED  BY <1>2, <1>4, <2>2, <3>1, <3>2
  <2>3. QED  BY <1>4, <2>2
<1>6. Loop(f)
  BY ONLY <1>4, <1>5 DEF Loop
<1> DEFINE r == CHOOSE x : Loop(x)
<1>7. Loop(r)
  BY <1>6
<1>8. PutAll(w, p) = r[n]
  BY DEF PutAll, Loop, step, n
<1> HIDE DEF r
<1>9. r[0] = w /\ \A k \in 1 .. n : r[k] = step(r[k-1])
  <2>1. 0 \in 0 .. n /\ \A k \in 1 .. n : k \in 0 .. n /\ k # 0
    BY <1>1
  <2>2. QED  BY ONLY <1>7, <2>1 DEF Loop
<1>10. \A k \in 0 .. n : r[k] \in S
  <2>1. \A k \in 1 .. n : r[k-1] \in S => r[k] = g[r[k-1]]
    BY <1>2, <1>9
  <2>2. QED  BY ONLY <1>1, <1>2, <1>9, <2>1, LoopIn
<1>11. n \in 0 .. n
  BY <1>1
<1>12. QED  BY <1>8, <1>10, <1>11

LEMMA PutAllOn ==
  ASSUME NEW t, OutGood(t), NEW text \in Seq(Codes), NEW s, NEW p \in Procs, NEW m \in Int, NEW w,
         PutGood(s, p, m, w), On(t, text, w)
  PROVE  On(t, text, PutAll(w, p))
<1> DEFINE S == {u \in Puts : PutGood(s, p, m, u) /\ On(t, text, u)}
<1>1. w \in S /\ Len(w.rest) \in Nat
  BY DEF PutGood, Puts
<1>2. ASSUME NEW u \in S PROVE PutNext(u, p) \in S
  <2>1. PutGood(s, p, m, u) /\ On(t, text, u)
    OBVIOUS
  <2> DEFINE v == PutNext(u, p)
  <2>2. PutGood(s, p, m, v)
    BY <2>1, PutNextGood
  <2>3. On(t, text, v)
    BY <2>1, PutNextOn
  <2> HIDE DEF v
  <2>4. v \in S
    BY <2>2, <2>3 DEF PutGood
  <2>5. QED  BY <2>4 DEF v
<1> HIDE DEF S
<1>3. PutAll(w, p) \in S
  BY <1>1, <1>2, PutAllIn
<1>4. QED  BY <1>3 DEF S

\* What the loop leaves is what it was given, in its order, when it did not become too much.
LEMMA OnHands ==
  ASSUME NEW t, OutGood(t), NEW text \in Seq(Codes), NEW w, OutGood(w.t), On(t, text, w), w.t.ocnt <= OBUFLEN
  PROVE  Hands(OutOf(t), text, OutOf(w.t), w.rest)
<1> DEFINE o == OutOf(t)
           s == o \o text
           u == w.t
<1>1. PICK k \in 0 .. Len(text), j \in 0 .. 1 :
        w.rest = SubSeq(text, k + 1, Len(text)) /\ Put(t, text, k, j, w.t) /\ (j = 1 => w.t.txint)
  BY DEF On
<1>2. /\ u.otail = (t.otail + j) % OBUFLEN /\ u.ocnt = t.ocnt + k - j
      /\ Streams(OBUFLEN, u.obuff, t.otail, s, t.ocnt + k)
  BY <1>1 DEF Put
<1>3. o \in Seq(Codes) /\ Len(o) = t.ocnt /\ k \in Nat /\ t.ocnt \in Nat /\ Len(text) \in Nat
  BY OutTyped, OutPlaces
<1>4. s \in Seq(Codes) /\ Len(s) = t.ocnt + Len(text)
  BY <1>3, JoinedTyped
<1>0. PICK b : b = u.obuff
  OBVIOUS
<1>5. PICK n \in Nat \ {0}, from \in Int, to \in Int, e \in Nat, l \in Nat, i \in Nat :
        /\ n = OBUFLEN /\ from = t.otail /\ to = u.otail /\ e = u.ocnt /\ l = t.ocnt + k /\ i = j /\ b = u.obuff
        /\ Ring(n, b)
  <2>1. /\ OBUFLEN \in Nat \ {0} /\ t.otail \in Int /\ u.otail \in Int /\ u.ocnt \in Nat /\ t.ocnt + k \in Nat /\ j \in Nat
        /\ Ring(OBUFLEN, u.obuff)
    BY <1>3, OutPlaces
  <2>2. QED  BY ONLY <1>0, <2>1
<1> HIDE DEF o, s
<1>6. OutOf(u) = SubSeq(s, j + 1, t.ocnt + k)
  <2>1. Ring(n, b) /\ l <= Len(s) /\ Streams(n, b, from, s, l) /\ Adds(i, e, l) /\ e <= n /\ to = (from + i) % n
    BY <1>2, <1>3, <1>4, <1>5, SMTT(20) DEF Adds
  <2>2. Window(b, n, to, e) = SubSeq(s, i + 1, l)
    BY ONLY <1>4, <2>1, n \in Nat \ {0}, from \in Int, l \in Nat, i \in Nat, e \in Nat, to \in Int, StreamIs
  <2>3. QED  BY <1>5, <2>2 DEF OutOf
<1> DEFINE a == SubSeq(text, 1, k)
           all == o \o a
<1>7. a \in Seq(Codes) /\ Len(a) = k /\ \A h \in 1 .. k : a[h] = text[h]
  BY <1>3
<1> HIDE DEF a
<1>8. /\ all \in Seq(Codes) /\ Len(all) = t.ocnt + k
      /\ (\A h \in 1 .. t.ocnt : all[h] = o[h]) /\ \A h \in 1 .. k : all[t.ocnt + h] = a[h]
  <2>1. PICK q \in Seq(Codes), r \in Seq(Codes) : q = o /\ r = a
    BY <1>3, <1>7
  <2>2. /\ q \o r \in Seq(Codes) /\ Len(q \o r) = Len(q) + Len(r)
        /\ (\A h \in 1 .. Len(q) : (q \o r)[h] = q[h]) /\ \A h \in 1 .. Len(r) : (q \o r)[Len(q) + h] = r[h]
    BY ONLY q \in Seq(Codes), r \in Seq(Codes), JoinedTyped
  <2>3. /\ o \o a \in Seq(Codes) /\ Len(o \o a) = Len(o) + Len(a)
        /\ (\A h \in 1 .. Len(o) : (o \o a)[h] = o[h]) /\ \A h \in 1 .. Len(a) : (o \o a)[Len(o) + h] = a[h]
    BY ONLY <2>1, <2>2
  <2>4. Len(o) = t.ocnt /\ Len(a) = k
    BY <1>3, <1>7
  <2>5. QED  BY ONLY <2>3, <2>4
<1>9. (\A h \in 1 .. t.ocnt : s[h] = o[h]) /\ \A h \in 1 .. Len(text) : s[t.ocnt + h] = text[h]
  BY <1>3, JoinedTyped DEF s
<1> HIDE DEF all
<1>10. \A h \in 1 .. Len(all) : all[h] = s[h]
  <2>1. TAKE h \in 1 .. Len(all)
  <2>2. CASE h <= t.ocnt
    BY <1>3, <1>8, <1>9, <2>2
  <2>3. CASE h > t.ocnt
    <3>1. PICK g \in Nat : g = h - t.ocnt
      BY <1>3, <1>8, <2>3
    <3>2. g \in 1 .. k /\ g \in 1 .. Len(text) /\ h = t.ocnt + g
      BY <1>3, <1>8, <2>3, <3>1
    <3>3. QED  BY <1>7, <1>8, <1>9, <3>2
  <2>4. QED  BY <1>3, <1>8, <2>2, <2>3
<1> DEFINE x == SubSeq(s, j + 1, t.ocnt + k)
           y == SubSeq(all, j + 1, Len(all))
<1>11. x = y
  <2>1. j + 1 \in 1 .. t.ocnt + k + 1
    BY <1>2, <1>3, <1>5
  <2>2. x \in Seq(Codes) /\ Len(x) = t.ocnt + k - j /\ \A h \in 1 .. Len(x) : x[h] = s[j + h]
    <3>1. i \in Nat /\ l \in Nat /\ i <= l /\ l <= Len(s) /\ s \in Seq(Codes) /\ Len(s) \in Nat
      BY <1>3, <1>4, <1>5, <2>1
    <3>2. SubSeq(s, i + 1, l) \in Seq(Codes) /\ Len(SubSeq(s, i + 1, l)) = l - i
          /\ \A h \in 1 .. l - i : SubSeq(s, i + 1, l)[h] = s[i + h]
      BY ONLY <3>1, SMTT(20)
    <3>3. l = t.ocnt + k /\ i = j
      BY <1>5
    <3>4. l - i = t.ocnt + k - j
      <4>1. t.ocnt \in Int /\ k \in Int /\ j \in Int /\ l \in Int /\ i \in Int
        BY <1>3
      <4>2. QED  BY ONLY <3>3, <4>1
    <3>5. /\ SubSeq(s, j + 1, t.ocnt + k) \in Seq(Codes) /\ Len(SubSeq(s, j + 1, t.ocnt + k)) = t.ocnt + k - j
          /\ \A h \in 1 .. Len(SubSeq(s, j + 1, t.ocnt + k)) : SubSeq(s, j + 1, t.ocnt + k)[h] = s[j + h]
      BY ONLY <3>2, <3>3, <3>4
    <3>6. QED  BY ONLY <3>5
  <2>3. y \in Seq(Codes) /\ Len(y) = t.ocnt + k - j /\ \A h \in 1 .. Len(y) : y[h] = all[j + h]
    BY <1>3, <1>8, <2>1
  <2> HIDE DEF x, y
  <2>4. ASSUME NEW h \in 1 .. Len(x) PROVE x[h] = y[h]
    <3>1. j + h \in 1 .. Len(all) /\ h \in 1 .. Len(y)
      BY <1>3, <1>8, <2>1, <2>2, <2>3
    <3>2. QED  BY <1>10, <2>2, <2>3, <3>1
  <2>5. QED  BY ONLY <2>2, <2>3, <2>4, SameList
<1> HIDE DEF x, y
<1>12. OutOf(u) = SubSeq(all, j + 1, Len(all)) /\ w.rest = SubSeq(text, k + 1, Len(text))
  BY <1>1, <1>6, <1>11 DEF x, y
<1>13. QED
  <2>1. \E i1 \in 0 .. Len(text), j1 \in 0 .. 1 :
          w.rest = SubSeq(text, i1 + 1, Len(text))
          /\ OutOf(u) = SubSeq(o \o SubSeq(text, 1, i1), j1 + 1, Len(o \o SubSeq(text, 1, i1)))
    BY ONLY <1>12, k \in 0 .. Len(text), j \in 0 .. 1 DEF all, a
  <2>2. QED  BY ONLY <2>1 DEF Hands, o

------------------------------------------------------------------------------
(* A writer's step hands over the first characters of what the process has left. *)

\* What a process may hand over: what it has left, or a new text.
Writable(f, p) == {f[p].rest} \cup (IF f[p].rest = <<>> THEN {Mapped(t) : t \in Texts} ELSE {})

LEMMA HandsSends ==
  ASSUME NEW p \in Procs, cont \in [Procs -> Conts], NEW d, cont' = [cont EXCEPT ![p] = d],
         NEW text, text \in Writable(cont, p), Hands(OutOf(tty), text, OutOf(tty'), d.rest)
  PROVE  Sending(OutOf(tty), Rests(cont), OutOf(tty'), Rests(cont'))
<1> DEFINE f == Rests(cont)
           g == Rests(cont')
<1>1. f[p] = cont[p].rest
  BY DEF Rests
<1>2. g = [f EXCEPT ![p] = d.rest]
  BY DEF Rests
<1>3. text \in {f[p]} \cup (IF f[p] = <<>> THEN {Mapped(t) : t \in Texts} ELSE {})
  BY <1>1 DEF Writable
<1> HIDE DEF f, g
<1>4. Sending(OutOf(tty), f, OutOf(tty'), g)
  BY <1>2, <1>3 DEF Sending
<1>5. QED  BY <1>4 DEF f, g

LEMMA GoesSends ==
  ASSUME TtyInv, NEW p \in Procs, NEW c \in Conts, NEW text \in Seq(Codes), text \in Writable(cont, p),
         NEW m \in Int, NEW s, NEW w, PutGood(s, p, m, w), On(tty, text, w), Goes(p, w, c), tty'.ocnt <= OBUFLEN
  PROVE  Sending(OutOf(tty), Rests(cont), OutOf(tty'), Rests(cont'))
<1> DEFINE op == IF w.op = "put" THEN "put" ELSE "more"
           d == IF w.op = "user" THEN Idle ELSE [c EXCEPT !.op = op, !.rest = w.rest]
<1>1. OutGood(tty) /\ cont \in [Procs -> Conts] /\ OutGood(w.t) /\ w \in Puts
  BY InvFacts DEF PutGood
<1>2. tty' = w.t /\ cont' = [cont EXCEPT ![p] = d]
  BY DEF Goes, Then
<1>3. d.rest = w.rest
  <2>1. CASE w.op = "user"
    BY <2>1, IdleGood DEF On
  <2>2. CASE w.op # "user"
    BY <2>2 DEF Conts
  <2>3. QED  BY <2>1, <2>2
<1> HIDE DEF d
<1>4. Hands(OutOf(tty), text, OutOf(tty'), w.rest)
  <2>1. w.t.ocnt <= OBUFLEN
    BY <1>2
  <2>2. Hands(OutOf(tty), text, OutOf(w.t), w.rest)
    BY <1>1, <2>1, OnHands
  <2>3. QED  BY <1>2, <2>2
<1>5. QED  BY <1>1, <1>2, <1>3, <1>4, HandsSends

LEMMA SelfLeaves ==
  ASSUME NEW t
  PROVE  Leaves(t, t)
BY DEF Leaves

LEMMA PutMoreSends ==
  ASSUME TtyInv, NEW p \in Procs, PutMore(p), tty'.ocnt <= OBUFLEN
  PROVE  Sending(OutOf(tty), Rests(cont), OutOf(tty'), Rests(cont'))
<1> DEFINE rest == cont[p].rest
           m == OutSum(tty) + One(cont[p].op, {"put"})
           v == Writes(rest)
           u == PutNext(v, p)
           w == GoesOn(p, u)
<1>1. cont[p].op = "more" /\ Goes(p, w, cont[p])
  BY DEF PutMore, At
<1>2. rest \in Seq(Codes) /\ rest # <<>> /\ cont[p] \in Conts /\ OutGood(tty) /\ rest \in Writable(cont, p)
  BY <1>1, InvFacts DEF ContGood, Writable
<1>3. m \in Int /\ m = OutSum(tty) + One(cont[p].op, {"put"})
  BY UnitsTyped
<1> HIDE DEF m
<1>4. PutGood(tty, p, m, v)
  BY <1>1, <1>2, <1>3, WritesGood
<1>5. On(tty, rest, v)
  <2>1. v.t = tty /\ v.rest = rest /\ v.op = "go"
    BY DEF Writes
  <2> HIDE DEF v
  <2>2. QED  BY <1>2, <2>1, SelfLeaves, BeginsOn
<1> HIDE DEF v, rest
<1>6. PutGood(tty, p, m, u) /\ On(tty, rest, u)
  BY <1>2, <1>3, <1>4, <1>5, PutNextGood, PutNextOn
<1> HIDE DEF u
<1>7. PutGood(tty, p, m, w) /\ On(tty, rest, w)
  BY <1>2, <1>3, <1>6, PutAllGood, PutAllOn DEF GoesOn
<1> HIDE DEF w
<1>8. QED  BY <1>1, <1>2, <1>3, <1>7, GoesSends

LEMMA FinishPutSends ==
  ASSUME TtyInv, NEW p \in Procs, FinishPut(p), tty'.ocnt <= OBUFLEN
  PROVE  Sending(OutOf(tty), Rests(cont), OutOf(tty'), Rests(cont'))
<1> DEFINE rest == cont[p].rest
           m == OutSum(tty) + One(cont[p].op, {"put"})
           v == Writes(rest)
           u == PutOne(v)
           w == GoesOn(p, u)
<1>1. cont[p].op = "put" /\ ~Contains(tty.osem.q, p) /\ Goes(p, w, cont[p])
  BY DEF FinishPut, At
<1>2. rest \in Seq(Codes) /\ rest # <<>> /\ cont[p] \in Conts /\ OutGood(tty) /\ rest \in Writable(cont, p)
  BY <1>1, InvFacts DEF ContGood, Writable
<1>3. m \in Int /\ m = OutSum(tty) + One(cont[p].op, {"put"})
  BY UnitsTyped
<1> HIDE DEF m
<1>4. v \in Puts /\ PutGood(tty, p, m, u)
  BY <1>1, <1>3, WaitedGood
<1>5. v.t = tty /\ v.rest = rest /\ v.op = "go"
  BY DEF Writes
<1> HIDE DEF v, rest
<1>6. On(tty, rest, v)
  BY <1>2, <1>5, SelfLeaves, BeginsOn
<1>7. On(tty, rest, u)
  BY <1>2, <1>4, <1>5, <1>6, PutOneOn
<1> HIDE DEF u
<1>8. PutGood(tty, p, m, w) /\ On(tty, rest, w)
  BY <1>2, <1>3, <1>4, <1>7, PutAllGood, PutAllOn DEF GoesOn
<1> HIDE DEF w
<1>9. QED  BY <1>1, <1>2, <1>3, <1>8, GoesSends

LEMMA FinishWriteSends ==
  ASSUME TtyInv, NEW p \in Procs, FinishWrite(p), tty'.ocnt <= OBUFLEN
  PROVE  Sending(OutOf(tty), Rests(cont), OutOf(tty'), Rests(cont'))
<1> DEFINE rest == cont[p].rest
           m == OutSum(tty) + One(cont[p].op, {"put"})
           s == Ttyostart(tty)
           go == WroteFrom(p, "go")
           end == WroteFrom(p, "user")
           w == Wrote(p)
<1>1. cont[p].op = "wrote" /\ Goes(p, w, cont[p])
  BY FinishWriteIs
<1>2. rest \in Seq(Codes) /\ cont[p] \in Conts /\ OutGood(tty) /\ rest \in Writable(cont, p)
  BY InvFacts DEF Writable
<1>3. m \in Int /\ m = OutSum(tty) + One(cont[p].op, {"put"})
  BY UnitsTyped
<1> HIDE DEF m
<1>4. PutGood(s, p, m, end) /\ (rest # <<>> => PutGood(s, p, m, go))
  BY <1>1, <1>3, WroteGood
<1>5. Leaves(tty, s) /\ OutGood(s)
  BY <1>2, StartLeaves
<1>6. go.t = s /\ go.rest = rest /\ go.op = "go" /\ end.t = s /\ end.rest = rest /\ end.op = "user"
  BY DEF WroteFrom
<1>7. w = IF rest = <<>> THEN end ELSE IF s.osem.q # tty.osem.q THEN go ELSE PutAll(go, p)
  BY DEF Wrote
<1> HIDE DEF go, end, s, rest, w
<1>8. On(tty, rest, go) /\ (rest = <<>> => On(tty, rest, end))
  BY <1>2, <1>5, <1>6, BeginsOn
<1>9. PutGood(s, p, m, w) /\ On(tty, rest, w)
  <2>1. CASE rest = <<>>
    BY <1>4, <1>7, <1>8, <2>1
  <2>2. CASE rest # <<>>
    <3>1. PutGood(s, p, m, PutAll(go, p)) /\ On(tty, rest, PutAll(go, p))
      BY <1>2, <1>3, <1>4, <1>8, <2>2, PutAllGood, PutAllOn
    <3>2. QED  BY <1>4, <1>7, <1>8, <2>2, <3>1
  <2>3. QED  BY <2>1, <2>2
<1>10. QED  BY <1>1, <1>2, <1>3, <1>9, GoesSends

LEMMA TtyputcSends ==
  ASSUME TtyInv, NEW p \in Procs, NEW text \in Texts, Len(text) = 1, Ttyputc(p, text[1]), tty'.ocnt <= OBUFLEN
  PROVE  Sending(OutOf(tty), Rests(cont), OutOf(tty'), Rests(cont'))
<1> DEFINE rest == Mapped(text)
           m == OutSum(tty) + One(cont[p].op, {"put"})
           c == [Idle EXCEPT !.n = 1]
           v == Writes(rest)
           w == PutNext(v, p)
<1>1. text \in Seq(Codes) /\ text # <<>> /\ text = <<text[1]>>
  <2>1. text \in Seq(Codes)
    BY TextTyped
  <2>2. QED  BY <2>1
<1>2. cont[p].op = "user" /\ cont[p].rest = <<>> /\ Goes(p, w, c)
  BY <1>1, IdleGood DEF Ttyputc, Call
<1>3. rest \in Seq(Codes) /\ rest # <<>>
  BY <1>1, MappedTyped
<1>4. rest \in Writable(cont, p)
  BY <1>2 DEF Writable
<1>5. m \in Int /\ m = OutSum(tty) + One(cont[p].op, {"put"})
  BY UnitsTyped
<1>6. c \in Conts
  <2>1. 1 \in Nat
    OBVIOUS
  <2>2. QED  BY <2>1, IdleGood DEF Conts
<1> HIDE DEF rest, c, m
<1>7. PutGood(tty, p, m, v)
  BY <1>2, <1>3, <1>5, WritesGood
<1>8. OutGood(tty)
  BY InvFacts
<1>9. On(tty, rest, v)
  <2>1. v.t = tty /\ v.rest = rest /\ v.op = "go"
    BY DEF Writes
  <2> HIDE DEF v
  <2>2. QED  BY <1>3, <1>8, <2>1, SelfLeaves, BeginsOn
<1> HIDE DEF v
<1>10. PutGood(tty, p, m, w) /\ On(tty, rest, w)
  BY <1>3, <1>5, <1>7, <1>8, <1>9, PutNextGood, PutNextOn
<1> HIDE DEF w
<1>11. QED  BY <1>2, <1>3, <1>4, <1>5, <1>6, <1>10, GoesSends

\* A text is mapped part by part.
LEMMA MappedParts ==
  ASSUME NEW text \in Seq(Codes), NEW k \in 0 .. Len(text)
  PROVE  Mapped(text) = Mapped(SubSeq(text, 1, k)) \o Mapped(SubSeq(text, k + 1, Len(text)))
<1> DEFINE n == Len(text)
           r == SubSeq(text, k + 1, n)
           e == n - k
           M(i) == Mapped(SubSeq(text, 1, i))
           R(i) == Mapped(SubSeq(r, 1, i))
           T == {i \in 0 .. e : M(k + i) = M(k) \o R(i)}
<1>1. n \in Nat /\ k \in Nat /\ e \in Nat /\ SubSeq(text, 1, n) = text
  OBVIOUS
<1>2. r \in Seq(Codes) /\ Len(r) = e /\ \A i \in 1 .. e : r[i] = text[k + i]
  <2>1. k + 1 \in Int /\ n \in Int /\ k + 1 <= n + 1 /\ 1 <= k + 1 /\ n <= Len(text)
    BY ONLY <1>1, k \in 0 .. n DEF n
  <2>2. r \in Seq(Codes) /\ Len(r) = n - (k + 1) + 1
    BY ONLY <2>1, text \in Seq(Codes) DEF r
  <2>3. Len(r) = e
    <3>1. n \in Int /\ k \in Int
      BY <1>1
    <3> HIDE DEF n, r
    <3>2. n - (k + 1) + 1 = e
      BY ONLY <3>1 DEF e
    <3>3. QED  BY ONLY <2>2, <3>2
  <2>4. \A i \in 1 .. e : r[i] = text[k + i]
    <3>1. TAKE i \in 1 .. e
    <3>2. i \in Int /\ 1 <= i /\ i <= n - (k + 1) + 1 /\ k + i = (k + 1) + i - 1
      BY ONLY <1>1, i \in 1 .. e DEF e
    <3>3. QED  BY <2>1, <3>2
  <2>5. QED  BY <2>2, <2>3, <2>4
<1>3. SubSeq(r, 1, e) = r
  BY <1>2
<1> HIDE DEF r
<1>4. /\ \A i \in 0 .. n : M(i) \in Seq(Codes)
      /\ \A i \in 0 .. e : R(i) \in Seq(Codes)
      /\ R(0) = <<>>
  BY <1>2, MappedTyped
<1>5. \A i \in 1 .. n : M(i) = M(i - 1) \o Piece(text[i])
  <2>1. TAKE i \in 1 .. n
  <2>2. i - 1 \in 0 .. n
    BY <1>1
  <2>3. QED  BY <1>4, <2>2, MappedNext
<1>6. \A i \in 1 .. e : R(i) = R(i - 1) \o Piece(r[i])
  <2>1. TAKE i \in 1 .. e
  <2>2. i - 1 \in 0 .. e /\ i \in 1 .. Len(r)
    BY <1>1, <1>2
  <2>3. QED  BY <1>2, <1>4, <2>2, MappedNext
<1>7. \A i \in 1 .. e : Piece(r[i]) \in Seq(Codes)
  <2>1. TAKE i \in 1 .. e
  <2>2. r[i] \in Codes
    BY <1>2
  <2>3. QED  BY <2>2, PieceTyped
<1>8. Mapped(text) = M(n)
  BY <1>1
<1>9. Mapped(r) = R(e)
  BY <1>3
<1> HIDE DEF n, e, M, R
<1>10. 0 \in T
  <2>1. k \in 0 .. n /\ k + 0 = k /\ 0 \in 0 .. e
    BY <1>1 DEF n
  <2>2. M(k) \o <<>> = M(k)
    BY <1>4, <2>1
  <2>3. QED  BY <1>4, <2>1, <2>2
<1>11. ASSUME NEW i \in 1 .. e, i - 1 \in T PROVE i \in T
  <2>1. i \in 0 .. e /\ i - 1 \in 0 .. e /\ k + i \in 1 .. n /\ (k + i) - 1 = k + (i - 1) /\ k \in 0 .. n
    BY <1>1 DEF e
  <2>2. M(k + i) = M(k + (i - 1)) \o Piece(text[k + i])
    BY <1>5, <2>1
  <2>3. M(k + (i - 1)) = M(k) \o R(i - 1)
    BY <1>11
  <2>4. R(i) = R(i - 1) \o Piece(text[k + i])
    BY <1>2, <1>6
  <2> DEFINE x == M(k)
             y == R(i - 1)
             z == Piece(text[k + i])
  <2>5. x \in Seq(Codes) /\ y \in Seq(Codes) /\ z \in Seq(Codes)
    BY <1>2, <1>4, <1>7, <2>1
  <2> HIDE DEF x, y, z
  <2>6. (x \o y) \o z = x \o (y \o z)
    BY ONLY <2>5
  <2>7. M(k + i) = M(k) \o R(i)
    BY <2>2, <2>3, <2>4, <2>6 DEF x, y, z
  <2>8. QED  BY <2>1, <2>7
<1>12. e \in T
  <2>1. e \in 0 .. e
    BY <1>1
  <2> HIDE DEF T
  <2>2. \A i \in 0 .. e : i \in T
    BY ONLY <1>1, <1>10, <1>11, UpTo
  <2>3. QED  BY <2>1, <2>2
<1>13. k + e = n
  BY <1>1 DEF e
<1>14. QED  BY <1>8, <1>9, <1>12, <1>13 DEF M, r, n

\* How far one place is behind another.
LEMMA SlotGap ==
  ASSUME NEW y \in Int, NEW z \in Int, NEW n \in Nat \ {0}
  PROVE  ((y % n) - (z % n)) % n = (y - z) % n
<1>1. PICK q \in Int, h \in Int : q = z \div n /\ h = z % n /\ z = n * q + h
  <2>1. z \div n \in Int /\ z % n \in Int /\ z = n * (z \div n) + (z % n)
    BY RoundTyped
  <2>2. QED  BY ONLY <2>1
<1>2. PICK e \in Int, f \in Int, g \in Int : e = 0 - h /\ f = y - h /\ g = y - z
  <2>1. 0 - h \in Int /\ y - h \in Int /\ y - z \in Int
    OBVIOUS
  <2>2. QED  BY ONLY <2>1
<1>3. ((y % n) + e) % n = (y + e) % n
  BY ONLY y \in Int, e \in Int, n \in Nat \ {0}, SlotSum
<1>4. f - g = n * q
  BY <1>1, <1>2
<1>5. (f - g) % n = 0
  BY ONLY <1>4, q \in Int, n \in Nat \ {0}, Multiple
<1>6. f % n = g % n
  BY ONLY <1>5, f \in Int, g \in Int, n \in Nat \ {0}, Residue
<1>7. (y % n) + e = (y % n) - h /\ y + e = f
  BY <1>2
<1>8. QED  BY ONLY <1>1, <1>2, <1>3, <1>6, <1>7

LEMMA SmallRound ==
  ASSUME NEW n \in Nat \ {0}, NEW x \in Int
  PROVE  (x \in 0 .. n - 1 => x % n = x) /\ (x \in -n .. -1 => x % n = x + n)
OBVIOUS

\* What writcopy stores, it stores behind the output there is.
LEMMA WritcopiedPuts ==
  ASSUME NEW t, OutGood(t), NEW put \in Seq(Codes), t.ocnt + Len(put) <= OBUFLEN
  PROVE  LET u == Writcopied(t, put) IN
         /\ u.otail = t.otail
         /\ \A i \in 1 .. t.ocnt : u.obuff[(t.otail + i - 1) % OBUFLEN] = t.obuff[(t.otail + i - 1) % OBUFLEN]
         /\ \A i \in 1 .. Len(put) : u.obuff[(t.otail + (t.ocnt + i) - 1) % OBUFLEN] = put[i]
<1>0. PICK b : b = t.obuff
  OBVIOUS
<1>1. PICK n \in Nat \ {0}, from \in Int, a \in Nat, h \in Int, l \in Nat :
        /\ n = OBUFLEN /\ from = t.otail /\ a = t.ocnt /\ h = t.ohead /\ l = Len(put) /\ b = t.obuff
        /\ b \in [0 .. n - 1 -> Codes] /\ t \in Ttys
  <2>1. /\ OBUFLEN \in Nat \ {0} /\ t.otail \in Int /\ t.ocnt \in Nat /\ t.ohead \in Int /\ Len(put) \in Nat
        /\ t.obuff \in [0 .. OBUFLEN - 1 -> Codes] /\ t \in Ttys
    BY OutPlaces
  <2>2. QED  BY ONLY <1>0, <2>1
<1>2. a + l <= n
  BY <1>1
<1> DEFINE at(i) == 1 + ((i - h) % n)
           d == [i \in 0 .. n - 1 |-> IF at(i) <= l THEN put[at(i)] ELSE b[i]]
<1>3. Writcopied(t, put).otail = t.otail /\ Writcopied(t, put).obuff = d
  BY <1>1 DEF Writcopied, Ttys
<1>4. h = (from + a) % n
  <2>1. t.otail = (t.otail + 0) % OBUFLEN /\ t.ocnt = t.ocnt - 0
    <3>1. t.otail \in 0 .. OBUFLEN - 1 /\ t.ocnt \in Nat /\ OBUFLEN \in Nat \ {0}
      BY OutPlaces
    <3>2. QED  BY ONLY <3>1, SMTT(20)
  <2>2. 0 \in Int /\ t.ocnt \in Int
    BY <1>1
  <2>3. t.ohead = (t.otail + t.ocnt) % OBUFLEN
    BY <2>1, <2>2, OheadSlot
  <2>4. QED  BY <1>1, <2>3
<1>5. ASSUME NEW x \in Int
      PROVE  /\ (from + x) % n \in 0 .. n - 1
             /\ (x \in a .. a + n - 1 => at((from + x) % n) = x - a + 1)
             /\ (x \in a - n .. a - 1 => at((from + x) % n) = x - a + n + 1)
  <2>1. PICK y \in Int, z \in Int, g \in Int : y = from + x /\ z = from + a /\ g = x - a
    BY <1>1
  <2>2. h = z % n
    BY ONLY <1>4, <2>1
  <2>3. ((y % n) - h) % n = (y - z) % n
    <3>1. ((y % n) - (z % n)) % n = (y - z) % n
      BY ONLY y \in Int, z \in Int, n \in Nat \ {0}, SlotGap
    <3>2. QED  BY ONLY <2>2, <3>1
  <2>4. y - z = g
    BY <2>1
  <2>5. at((from + x) % n) = 1 + (g % n)
    BY ONLY <2>1, <2>3, <2>4 DEF at
  <2>6. (g \in 0 .. n - 1 => g % n = g) /\ (g \in -n .. -1 => g % n = g + n)
    BY ONLY g \in Int, n \in Nat \ {0}, SmallRound
  <2>7. y % n \in 0 .. n - 1
    BY ONLY y \in Int, n \in Nat \ {0}, RoundTyped
  <2> HIDE DEF at
  <2>8. (from + x) % n \in 0 .. n - 1
    BY ONLY <2>1, <2>7
  <2>9. ASSUME x \in a .. a + n - 1 PROVE at((from + x) % n) = x - a + 1
    <3>1. g \in 0 .. n - 1
      BY <2>1, <2>9
    <3>2. g % n = g
      BY ONLY <2>6, <3>1
    <3>3. QED  BY ONLY <2>1, <2>5, <3>2, x \in Int, a \in Nat
  <2>10. ASSUME x \in a - n .. a - 1 PROVE at((from + x) % n) = x - a + n + 1
    <3>1. g \in -n .. -1
      BY <2>1, <2>10
    <3>2. g % n = g + n
      BY ONLY <2>6, <3>1
    <3>3. QED  BY ONLY <2>1, <2>5, <3>2, x \in Int, a \in Nat, n \in Nat \ {0}
  <2>11. QED  BY <2>8, <2>9, <2>10
<1> HIDE DEF at
<1>6. ASSUME NEW i \in 1 .. a PROVE d[(from + i - 1) % n] = b[(from + i - 1) % n]
  <2>1. PICK x \in Int : x = i - 1
    OBVIOUS
  <2>2. from + i - 1 = from + x /\ x \in a - n .. a - 1 /\ x - a + n + 1 > l
    BY <1>2, <2>1
  <2>3. (from + x) % n \in 0 .. n - 1 /\ at((from + x) % n) = x - a + n + 1
    BY <1>5, <2>2
  <2>4. ~(at((from + x) % n) <= l)
    <3>1. x - a + n + 1 \in Int
      OBVIOUS
    <3>2. QED  BY <2>2, <2>3, <3>1
  <2>5. QED  BY <2>2, <2>3, <2>4
<1>7. ASSUME NEW i \in 1 .. l PROVE d[(from + (a + i) - 1) % n] = put[i]
  <2>1. PICK x \in Int : x = a + i - 1
    OBVIOUS
  <2>2. from + (a + i) - 1 = from + x /\ x \in a .. a + n - 1 /\ x - a + 1 = i
    BY <1>2, <2>1
  <2>3. (from + x) % n \in 0 .. n - 1 /\ at((from + x) % n) = i
    BY <1>5, <2>2
  <2>4. i <= l
    OBVIOUS
  <2>5. QED  BY <2>2, <2>3, <2>4
<1> HIDE DEF d
<1>8. QED  BY <1>1, <1>3, <1>6, <1>7

LEMMA TtywriteSends ==
  ASSUME TtyInv, TtyInv', Fits, NEW p \in Procs, NEW text \in Texts, Ttywrite(p, text), tty'.ocnt <= OBUFLEN
  PROVE  Sending(OutOf(tty), Rests(cont), OutOf(tty'), Rests(cont'))
<1> DEFINE room == OBUFLEN - tty.ocnt
           k == Fitting(text, room)
           put == Mapped(SubSeq(text, 1, k))
           left == Mapped(SubSeq(text, k + 1, Len(text)))
           full == Mapped(text)
           t == Writcopied(tty, put)
           c == Do("wrote", left)
           w == [t |-> tty', rest |-> left, op |-> "go"]
<1>1. OutGood(tty) /\ tty.ocnt \in Nat /\ room \in Nat /\ cont \in [Procs -> Conts]
  <2>1. OutGood(tty) /\ cont \in [Procs -> Conts]
    BY InvFacts
  <2>2. tty.ocnt \in Nat
    BY <2>1, OutFacts
  <2>3. room \in Nat
    BY <2>2, Sizes DEF Fits
  <2>4. QED  BY <2>1, <2>2, <2>3
<1>2. text \in Seq(Codes) /\ Len(text) \in Nat
  BY TextTyped
<1>3. tty' = [t EXCEPT !.osem = WasReset(t.osem, OBUFLEN - t.ocnt)]
      /\ cont[p].op = "user" /\ cont[p].rest = <<>> /\ cont' = [cont EXCEPT ![p] = c]
  BY IdleGood DEF Ttywrite, Call, Then
<1> HIDE DEF room
<1>4. k \in 0 .. Len(text) /\ Len(put) <= room
  BY <1>1, <1>2, FittingFits
<1> HIDE DEF k
<1>5. put \in Seq(Codes) /\ left \in Seq(Codes)
  <2>1. \A j \in 0 .. Len(text) : Mapped(SubSeq(text, 1, j)) \in Seq(Codes)
    BY <1>2, MappedTyped
  <2>2. k + 1 \in 1 .. Len(text) + 1 /\ Len(text) \in 0 .. Len(text)
    BY <1>2, <1>4
  <2>3. SubSeq(text, k + 1, Len(text)) \in Seq(Codes)
    BY <1>2, <2>2, SubSeqList
  <2>4. QED  BY <1>4, <2>1, <2>3, MappedTyped
<1>6. full = put \o left
  BY <1>2, <1>4, MappedParts
<1>7. full \in Writable(cont, p)
  BY <1>3 DEF Writable
<1>8. c.rest = left
  BY <1>5, DoGood DEF Ops
<1> HIDE DEF put, left, full, c
<1>9. t \in Ttys /\ t.ocnt = tty.ocnt + Len(put)
  BY <1>1, <1>5, WritcopiedGood DEF OutGood
<1>10. /\ t.otail = tty.otail
       /\ \A i \in 1 .. tty.ocnt : t.obuff[(tty.otail + i - 1) % OBUFLEN] = tty.obuff[(tty.otail + i - 1) % OBUFLEN]
       /\ \A i \in 1 .. Len(put) : t.obuff[(tty.otail + (tty.ocnt + i) - 1) % OBUFLEN] = put[i]
  <2>1. tty.ocnt + Len(put) <= OBUFLEN
    BY <1>1, <1>4, <1>5, Sizes DEF room
  <2>2. QED  BY <1>1, <1>5, <2>1, WritcopiedPuts
<1> HIDE DEF t
<1>11. tty'.otail = tty.otail /\ tty'.ocnt = tty.ocnt + Len(put) /\ tty'.obuff = t.obuff
  BY <1>3, <1>9, <1>10 DEF Ttys
<1> DEFINE o == OutOf(tty)
           s == o \o full
<1>12. o \in Seq(Codes) /\ Len(o) = tty.ocnt /\ \A i \in 1 .. tty.ocnt : o[i] = tty.obuff[(tty.otail + i - 1) % OBUFLEN]
  BY <1>1, OutTyped
<1> HIDE DEF o
<1>13. full \in Seq(Codes) /\ Len(full) = Len(put) + Len(left) /\ \A i \in 1 .. Len(put) : full[i] = put[i]
  BY <1>5, <1>6, JoinedTyped
<1>14. (\A i \in 1 .. tty.ocnt : s[i] = o[i]) /\ \A i \in 1 .. Len(full) : s[tty.ocnt + i] = full[i]
  BY <1>12, <1>13, JoinedTyped, SMTT(20)
<1> HIDE DEF s
<1>15. Streams(OBUFLEN, tty'.obuff, tty.otail, s, tty.ocnt + Len(put))
  <2>1. ASSUME NEW m \in 1 .. tty.ocnt + Len(put)
        PROVE  tty'.obuff[(tty.otail + m - 1) % OBUFLEN] = s[m]
    <3>1. CASE m <= tty.ocnt
      <4>1. m \in 1 .. tty.ocnt
        BY <1>1, <1>5, <3>1
      <4>2. QED  BY <1>10, <1>11, <1>12, <1>14, <4>1
    <3>2. CASE m > tty.ocnt
      <4>1. PICK i \in Nat : i = m - tty.ocnt
        BY <1>1, <1>5, <3>2
      <4>2. i \in 1 .. Len(put) /\ i \in 1 .. Len(full) /\ m = tty.ocnt + i
        BY <1>1, <1>5, <1>13, <3>2, <4>1
      <4>3. t.obuff[(tty.otail + (tty.ocnt + i) - 1) % OBUFLEN] = put[i]
        BY <1>10, <4>2
      <4>4. s[tty.ocnt + i] = put[i]
        BY <1>13, <1>14, <4>2
      <4>5. QED  BY ONLY <1>11, <4>2, <4>3, <4>4
    <3>3. QED  BY <1>1, <1>5, <3>1, <3>2
  <2>2. QED  BY <2>1 DEF Streams
<1>16. Len(put) \in 0 .. Len(full) /\ 0 \in 0 .. 1 /\ left = SubSeq(full, Len(put) + 1, Len(full))
  BY <1>5, <1>6, <1>13
<1>17. w.t = tty' /\ w.rest = left /\ w.op = "go"
  OBVIOUS
<1> HIDE DEF w
<1>18. Put(tty, full, Len(put), 0, w.t)
  <2>1. tty.otail = (tty.otail + 0) % OBUFLEN /\ tty.ocnt + Len(put) = tty.ocnt + Len(put) - 0
    <3>1. tty.otail \in 0 .. OBUFLEN - 1 /\ tty.ocnt \in Nat /\ Len(put) \in Nat /\ OBUFLEN \in Nat \ {0}
      BY <1>1, <1>5, OutPlaces
    <3>2. QED  BY ONLY <3>1
  <2>2. QED  BY <1>11, <1>15, <1>17, <2>1 DEF Put, s, o
<1>19. On(tty, full, w)
  BY <1>16, <1>17, <1>18 DEF On
<1>20. OutGood(tty')
  BY DEF TtyInv, Good
<1>21. Hands(OutOf(tty), full, OutOf(tty'), left)
  BY <1>1, <1>13, <1>17, <1>19, <1>20, OnHands
<1>22. QED  BY <1>1, <1>3, <1>7, <1>8, <1>21, HandsSends

LEMMA WriterStepSends ==
  ASSUME TtyInv, TtyInv', Fits, NEW p \in Procs, WriterStep(p), tty'.ocnt <= OBUFLEN
  PROVE  Sending(OutOf(tty), Rests(cont), OutOf(tty'), Rests(cont'))
<1>1. CASE \E text \in Texts : IF Len(text) = 1 THEN Ttyputc(p, text[1]) ELSE Ttywrite(p, text)
  BY <1>1, TtyputcSends, TtywriteSends
<1>2. QED  BY <1>1, FinishWriteSends, FinishPutSends, PutMoreSends DEF WriterStep

LEMMA ReaderStepReads ==
  ASSUME TtyInv, Fits, NEW p \in Procs, ReaderStep(p)
  PROVE  Reading
BY TtyreadKeeps, ReadLaterKeeps, FinishReadKeeps, TtygetcKeeps, FinishGetcKeeps, PeekKeeps,
   PeekLaterKeeps, FinishPeekKeeps, TtycntlKeeps, TcintKeeps, FinishTcintKeeps DEF ReaderStep

\* A step that leaves one half alone.
LEMMA SameInput ==
  ASSUME SameIn(tty, tty')
  PROVE  AbsLine!Input \/ UNCHANGED AbsLine!input
<1>1. ReadyOf(tty') = ReadyOf(tty) /\ LineOf(tty') = LineOf(tty)
  BY DEF SameIn, ReadyOf, LineOf
<1>2. Enters(ReadyOf(tty), LineOf(tty), ReadyOf(tty'), LineOf(tty'))
  BY <1>1 DEF Enters
<1>3. QED  BY <1>2, EntersIs

LEMMA TakenOutput ==
  ASSUME Rests(cont') = Rests(cont),
         OutOf(tty') = OutOf(tty) \/ (OutOf(tty) # <<>> /\ OutOf(tty') = Tail(OutOf(tty)))
  PROVE  (\E p \in Procs : AbsLine!Write(p)) \/ AbsLine!Leave \/ UNCHANGED AbsLine!output
<1>1. Sending(OutOf(tty), Rests(cont), OutOf(tty'), Rests(cont'))
  BY DEF Sending
<1>2. QED  BY <1>1, SendingIs

\* Every step of the line is one of the stream's, or of both halves of it.
LEMMA LineStep ==
  ASSUME TtyInv, TtyInv', Next, Fits'
  PROVE  AbsLine!Next
<1>1. /\ InGood(tty) /\ OutGood(tty) /\ InGood(tty') /\ OutGood(tty') /\ Good(tty)
      /\ tty.icnt >= 0 /\ tty'.icnt >= 0 /\ tty'.icnt + tty'.icursor <= IBUFLEN /\ tty'.ocnt <= OBUFLEN
      /\ Fits
  BY DEF TtyInv, Good, Next, Fits
<1> SUFFICES /\ AbsLine!Input \/ UNCHANGED AbsLine!input
             /\ (\E p \in Procs : AbsLine!Write(p)) \/ AbsLine!Leave \/ UNCHANGED AbsLine!output
  BY DEF AbsLine!Next
<1>2. CASE \E ch \in Keys \cap calls : Ttyiin(ch)
  <2>1. PICK ch \in Keys : tty' = Typed(tty, ch) /\ cont' = cont
    BY <1>2 DEF Ttyiin
  <2>2. Edits(tty, tty', ch) /\ Leaves(tty, tty')
    BY <1>1, <2>1, TypedMoves DEF Moves
  <2>3. Enters(ReadyOf(tty), LineOf(tty), ReadyOf(tty'), LineOf(tty'))
    BY <1>1, <2>2, EditEnters
  <2>4. OutOf(tty') = OutOf(tty) \/ (OutOf(tty) # <<>> /\ OutOf(tty') = Tail(OutOf(tty)))
    BY <1>1, <2>2, LeavesSending
  <2>5. QED  BY <2>1, <2>3, <2>4, EntersIs, TakenOutput
<1>3. CASE TxInterrupt /\ InputAlone
  <2>1. tty' = Ttyoin(tty) /\ cont' = cont /\ tty.txint
    BY <1>3 DEF TxInterrupt
  <2>2. SameIn(tty, tty')
    BY <1>1, <2>1, TtyoinSends DEF Sends
  <2>3. /\ tty'.obuff = tty.obuff
        /\ \/ tty'.otail = tty.otail /\ tty'.ocnt = tty.ocnt
           \/ tty'.otail = (tty.otail + 1) % OBUFLEN /\ tty'.ocnt = tty.ocnt - 1 /\ tty.ocnt > 0
    BY <1>1, <2>1, TtyoinTakes
  <2>4. OutOf(tty') = OutOf(tty) \/ (OutOf(tty) # <<>> /\ OutOf(tty') = Tail(OutOf(tty)))
    BY <1>1, <2>3, TakenSending
  <2>5. QED  BY <2>1, <2>2, <2>4, SameInput, TakenOutput
<1>4. ASSUME NEW p \in Procs, ReaderStep(p)
      PROVE  /\ AbsLine!Input \/ UNCHANGED AbsLine!input
             /\ (\E q \in Procs : AbsLine!Write(q)) \/ AbsLine!Leave \/ UNCHANGED AbsLine!output
  <2>1. SameOut(tty, tty') /\ ReadsOff(tty, tty') /\ Rests(cont') = Rests(cont)
    BY <1>1, <1>4, ReaderStepReads DEF Reading
  <2>2. Enters(ReadyOf(tty), LineOf(tty), ReadyOf(tty'), LineOf(tty'))
    BY <1>1, <2>1, ReadEnters
  <2>3. OutOf(tty') = OutOf(tty)
    BY <2>1 DEF SameOut, OutOf
  <2>4. QED  BY <2>1, <2>2, <2>3, EntersIs, TakenOutput
<1>5. ASSUME NEW p \in Procs, WriterStep(p), InputAlone
      PROVE  /\ AbsLine!Input \/ UNCHANGED AbsLine!input
             /\ (\E q \in Procs : AbsLine!Write(q)) \/ AbsLine!Leave \/ UNCHANGED AbsLine!output
  <2>1. SameIn(tty, tty')
    BY <1>1, <1>5, WriterStepKeeps DEF InputAlone
  <2>2. Sending(OutOf(tty), Rests(cont), OutOf(tty'), Rests(cont'))
    BY <1>1, <1>5, WriterStepSends
  <2>3. QED  BY <2>1, <2>2, SameInput, SendingIs
<1>6. QED  BY <1>2, <1>3, <1>4, <1>5 DEF Next

LEMMA LineBegins ==
  Init => AbsLine!Init
<1> SUFFICES ASSUME Init PROVE AbsLine!Init
  OBVIOUS
<1>1. tty.icnt = 0 /\ tty.icursor = 0 /\ tty.ocnt = 0 /\ cont = [p \in Procs |-> Idle] /\ Idle.rest = <<>>
  BY DEF Init, Idle
<1>2. \A f : [i \in 1 .. 0 |-> f[i]] = <<>>
  OBVIOUS
<1>3. Chars(tty, 0) = <<>> /\ Pending(tty) = <<>>
      /\ [i \in 1 .. tty.icursor |-> tty.ibuff[(tty.itail + tty.icnt + i - 1) % IBUFLEN]] = <<>>
  BY <1>1 DEF Chars, Pending
<1>4. [p \in Procs |-> cont[p].rest] = [p \in Procs |-> <<>>]
  BY <1>1
<1>5. QED  BY <1>1, <1>3, <1>4 DEF AbsLine!Init

LEMMA LineSteps ==
  TtyInv /\ TtyInv' /\ [Next]_vars => [Fits' => AbsLine!Next]_(AbsLine!vars)
<1> SUFFICES ASSUME TtyInv, TtyInv', [Next]_vars PROVE [Fits' => AbsLine!Next]_(AbsLine!vars)
  OBVIOUS
<1>1. CASE Next
  BY <1>1, LineStep
<1>2. CASE UNCHANGED vars
  <2>1. tty' = tty /\ cont' = cont
    BY <1>2 DEF vars
  <2>2. UNCHANGED AbsLine!vars
    BY <2>1 DEF AbsLine!vars, AbsLine!input, AbsLine!output, Chars, Pending
  <2>3. QED  BY <2>2
<1>3. QED  BY <1>1, <1>2

\* The rings implement the two streams of tty(4): as long as neither ring is written over or
\* read when empty, every character is read once, in the order typed; erase and kill reach no
\* line that was finished; what a process writes comes out completely, in its order, whoever
\* else writes between.
THEOREM TtyRefines == Spec => TtyRefinement
<1>1. TtyInv /\ TtyInv' /\ [Next]_vars => [Fits' => AbsLine!Next]_(AbsLine!vars)
  BY LineSteps
<1>2. Init => AbsLine!Init
  BY LineBegins
<1>3. QED  BY <1>1, <1>2, TtyInvAlways, PTL DEF Spec, TtyRefinement
==============================================================================
