----------------------------- MODULE LinkedQueue -----------------------------
(***************************************************************************)
(* The queue array q: one entry for each process, and two for each list,   *)
(* its head and its tail, which stand behind those of the processes.  The  *)
(* links of an entry that is on no list are left as they were.             *)
(***************************************************************************)
EXTENDS QueueOps

CONSTANTS
  NProc,      (* NPROC: the entries of processes are 0 .. NProc - 1           *)
  NQueues,    (* how many lists there are in the end: NSEM + 2                *)
  Keys        (* the keys callers pass                                        *)

ASSUME ProcsAssumption == NProc \in Nat \ {0}
ASSUME QueuesAssumption == NQueues \in Nat \ {0}
ASSUME KeyAssumption == Keys \subseteq 0 .. MAXINT

VARIABLES
  qkey, qnext, qprev, (* the fields of the entries                            *)
  nextqueue,          (* the first entry not yet given to a list              *)
  home,               (* history: the list a process is on, which the callers *)
                      (* know from its state                                  *)
  ret                 (* what the last getfirst or getlast returned           *)
links == <<qnext, qprev>>
vars == <<qkey, links, nextqueue, home, ret>>

Procs == 0 .. NProc - 1
Entries == 0 .. NProc + 2 * NQueues - 1
Heads == {NProc + 2 * k : k \in 0 .. NQueues - 1}
Lists == {h \in Heads : h < nextqueue}
TailOf(h) == h + 1

Init ==
  /\ qkey = [i \in Entries |-> 0] /\ qnext = [i \in Entries |-> 0]
  /\ qprev = [i \in Entries |-> 0]
  /\ nextqueue = NProc
  /\ home = [p \in Procs |-> EMPTY] /\ ret = EMPTY

\* newqueue
Newqueue ==
  LET h == nextqueue IN
  /\ h \in Heads
  /\ qnext' = [qnext EXCEPT ![h] = TailOf(h), ![TailOf(h)] = EMPTY]
  /\ qprev' = [qprev EXCEPT ![h] = EMPTY, ![TailOf(h)] = h]
  /\ qkey' = [qkey EXCEPT ![h] = MININT, ![TailOf(h)] = MAXINT]
  /\ nextqueue' = nextqueue + 2
  /\ UNCHANGED <<home, ret>>

\* The assignments of enqueue, insert and insertd to the links.
LinkIn(p, prev, next) ==
  /\ qnext' = [qnext EXCEPT ![p] = next, ![prev] = p]
  /\ qprev' = [qprev EXCEPT ![p] = prev, ![next] = p]

Enqueue(p, h) ==
  /\ home[p] = EMPTY
  /\ LinkIn(p, qprev[TailOf(h)], TailOf(h))
  /\ home' = [home EXCEPT ![p] = h]
  /\ UNCHANGED <<qkey, nextqueue, ret>>

\* The entries from a head on, one link after the other.
Walk(h) ==
  LET f[n \in 0 .. NProc + 1] ==
        IF n = 0 THEN h ELSE IF f[n-1] \in Entries THEN qnext[f[n-1]] ELSE EMPTY
  IN  f

\* Where insert's search for x stops on the walk f.
Stops(f, x) == Min({n \in 1 .. NProc + 1 : f[n] \in Entries /\ qkey[f[n]] >= x})

Insert(p, h, x) ==
  LET f == Walk(h)
      next == f[Stops(f, x)]
  IN
  /\ home[p] = EMPTY
  /\ LinkIn(p, qprev[next], next)
  /\ qkey' = [qkey EXCEPT ![p] = x]
  /\ home' = [home EXCEPT ![p] = h]
  /\ UNCHANGED <<nextqueue, ret>>

LeftNotReduced(f, x) == [n \in 1 .. NProc + 1 |-> x]   \* mutant: key is not reduced

\* What insertd's key is reduced to when its search is at each entry of the walk.
Left(f, x) ==
  LET rem[n \in 1 .. NProc + 1] ==
        IF n = 1 THEN x
        ELSE IF f[n-1] \in Entries THEN rem[n-1] - qkey[f[n-1]] ELSE rem[n-1]
  IN  rem
DeltaStops(f, left) ==
  Min({n \in 1 .. NProc + 1 : f[n] \in Entries /\ qkey[f[n]] >= left[n]})

\* Mutant: the tail is taken for a process.
ShortenAny(next, left) == next \in Entries
Shorten(next, left) == next < NProc       \* whose key insertd reduces

Insertd(p, h, x) ==
  LET f == Walk(h)
      rem == Left(f, x)
      n == DeltaStops(f, rem)
      next == f[n]
      left == rem[n]
      own == [qkey EXCEPT ![p] = left]
  IN
  /\ home[p] = EMPTY
  /\ LinkIn(p, f[n-1], next)
  /\ qkey' = IF Shorten(next, left) THEN [own EXCEPT ![next] = @ - left] ELSE own
  /\ home' = [home EXCEPT ![p] = h]
  /\ UNCHANGED <<nextqueue, ret>>

\* Mutant: the link back is forgotten.
UnlinkForward(p) == qnext' = [qnext EXCEPT ![qprev[p]] = qnext[p]] /\ UNCHANGED qprev

\* dequeue
Unlink(p) == /\ qnext' = [qnext EXCEPT ![qprev[p]] = qnext[p]]
             /\ qprev' = [qprev EXCEPT ![qnext[p]] = qprev[p]]

Take(p) == Unlink(p) /\ home' = [home EXCEPT ![p] = EMPTY] /\ UNCHANGED <<qkey, nextqueue>>

Dequeue(p) == home[p] # EMPTY /\ Take(p) /\ UNCHANGED ret

\* Mutant: one entry too many counts as a process.
GetFromTable(p) ==
  \/ p <= NProc /\ Take(p) /\ ret' = p
  \/ p > NProc /\ ret' = EMPTY /\ UNCHANGED <<qkey, links, nextqueue, home>>

\* What getfirst and getlast do with the entry at their end of the list.
GetFrom(p) ==
  \/ p < NProc /\ Take(p) /\ ret' = p
  \/ p >= NProc /\ ret' = EMPTY /\ UNCHANGED <<qkey, links, nextqueue, home>>
Getfirst(h) == GetFrom(qnext[h])
Getlast(h) == GetFrom(qprev[TailOf(h)])

\* unsleep, the clock interrupt and strtclk change keys of entries on a list.
SetKey(p, x) ==
  /\ home[p] # EMPTY
  /\ qkey' = [qkey EXCEPT ![p] = x]
  /\ UNCHANGED <<links, nextqueue, home, ret>>

Next ==
  \/ Newqueue
  \/ \E p \in Procs : Dequeue(p) \/ \E x \in Keys : SetKey(p, x)
  \/ \E h \in Lists : Getfirst(h) \/ Getlast(h)
  \/ \E p \in Procs, h \in Lists :
       Enqueue(p, h) \/ \E x \in Keys : Insert(p, h, x) \/ Insertd(p, h, x)

Spec == Init /\ [][Next]_vars

------------------------------------------------------------------------------
\* The fields hold what their readers take them for: a key that is no delay or
\* priority any more would be negative.
TypeOK ==
  /\ qkey \in [Entries -> 0 .. MININT]
  /\ qnext \in [Entries -> Entries \cup {EMPTY}] /\ qprev \in [Entries -> Entries \cup {EMPTY}]
  /\ nextqueue \in NProc .. NProc + 2 * NQueues
  /\ home \in [Procs -> Heads \cup {EMPTY}] /\ ret \in Procs \cup {EMPTY}

\* From every entry of a list but its tail the links lead on, and back from every one but
\* its head, within the list, and going on and back again ends where it began.
ListOf(i) == IF i \in Procs THEN home[i] ELSE IF i \in Heads THEN i ELSE i - 1
Listed == {i \in Procs : home[i] # EMPTY}
LinksInverse ==
  /\ \A i \in Listed \cup Lists :
       /\ qnext[i] \in Listed \cup {TailOf(h) : h \in Lists}
       /\ ListOf(qnext[i]) = ListOf(i) /\ qprev[qnext[i]] = i
  /\ \A i \in Listed \cup {TailOf(h) : h \in Lists} :
       /\ qprev[i] \in Listed \cup Lists
       /\ ListOf(qprev[i]) = ListOf(i) /\ qnext[qprev[i]] = i

\* insert.c:20 "tail has maxint as key": every search stops within its list, at the tail
\* at the latest, and insertd's tail keeps that key.
SearchStops ==
  \A h \in Lists : \E n \in 1 .. NProc + 1 :
    /\ Walk(h)[n] = TailOf(h) /\ \A i \in 1 .. n - 1 : Walk(h)[i] \in Listed
    /\ qkey[TailOf(h)] = MAXINT

\* The array implements sequences: following the links from a head yields the list.
ListAt(h) ==
  IF h \notin Lists THEN <<>>
  ELSE LET f == Walk(h)
           n == Min({i \in 1 .. NProc + 1 : f[i] \notin Procs})
       IN  [i \in 1 .. n - 1 |-> f[i]]
AbsQ == INSTANCE AbsQueue WITH
  Lists <- Heads, list <- [h \in Heads |-> ListAt(h)], key <- [p \in Procs |-> qkey[p]]
QueueRefinement == AbsQ!Spec
==============================================================================
