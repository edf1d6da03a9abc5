-------------------------------- MODULE SemOps --------------------------------
(***************************************************************************)
(* A semaphore as the code that uses one sees it: a count and the queue of *)
(* the processes that wait, as wait, signal, signaln, sreset and kill      *)
(* change them.  Module Semaphore has the table and the scheduler behind   *)
(* it, and shows that they come to this (SemaphoreRefinement).             *)
(***************************************************************************)
EXTENDS Integers, Sequences, SequencesExt

Sem(n) == [ok |-> TRUE, n |-> n, q |-> <<>>]       \* screate(n)
NoSem == [ok |-> FALSE, n |-> 0, q |-> <<>>]       \* screate returned SYSERR

\* wait blocks its caller; signal lets somebody go and reschedules.
Blocks(s) == s.ok /\ s.n <= 0
Frees(s) == s.ok /\ s.n < 0

Waited(s, p) ==
  IF ~s.ok THEN s
  ELSE [s EXCEPT !.n = @ - 1, !.q = IF Blocks(s) THEN Append(@, p) ELSE @]

Signaled(s) ==
  IF ~s.ok THEN s ELSE [s EXCEPT !.n = @ + 1, !.q = IF Frees(s) THEN Tail(@) ELSE @]

\* signaln(s, k)
SignaledBy(s, k) ==
  [s EXCEPT !.n = @ + k,
            !.q = SubSeq(@, 1 + (IF ~Frees(s) THEN 0 ELSE IF k < -s.n THEN k ELSE -s.n), Len(@))]

\* sreset(s, n) lets everybody go, and says SYSERR to a semaphore that is none.
WasReset(s, n) == IF s.ok THEN Sem(n) ELSE s

\* kill of a process, waiting at s or not.
Left(s, p) ==
  IF Contains(s.q, p)
  THEN [s EXCEPT !.n = @ + 1, !.q = RemoveAt(@, CHOOSE i \in 1 .. Len(@) : @[i] = p)]
  ELSE s

\* What the kernel guarantees of a semaphore (Kernel's CountIsQueue).
SemGood(s) ==
  /\ Len(s.q) = (IF s.ok /\ s.n < 0 THEN -s.n ELSE 0)
  /\ IsInjective(s.q)
===============================================================================
