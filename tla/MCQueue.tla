------------------------------- MODULE MCQueue -------------------------------
(***************************************************************************)
(* The queue array for TLC: a small key and the largest, which the tails   *)
(* have too; a bound on what is subtracted from it; and a view without the *)
(* links of entries on no list, which insertion overwrites, and without    *)
(* ret, which no action reads.                                             *)
(***************************************************************************)
EXTENDS LinkedQueue

QueueKeys == {1, MAXINT}
MaxSubtracted == 1
KeysNearEnds == \A p \in Procs : qkey[p] \in (0 .. 1) \cup (MAXINT - MaxSubtracted .. MAXINT)

View ==
  LET used(f) == [i \in Entries |-> IF i \in Procs /\ home[i] = EMPTY THEN EMPTY ELSE f[i]]
  IN  <<qkey, used(qnext), used(qprev), nextqueue, home>>
==============================================================================
