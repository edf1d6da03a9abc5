------------------------------- MODULE QueueOps -------------------------------
(***************************************************************************)
(* Lists of processes in key order, as the sequences that insert, insertd  *)
(* and dequeue make of them.  key[p] is the key of p's entry of the queue  *)
(* array, also while p is on no list.                                      *)
(***************************************************************************)
EXTENDS Integers, Sequences, SequencesExt

MININT == 32768          \* 0x8000 in an int of 32 bits (kernel.h)
MAXINT == 32767
EMPTY == -1              \* what getfirst and getlast return for an empty list (q.h)

\* Mutant: insert stops after the equal keys, not before them.
InsertPosAfter(l, key, x) ==
  LET I == {i \in 1 .. Len(l) : key[l[i]] > x}
  IN  IF I = {} THEN Len(l) + 1 ELSE Min(I)

\* The first position whose key is at least x: where insert puts an entry.
InsertPos(l, key, x) ==
  LET I == {i \in 1 .. Len(l) : key[l[i]] >= x}
  IN  IF I = {} THEN Len(l) + 1 ELSE Min(I)

\* What is left of x at each position of a delta list after the keys before it.
Remaining(l, key, x) ==
  LET rem[i \in 1 .. Len(l) + 1] == IF i = 1 THEN x ELSE rem[i-1] - key[l[i-1]]
  IN  rem

\* The first position whose key is at least what is left of x there.
DeltaPos(l, key, x) ==
  LET rem == Remaining(l, key, x)
      I == {i \in 1 .. Len(l) : key[l[i]] >= rem[i]}
  IN  IF I = {} THEN Len(l) + 1 ELSE Min(I)

DeleteForgotten(l, p) == l               \* mutant: the list is left alone
Delete(l, p) ==           \* dequeue, wherever the entry stands
  IF \E i \in 1 .. Len(l) : l[i] = p
  THEN RemoveAt(l, CHOOSE i \in 1 .. Len(l) : l[i] = p)
  ELSE l
==============================================================================
