------------------------------- MODULE AbsQueue -------------------------------
(***************************************************************************)
(* What the routines on the queue array promise their callers: lists of    *)
(* processes, each process on one list at most, and one key per process.   *)
(* These are the lists and the operators that KernelState is built from.   *)
(***************************************************************************)
EXTENDS QueueOps

CONSTANTS Procs, Lists, Keys

VARIABLES list, key, ret     \* ret: what the last getfirst or getlast returned
vars == <<list, key, ret>>

Init == /\ list = [h \in Lists |-> <<>>]
        /\ key = [p \in Procs |-> 0]
        /\ ret = EMPTY

Off == {p \in Procs : \A h \in Lists : p \notin ToSet(list[h])}

PutAt(p, h, i) == list' = [list EXCEPT ![h] = InsertAt(@, i, p)]

Enqueue(p, h) ==
  p \in Off /\ PutAt(p, h, Len(list[h]) + 1) /\ UNCHANGED <<key, ret>>

Insert(p, h, x) ==
  /\ p \in Off
  /\ PutAt(p, h, InsertPos(list[h], key, x))
  /\ key' = [key EXCEPT ![p] = x]
  /\ UNCHANGED ret

\* The process that comes next has that much less to wait.
InsertDelta(p, h, x) ==
  LET i == DeltaPos(list[h], key, x)
      left == Remaining(list[h], key, x)[i]
      own == [key EXCEPT ![p] = left]
  IN
  /\ p \in Off
  /\ PutAt(p, h, i)
  /\ key' = IF i > Len(list[h]) THEN own ELSE [own EXCEPT ![list[h][i]] = @ - left]
  /\ UNCHANGED ret

TakeOff(p) == list' = [h \in Lists |-> Delete(list[h], p)] /\ UNCHANGED key

Dequeue(p) == p \notin Off /\ TakeOff(p) /\ UNCHANGED ret

GetFirst(h) ==
  IF list[h] = <<>> THEN ret' = EMPTY /\ UNCHANGED <<list, key>>
  ELSE ret' = Head(list[h]) /\ TakeOff(Head(list[h]))

GetLast(h) ==
  IF list[h] = <<>> THEN ret' = EMPTY /\ UNCHANGED <<list, key>>
  ELSE ret' = Last(list[h]) /\ TakeOff(Last(list[h]))

SetKey(p, x) == p \notin Off /\ key' = [key EXCEPT ![p] = x] /\ UNCHANGED <<list, ret>>

Next ==
  \/ \E p \in Procs : Dequeue(p) \/ \E x \in Keys : SetKey(p, x)
  \/ \E h \in Lists : GetFirst(h) \/ GetLast(h)
  \/ \E p \in Procs, h \in Lists :
       Enqueue(p, h) \/ \E x \in Keys : Insert(p, h, x) \/ InsertDelta(p, h, x)

Spec == Init /\ [][Next]_vars
===============================================================================
