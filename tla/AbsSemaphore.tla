----------------------------- MODULE AbsSemaphore -----------------------------
(***************************************************************************)
(* What screate(2), wait(2), signal(2), signaln(2), sreset(2), sdelete(2)  *)
(* and kill(2) promise of semaphores, with no process table: permits, and  *)
(* first-come first-served queues that hold somebody only while there is   *)
(* no permit.  A process waits in one queue at most.                       *)
(***************************************************************************)
EXTENDS Integers, Sequences, SequencesExt

CONSTANTS Procs, Sems, MaxPermits

VARIABLES used, permits, waiting
vars == <<used, permits, waiting>>

Init == /\ used \in [Sems -> BOOLEAN]
        /\ permits \in [Sems -> 0 .. 1]
        /\ waiting = [s \in Sems |-> <<>>]

Blocked == UNION {ToSet(waiting[s]) : s \in Sems}

Create(s, n) ==
  /\ ~used[s] /\ used' = [used EXCEPT ![s] = TRUE]
  /\ permits' = [permits EXCEPT ![s] = n]
  /\ UNCHANGED waiting

\* The permits of a deleted semaphore are gone, its queue goes free.
Delete(s) ==
  /\ used[s] /\ used' = [used EXCEPT ![s] = FALSE]
  /\ permits' = [permits EXCEPT ![s] = 0]
  /\ waiting' = [waiting EXCEPT ![s] = <<>>]

P(s, p) ==
  /\ used[s] /\ p \notin Blocked
  /\ \/ /\ permits[s] > 0
        /\ permits' = [permits EXCEPT ![s] = @ - 1] /\ UNCHANGED waiting
     \/ /\ permits[s] = 0
        /\ waiting' = [waiting EXCEPT ![s] = Append(@, p)] /\ UNCHANGED permits
  /\ UNCHANGED used

\* n signals free the first n processes; the rest are permits.
V(s, n) ==
  /\ used[s] /\ n > 0
  /\ IF n <= Len(waiting[s])
     THEN /\ waiting' = [waiting EXCEPT ![s] = SubSeq(@, n + 1, Len(@))]
          /\ UNCHANGED permits
     ELSE /\ waiting' = [waiting EXCEPT ![s] = <<>>]
          /\ permits' = [permits EXCEPT ![s] = @ + n - Len(waiting[s])]
  /\ UNCHANGED used

Reset(s, n) ==
  /\ used[s]
  /\ permits' = [permits EXCEPT ![s] = n]
  /\ waiting' = [waiting EXCEPT ![s] = <<>>]
  /\ UNCHANGED used

\* A killed process leaves its queue as if it had never been there.
Leave(s, p) ==
  /\ \E i \in 1 .. Len(waiting[s]) :
       waiting[s][i] = p /\ waiting' = [waiting EXCEPT ![s] = RemoveAt(@, i)]
  /\ UNCHANGED <<used, permits>>

\* No count exceeds MaxPermits.
Next ==
  \E s \in Sems :
    \/ Delete(s)
    \/ \E p \in Procs : P(s, p) \/ Leave(s, p)
    \/ \E n \in 0 .. MaxPermits : Create(s, n) \/ Reset(s, n)
    \/ \E n \in 1 .. Cardinality(Procs) + MaxPermits : V(s, n)

Spec == Init /\ [][Next]_vars
===============================================================================
