------------------------------ MODULE Semaphore ------------------------------
(***************************************************************************)
(* Counting semaphores: screate, sdelete, sreset, wait, signal, signaln.   *)
(* A negative count is the number of processes waiting in the queue.       *)
(***************************************************************************)
EXTENDS KernelState

SemUnchanged == UNCHANGED <<pnxtkin, numproc, nextproc, msgVars, clkVars, cont, owed>>

\* newsem looks downwards from nextsem, circularly.
SemSearch == [i \in 1 .. NSem |-> (nextsem - (i - 1)) % NSem]
FreeSems == {i \in 1 .. NSem : sstate[SemSearch[i]] = "free"}

Screate(count) ==
  /\ Call("screate")
  /\ FreeSems # {}
  /\ LET sem == SemSearch[Min(FreeSems)] IN
     /\ sstate' = [sstate EXCEPT ![sem] = "used"]
     /\ semcnt' = [semcnt EXCEPT ![sem] = count]
     /\ nextsem' = PrevSlot(sem, NSem)
  /\ UNCHANGED <<dispVars, semq, psem>> /\ SemUnchanged

\* sdelete reschedules only if it found a waiting process; the count is left.
Sdelete(sem) ==
  /\ Call("sdelete")
  /\ sstate[sem] = "used"
  /\ sstate' = [sstate EXCEPT ![sem] = "free"]
  /\ semq' = [semq EXCEPT ![sem] = <<>>]
  /\ Commit(IF semq[sem] = <<>> THEN Now ELSE Resched(ReadyAll(Now, semq[sem])))
  /\ UNCHANGED <<semcnt, nextsem, psem>> /\ SemUnchanged

Sreset(sem, count) ==
  /\ Call("sreset")
  /\ sstate[sem] = "used"
  /\ semq' = [semq EXCEPT ![sem] = <<>>]
  /\ semcnt' = [semcnt EXCEPT ![sem] = count]
  /\ Commit(Resched(ReadyAll(Now, semq[sem])))
  /\ UNCHANGED <<sstate, nextsem, psem>> /\ SemUnchanged

\* Mutant: the caller blocks when the count reaches zero.
WaitAtZero(sem) ==
  /\ Call("wait")
  /\ sstate[sem] = "used"
  /\ semcnt' = [semcnt EXCEPT ![sem] = @ - 1]
  /\ IF semcnt[sem] - 1 <= 0
     THEN /\ psem' = [psem EXCEPT ![currpid] = sem]
          /\ semq' = [semq EXCEPT ![sem] = Append(@, currpid)]
          /\ Commit(Resched([Now EXCEPT !.pstate[currpid] = "wait"]))
     ELSE UNCHANGED <<psem, semq, dispVars>>
  /\ UNCHANGED <<sstate, nextsem>> /\ SemUnchanged

Wait(sem) ==
  /\ Call("wait")
  /\ sstate[sem] = "used"
  /\ semcnt' = [semcnt EXCEPT ![sem] = @ - 1]
  /\ IF semcnt[sem] - 1 < 0
     THEN /\ psem' = [psem EXCEPT ![currpid] = sem]
          /\ semq' = [semq EXCEPT ![sem] = Append(@, currpid)]
          /\ Commit(Resched([Now EXCEPT !.pstate[currpid] = "wait"]))
     ELSE UNCHANGED <<psem, semq, dispVars>>
  /\ UNCHANGED <<sstate, nextsem>> /\ SemUnchanged

\* Mutant: getlast for getfirst.
SignalLast(sem) ==
  /\ CallOrInterrupt("signal")
  /\ sstate[sem] = "used" /\ semcnt[sem] < MaxCount
  /\ semcnt' = [semcnt EXCEPT ![sem] = @ + 1]
  /\ IF semcnt[sem] < 0
     THEN /\ semq' = [semq EXCEPT ![sem] = Front(@)]
          /\ Commit(Resched(Ready(Now, Last(semq[sem]))))
     ELSE UNCHANGED <<semq, dispVars>>
  /\ UNCHANGED <<sstate, nextsem, psem>> /\ SemUnchanged

Signal(sem) ==
  /\ CallOrInterrupt("signal")
  /\ sstate[sem] = "used"
  /\ semcnt[sem] < MaxCount
  /\ semcnt' = [semcnt EXCEPT ![sem] = @ + 1]
  /\ IF semcnt[sem] < 0
     THEN /\ semq' = [semq EXCEPT ![sem] = Tail(@)]
          /\ Commit(Resched(Ready(Now, Head(semq[sem]))))
     ELSE UNCHANGED <<semq, dispVars>>
  /\ UNCHANGED <<sstate, nextsem, psem>> /\ SemUnchanged

\* signaln: the first -semcnt signals, as far as count goes, each free a process.
Signaln(sem, count) ==
  /\ CallOrInterrupt("signaln")
  /\ sstate[sem] = "used" /\ count > 0
  /\ semcnt[sem] + count <= MaxCount
  /\ LET n == IF semcnt[sem] >= 0 THEN 0
              ELSE IF count < -semcnt[sem] THEN count ELSE -semcnt[sem]
     IN /\ semq' = [semq EXCEPT ![sem] = SubSeq(@, n + 1, Len(@))]
        /\ Commit(Resched(ReadyAll(Now, SubSeq(semq[sem], 1, n))))
  /\ semcnt' = [semcnt EXCEPT ![sem] = @ + count]
  /\ UNCHANGED <<sstate, nextsem, psem>> /\ SemUnchanged

SemaphoreNext ==
  \E sem \in Sems :
    \/ Sdelete(sem) \/ Wait(sem) \/ Signal(sem)
    \/ \E count \in 0 .. MaxCount :
         Screate(count) \/ Sreset(sem, count) \/ Signaln(sem, count)
==============================================================================
