------------------------------- MODULE Process -------------------------------
(***************************************************************************)
(* The process manager: create, resume, suspend, chprio, setnok and kill   *)
(* (userret, where a process that returns ends, is kill of itself).  A     *)
(* call that returns SYSERR changes nothing and has no step, except create,*)
(* which by then may have moved nextproc.                                  *)
(***************************************************************************)
EXTENDS KernelState

\* The slots newpid looks at, in its order: downwards from nextproc, circularly.
Search == [i \in 1 .. NProc |-> (nextproc - (i - 1)) % NProc]
FreeSlots == {i \in 1 .. NProc : pstate[Search[i]] = "free"}
Newpid == Search[Min(FreeSlots)]

\* create: the stack is obtained first, then the slot, then the priority is checked.
Create ==
  /\ Call("create")
  /\ FreeSlots # {}
  /\ nextproc' = PrevSlot(Newpid, NProc)
  /\ \E prio \in Prios :
       IF prio < 1 THEN UNCHANGED <<dispVars, psem, pnxtkin, numproc, msgVars, cont>>
       ELSE /\ Commit([Now EXCEPT !.pstate[Newpid] = "susp", !.pprio[Newpid] = prio])
            /\ numproc' = numproc + 1
            /\ psem' = [psem EXCEPT ![Newpid] = 0]
            /\ pnxtkin' = [pnxtkin EXCEPT ![Newpid] = BADPID]
            /\ phasmsg' = [phasmsg EXCEPT ![Newpid] = 0]
            /\ pend' = [pend EXCEPT ![Newpid] = FALSE]
            /\ cont' = [cont EXCEPT ![Newpid] = UserCode]
  /\ UNCHANGED <<semVars, clkVars, owed>>

\* Mutant: resume accepts a process that waits for a message.
ResumeReceiver(p) ==
  /\ Call("resume")
  /\ pstate[p] \in {"susp", "recv"}
  /\ Commit(Resched(Ready(Now, p)))
  /\ UNCHANGED <<semVars, tableVars, msgVars, clkVars, cont, owed>>

Resume(p) ==
  /\ Call("resume")
  /\ pstate[p] = "susp"
  /\ Commit(Resched(Ready(Now, p)))
  /\ UNCHANGED <<semVars, tableVars, msgVars, clkVars, cont, owed>>

Suspend(p) ==
  /\ Call("suspend")
  /\ \/ /\ pstate[p] = "ready"
        /\ Commit([Now EXCEPT !.pstate[p] = "susp", !.rdy = Delete(@, p)])
     \/ /\ pstate[p] = "curr"
        /\ Commit(Resched([Now EXCEPT !.pstate[p] = "susp"]))
  /\ UNCHANGED <<semVars, tableVars, msgVars, clkVars, cont, owed>>

\* chprio: a ready process is queued again under its new priority, and then,
\* as for the current process, the processor is rescheduled.
Chprio(p, newprio) ==
  /\ Call("chprio")
  /\ newprio > 0 /\ pstate[p] # "free"
  /\ LET d == [Now EXCEPT !.pprio[p] = newprio] IN
     Commit(CASE pstate[p] = "ready" ->
                   Resched(InsertReady([d EXCEPT !.rdy = Delete(@, p)], p))
              [] pstate[p] = "curr" -> Resched(d)
              [] OTHER -> d)
  /\ UNCHANGED <<semVars, tableVars, msgVars, clkVars, cont, owed>>

Setnok(nok, p) ==
  /\ Call("setnok")
  /\ pnxtkin' = [pnxtkin EXCEPT ![p] = nok]
  /\ UNCHANGED <<dispVars, semVars, psem, numproc, nextproc, msgVars, clkVars, cont, owed>>

\* Mutants: a sleeper stays on clockq; a sleeper is taken off but not freed.
BuryOnClockq(d, p) ==
  CASE d.pstate[p] = "curr" -> Resched([d EXCEPT !.pstate[p] = "free"])
    [] d.pstate[p] = "ready" -> [d EXCEPT !.pstate[p] = "free", !.rdy = Delete(@, p)]
    [] OTHER -> [d EXCEPT !.pstate[p] = "free"]
BuryUnfreed(d, p) ==
  IF d.pstate[p] \in {"sleep", "trecv"} THEN [Unsleep(d, p) EXCEPT !.pstate[p] = "recv"]
  ELSE BuryOnClockq(d, p)

\* kill after the death notice: the victim is taken off whatever list it is on
\* by now and its slot freed.  A process that kills itself never returns.
Bury(d, p) ==
  CASE d.pstate[p] = "curr" -> Resched([d EXCEPT !.pstate[p] = "free"])
    [] d.pstate[p] = "ready" -> [d EXCEPT !.pstate[p] = "free", !.rdy = Delete(@, p)]
    [] d.pstate[p] \in {"sleep", "trecv"} -> [Unsleep(d, p) EXCEPT !.pstate[p] = "free"]
    [] OTHER -> [d EXCEPT !.pstate[p] = "free"]

\* Mutant: the count is not corrected.
LeaveSemaphoreUncounted(p) ==
  IF pstate[p] = "wait"
  THEN semq' = [semq EXCEPT ![psem[p]] = Delete(@, p)] /\ UNCHANGED <<sstate, semcnt, nextsem>>
  ELSE UNCHANGED semVars

LeaveSemaphore(p) ==
  IF pstate[p] = "wait"
  THEN /\ semcnt' = [semcnt EXCEPT ![psem[p]] = @ + 1]
       /\ semq' = [semq EXCEPT ![psem[p]] = Delete(@, p)]
       /\ UNCHANGED <<sstate, nextsem>>
  ELSE UNCHANGED semVars

\* kill up to its send(pptr->pnxtkin, pid).  The send may hand the processor to
\* the next of kin; the rest of the call then waits until the killer runs again.
Kill(p) ==
  LET nok == pnxtkin[p]
      notify == nok \in UserPids /\ pstate[nok] # "free" /\ phasmsg[nok] = 0
      d == IF notify THEN Deliver(Now, nok) ELSE Now
  IN
  /\ Call("kill")
  /\ pstate[p] # "free"
  /\ numproc > 0                 \* bound: at 0 xdone reports the end of all processes
  /\ numproc' = numproc - 1
  /\ phasmsg' = IF notify THEN [phasmsg EXCEPT ![nok] = 1] ELSE phasmsg
  /\ pend' = IF notify THEN [pend EXCEPT ![nok] = TRUE] ELSE pend
  /\ IF d.currpid = currpid
     THEN Commit(Bury(d, p)) /\ LeaveSemaphore(p) /\ UNCHANGED cont
     ELSE /\ Commit(d) /\ UNCHANGED semVars
          /\ cont' = [cont EXCEPT ![currpid] = [op |-> "kill", arg |-> p]]
  /\ UNCHANGED <<psem, pnxtkin, nextproc, clkVars, owed>>

FinishKill ==
  LET p == cont[currpid].arg IN
  /\ cont[currpid].op = "kill"
  /\ Commit(Bury(Now, p)) /\ LeaveSemaphore(p)
  /\ cont' = [cont EXCEPT ![currpid] = UserCode]
  /\ UNCHANGED <<tableVars, msgVars, clkVars, owed>>

ProcessNext ==
  \/ Create
  \/ \E p \in UserPids : Resume(p) \/ Suspend(p) \/ Kill(p)
  \/ \E p \in UserPids, x \in Prios : Chprio(p, x)
  \/ \E p \in UserPids :     \* as the shell does, before it resumes a child and later
       Setnok(BADPID, p) \/ (pstate[p] = "susp" /\ Setnok(currpid, p))
  \/ FinishKill
==============================================================================
