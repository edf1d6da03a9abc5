------------------------------- MODULE Kernel -------------------------------
(***************************************************************************)
(* The kernel: the process manager, semaphores, messages and the clock     *)
(* over one process table, and what must be true of them together.         *)
(***************************************************************************)
EXTENDS Process, Semaphore, Message, Clock

Next == /\ ProcessNext \/ SemaphoreNext \/ MessageNext \/ ClockNext
        /\ UNCHANGED calls

Spec == Init /\ [][Next]_vars

\* The rest of a call, once its process has the processor again: a process inside the
\* kernel takes no other step than FinishKill, FinishReceive, and so on.
Return == ~InUser /\ cont' = [cont EXCEPT ![currpid] = UserCode]

\* Strong fairness of the clock: its interrupt is lost while a process is in the
\* kernel, but the watchdog stops the system unless one of every 150 finds interrupts
\* enabled.  It is written out with TickDue for ENABLED: where no tick is due a tick
\* changes nothing that matters.  Weak fairness of Return: nothing can take the
\* processor from a process inside the kernel.  Programs need do nothing.
TickDue == InUser /\ (slnempty \/ preempt >= 0 \/ LastKey(Now) >= pprio[currpid])
Fairness == /\ <>[]~TickDue \/ []<><<Clkint /\ UNCHANGED calls>>_vars
            /\ WF_cont(Return)
LiveSpec == Spec /\ Fairness

------------------------------------------------------------------------------
(* Types. *)

\* The process table, the lists and the counters hold values of their C types.
TypeOK ==
  /\ pstate \in [Pids -> States] /\ pprio \in [Pids -> 0 .. MAXINT]
  /\ psem \in [Pids -> Sems] /\ phasmsg \in [Pids -> 0 .. HasMsgMod - 1]
  /\ pnxtkin \in [Pids -> Pids \cup {BADPID}]
  /\ currpid \in Pids /\ nextproc \in Pids /\ numproc \in Int
  /\ preempt \in -1 .. Quantum /\ qkey \in [Pids -> Int]
  /\ rdy \in Seq(Pids) /\ slp \in Seq(Pids)
  /\ slnempty \in BOOLEAN /\ sltop \in Pids
  /\ sstate \in [Sems -> {"free", "used"}] /\ semcnt \in [Sems -> Int]
  /\ semq \in [Sems -> Seq(Pids)] /\ nextsem \in Sems
  /\ defclk \in 0 .. MaxDefer /\ clkdiff \in Nat
  /\ cont \in [Pids -> [op : {"user", "kill", "receive", "recvtim", "clpreem", "strtclk"},
                        arg : Pids]]
  /\ owed \in [Pids -> Int] /\ pend \in [Pids -> BOOLEAN]

------------------------------------------------------------------------------
(* Safety. *)

\* Every process stands exactly on the list its state names and on no other, once;
\* the current process is the one whose state says so (resched, kill, wait, unsleep,
\* which each change a state and a list).
ListsMatchStates ==
  /\ IsInjective(rdy) /\ IsInjective(slp) /\ \A s \in Sems : IsInjective(semq[s])
  /\ \A p \in Pids :
       /\ p \in ToSet(rdy) <=> pstate[p] = "ready"
       /\ p \in ToSet(slp) <=> pstate[p] \in {"sleep", "trecv"}
       /\ \A s \in Sems : p \in ToSet(semq[s]) <=> pstate[p] = "wait" /\ psem[p] = s
       /\ pstate[p] = "curr" <=> p = currpid

\* The ready list ascends, each key being the priority of its process, also after
\* chprio of a ready process: resched takes the last one without looking further.
ReadySorted ==
  /\ \A i, j \in 1 .. Len(rdy) : i <= j => qkey[rdy[i]] <= qkey[rdy[j]]
  /\ \A i \in 1 .. Len(rdy) : qkey[rdy[i]] = pprio[rdy[i]]

\* No ready process has a higher priority than the running one, whatever was just
\* readied, killed, suspended or given another priority.
CurrentIsHighest == \A i \in 1 .. Len(rdy) : pprio[rdy[i]] <= pprio[currpid]

\* The null process is always eligible to run, at priority zero, so that resched
\* never takes from an empty ready list.
NullEligible ==
  /\ pstate[NULLPROC] \in {"curr", "ready"} /\ pprio[NULLPROC] = 0
  /\ \A p \in Pids \ {NULLPROC} : pstate[p] # "free" => pprio[p] > 0

\* A semaphore in use with a negative count has that many waiting processes, and
\* with any other count none; a free one has none (signal trusts the count).
CountIsQueue ==
  \A s \in Sems : Len(semq[s]) =
    IF sstate[s] = "used" /\ semcnt[s] < 0 THEN -semcnt[s] ELSE 0

\* slnempty says whether a process sleeps and sltop points at the first key of the
\* delta list: all the clock interrupt looks at before it decrements a key.
SltopIsHead == /\ slnempty <=> slp # <<>>
               /\ slnempty => sltop = Head(slp)
               /\ \A i \in 1 .. Len(slp) : qkey[slp[i]] >= 0

\* numproc counts the processes there are besides the null process (proc.h).  It is
\* never too high; two kills of one victim, possible while kill's message to the next
\* of kin hands the processor over, make it too low for good.
Living == {p \in UserPids : pstate[p] # "free"}
NumprocCounts == /\ numproc <= Cardinality(Living)
                 /\ "setnok" \notin calls => numproc = Cardinality(Living)

\* xdone.c:5 "print system completion message as last process exits".
XdoneAtLastExit == numproc = 0 => Cardinality(Living) <= 1

\* phasmsg is nonzero exactly when a message was sent and not yet taken.
HasMsgIffPending == \A p \in Pids : pstate[p] # "free" => (phasmsg[p] # 0 <=> pend[p])

\* A process that left receive's wait finds a message: receive does not look again, and
\* the process can be suspended between the send and its return.  And nobody waits while
\* it has a message, unless it was sendf that delivered it, which does not wake a recvtim.
MessagesDelivered ==
  \A p \in Pids :
    /\ cont[p].op = "receive" /\ pstate[p] \in {"curr", "ready", "susp"} => pend[p]
    /\ pstate[p] \in {"recv", "trecv"} /\ pend[p] => "sendf" \in calls

------------------------------------------------------------------------------
(* What a step may do. *)

Release(p, s) == p \in ToSet(semq[s]) /\ p \notin ToSet(semq'[s])

\* A waiting process gets free only by a signal, by a reset or deletion of the
\* semaphore, or by being killed; and who stays had come later than who is freed.
ReleaseOnlyBySignal ==
  [][\A s \in Sems, p \in Pids : Release(p, s) =>
       /\ semcnt'[s] > semcnt[s] \/ sstate'[s] = "free"
       /\ pstate'[p] # "free" =>
            \A i, j \in 1 .. Len(semq[s]) :
              semq[s][j] = p /\ i < j => Release(semq[s][i], s)]_vars

\* A free slot is filled by create only, and only as a suspended process: nothing a
\* process left behind in the kernel when it was killed brings it back.
Death == [][\A p \in Pids : pstate[p] = "free" /\ pstate'[p] # "free" =>
              pstate'[p] = "susp" /\ cont'[p] = UserCode]_vars

\* The clock wakes nobody before the delay asked for has passed: as the first tick may
\* come at once, one tick more must have come.  True as long as nobody defers ticks.
TimesOut(p) == /\ pstate[p] \in {"sleep", "trecv"}
               /\ pstate'[p] \in {"ready", "curr"} /\ ~pend'[p]
NeverEarly ==
  [][\A p \in Pids : TimesOut(p) /\ "stopclk" \notin calls => owed'[p] < 0]_vars

\* sleep.2:32 "Sleep guarantees a lower bound on delay".
SleepLowerBound == [][\A p \in Pids : TimesOut(p) => owed'[p] <= 0]_vars

\* The semaphore table implements counting semaphores with fair queues: negative
\* counts, kill's correction of the count and a deleted semaphore's leftover count
\* are invisible.
Permits(s) == IF sstate[s] = "used" /\ semcnt[s] > 0 THEN semcnt[s] ELSE 0
AbsSem == INSTANCE AbsSemaphore WITH
  Procs <- Pids, MaxPermits <- MaxCount, used <- [s \in Sems |-> sstate[s] = "used"],
  permits <- [s \in Sems |-> Permits(s)], waiting <- semq
SemaphoreRefinement == AbsSem!Spec

------------------------------------------------------------------------------
(* What must happen, under LiveSpec. *)

\* A sleeper wakes up, though others come and go before it on the delta list.
SleepersWake == \A p \in UserPids : pstate[p] = "sleep" ~> pstate[p] # "sleep"

\* Round robin: among processes of equal priority every ready one leaves the ready
\* list, whatever the others do.
RoundRobin == \A p \in UserPids : pstate[p] = "ready" ~> pstate[p] # "ready"
==============================================================================
