----------------------------- MODULE KernelState -----------------------------
(***************************************************************************)
(* The state the Xinu kernel keeps in its process table (proc.h), its      *)
(* semaphore table (sem.h), its queue array (q.h) and its clock variables  *)
(* (sleep.h), and the routines every system call is built from: ready,     *)
(* resched, insert, insertd, dequeue and unsleep.                          *)
(*                                                                         *)
(* A system call runs with interrupts disabled, so it is one step, except  *)
(* where it calls resched and the processor goes to another process: what  *)
(* the caller still has to do when it gets the processor back is its       *)
(* continuation cont[p], and a step of its own.  The lists of the queue    *)
(* array are sequences of process ids, qkey is the key field of the array  *)
(* (LinkedQueue shows that the doubly linked array implements sequences).  *)
(***************************************************************************)
EXTENDS QueueOps

CONSTANTS
  NProc,      (* NPROC: slots of the process table; slot 0 is the null process *)
  NSem,       (* NSEM: slots of the semaphore table                            *)
  Quantum,    (* QUANTUM: clock ticks until preemption                         *)
  Prios,      (* the priorities programs ask for                               *)
  Delays,     (* the delays programs ask for, in clock ticks                   *)
  HasMsgMod,  (* number of values of the byte phasmsg, 256                     *)
  MaxCount,   (* bound: a semaphore count never exceeds it                     *)
  MaxDefer,   (* bound: nesting of stopclk, and ticks counted while deferred   *)
  MaxLate,    (* bound: lateness of a sleeper, as far as it is told apart      *)
  Workloads   (* sets of system calls: the programs of a boot make those of one *)

NULLPROC == 0
BADPID == -1

ASSUME NProcAssumption == NProc \in Nat /\ NProc >= 2
ASSUME NSemAssumption == NSem \in Nat \ {0}
ASSUME QuantumAssumption == Quantum \in Nat \ {0}
ASSUME KeysAssumption ==     \* a larger key would walk past the tail of a list
  Prios \subseteq 0 .. MAXINT /\ Delays \subseteq 0 .. MAXINT
ASSUME BoundsAssumption ==
  /\ HasMsgMod \in Nat \ {0, 1}
  /\ MaxCount \in Nat \ {0} /\ MaxDefer \in Nat /\ MaxLate \in Nat

Pids == 0 .. NProc - 1
AllPids == Pids                          \* mutant: isbadpid with x < 0
UserPids == Pids \ {NULLPROC}            \* those isbadpid accepts
Sems == 0 .. NSem - 1
States == {"curr", "free", "ready", "recv", "sleep", "susp", "wait", "trecv"}

VARIABLES
  pstate, pprio, psem, phasmsg, pnxtkin, (* the process table                  *)
  currpid, numproc, nextproc, preempt,
  qkey,       (* key of each process's entry of the queue array                *)
  rdy,        (* ready list, head to tail; the tail runs next                  *)
  slp,        (* clockq: the sleeping processes, keys are delays relative to   *)
              (* the predecessor                                               *)
  slnempty, sltop, (* does clockq hold a process; the process whose key sltop  *)
              (* points to                                                     *)
  sstate, semcnt, semq, nextsem, (* the semaphore table                        *)
  defclk, clkdiff, (* nesting of stopclk; ticks counted meanwhile              *)
  cont,       (* what each process still does in the kernel when dispatched    *)
  calls,      (* the workload of this boot                                     *)
  owed, pend  (* history: ticks a sleeper is still owed (negative: it is late),*)
              (* and whether a message was sent and not yet taken              *)

dispVars == <<pstate, pprio, qkey, rdy, slp, slnempty, sltop, currpid, preempt>>
semVars == <<sstate, semcnt, semq, nextsem>>
tableVars == <<psem, pnxtkin, numproc, nextproc>>
msgVars == <<phasmsg, pend>>
clkVars == <<defclk, clkdiff>>
vars == <<dispVars, semVars, tableVars, msgVars, clkVars, cont, owed, calls>>

PrevSlotNoWrap(i, n) == i - 1            \* mutant: the search does not wrap around
PrevSlot(i, n) == (i - 1) % n            \* the slot a search looks at after slot i

------------------------------------------------------------------------------
(* The routines, on a record d of the variables the dispatcher works on.   *)

Now == [pstate |-> pstate, pprio |-> pprio, qkey |-> qkey, rdy |-> rdy, slp |-> slp,
        slnempty |-> slnempty, sltop |-> sltop, currpid |-> currpid, preempt |-> preempt]

Commit(d) ==
  /\ pstate' = d.pstate /\ pprio' = d.pprio /\ qkey' = d.qkey
  /\ rdy' = d.rdy /\ slp' = d.slp /\ slnempty' = d.slnempty /\ sltop' = d.sltop
  /\ currpid' = d.currpid /\ preempt' = d.preempt

\* Mutant: enqueue for insert.
InsertReadyAtTail(d, p) ==
  [d EXCEPT !.rdy = Append(@, p), !.qkey[p] = d.pprio[p]]

InsertReady(d, p) ==
  [d EXCEPT !.rdy = InsertAt(@, InsertPos(@, d.qkey, d.pprio[p]), p),
            !.qkey[p] = d.pprio[p]]

\* ready(pid, RESCHNO)
Ready(d, p) == InsertReady([d EXCEPT !.pstate[p] = "ready"], p)

\* ready for the first n processes of a queue, each taken off its head by getfirst.
ReadyAll(d, l) ==
  LET f[i \in 0 .. Len(l)] == IF i = 0 THEN d ELSE Ready(f[i-1], l[i])
  IN  f[Len(l)]

\* Mutant: firstkey for lastkey.
LastKeyOfHead(d) == IF d.rdy = <<>> THEN MININT ELSE d.qkey[Head(d.rdy)]

LastKey(d) == IF d.rdy = <<>> THEN MININT ELSE d.qkey[Last(d.rdy)]

\* resched: d.pstate[d.currpid] is the next state of the current process.
Resched(d) ==
  LET p == d.currpid
      running == d.pstate[p] = "curr"
      e == IF running THEN Ready(d, p) ELSE d
      next == Last(e.rdy)
  IN  IF running /\ LastKey(d) < d.pprio[p] THEN d
      ELSE [e EXCEPT !.rdy = Front(@), !.pstate[next] = "curr",
                     !.currpid = next, !.preempt = Quantum]

\* Mutant: sltop stays where it pointed unless clockq was empty.
SetSltopKept(d) ==
  IF d.slp = <<>> \/ d.slnempty THEN [d EXCEPT !.slnempty = d.slp # <<>>]
  ELSE [d EXCEPT !.slnempty = TRUE, !.sltop = Head(d.slp)]

\* Mutant: slnempty is not set when clockq gets its first process.
SetSltopUnnoted(d) ==
  IF d.slp = <<>> THEN [d EXCEPT !.slnempty = FALSE] ELSE [d EXCEPT !.sltop = Head(d.slp)]

\* The end of every change to clockq: sltop follows its head.
SetSltop(d) ==
  IF d.slp = <<>> THEN [d EXCEPT !.slnempty = FALSE]
  ELSE [d EXCEPT !.slnempty = TRUE, !.sltop = Head(d.slp)]

\* insertd(p, clockq, n)
InsertSleep(d, p, n) ==
  LET i == DeltaPos(d.slp, d.qkey, n)
      left == Remaining(d.slp, d.qkey, n)[i]
      key == [d.qkey EXCEPT ![p] = left]
  IN  SetSltop([d EXCEPT !.slp = InsertAt(@, i, p),
                         !.qkey = IF i > Len(d.slp) THEN key
                                  ELSE [key EXCEPT ![d.slp[i]] = @ - left]])

\* Mutant: the successor does not inherit.
UnsleepLossy(d, p) == SetSltop([d EXCEPT !.slp = Delete(@, p)])

\* unsleep: the successor inherits what was left of the delay.
Unsleep(d, p) ==
  LET i == CHOOSE j \in 1 .. Len(d.slp) : d.slp[j] = p
      key == IF i = Len(d.slp) THEN d.qkey
             ELSE [d.qkey EXCEPT ![d.slp[i+1]] = @ + d.qkey[p]]
  IN  SetSltop([d EXCEPT !.slp = RemoveAt(@, i), !.qkey = key])

\* wakeup: the run of processes at the head whose keys are not positive.
Wakeup(d) ==
  LET late == {i \in 1 .. Len(d.slp) : d.qkey[d.slp[i]] > 0}
      n == IF late = {} THEN Len(d.slp) ELSE Min(late) - 1
      e == [d EXCEPT !.slp = SubSeq(@, n + 1, Len(@))]
  IN  Resched(SetSltop(ReadyAll(e, SubSeq(d.slp, 1, n))))

\* Mutant: PRTRECV is forgotten.
DeliverRecvOnly(d, p) == IF d.pstate[p] = "recv" THEN Resched(Ready(d, p)) ELSE d

\* send, once the receiver is known to take the message; resched is inside.
Deliver(d, p) ==
  CASE d.pstate[p] = "recv"  -> Resched(Ready(d, p))
    [] d.pstate[p] = "trecv" -> Resched(Ready(Unsleep(d, p), p))
    [] OTHER                 -> d

------------------------------------------------------------------------------
(* Who acts: a program, with interrupts enabled, or the rest of a call.    *)

UserCode == [op |-> "user", arg |-> 0]
InUser == cont[currpid] = UserCode
Call(c) == c \in calls /\ InUser /\ currpid # NULLPROC

\* A device interrupt may signal in whatever process it interrupts, the
\* null process included.
CallOrInterrupt(c) ==
  c \in calls /\ InUser /\ (currpid # NULLPROC \/ "interrupt" \in calls)

Dec(n) == IF n < 0 THEN n ELSE n - 1   \* only the sign of preempt is read below 0

\* The system when the user's main program starts (nulluser): the null process
\* is ready, main is current, and clkinit holds the semaphore clmutex.
Init ==
  LET main == NProc - 1 IN
  /\ pstate = [p \in Pids |-> IF p = main THEN "curr"
                              ELSE IF p = NULLPROC THEN "ready" ELSE "free"]
  /\ \E x \in Prios \ {0} : pprio = [p \in Pids |-> IF p = main THEN x ELSE 0]
  /\ psem = [p \in Pids |-> 0] /\ pnxtkin = [p \in Pids |-> IF p = main THEN BADPID ELSE 0]
  /\ phasmsg = [p \in Pids |-> 0] /\ pend = [p \in Pids |-> FALSE]
  /\ currpid = main /\ numproc = 1 /\ nextproc = NProc - 2 /\ preempt = Quantum
  /\ qkey = [p \in Pids |-> IF p = main THEN pprio[p] ELSE 0]
  /\ rdy = <<NULLPROC>> /\ slp = <<>> /\ slnempty = FALSE /\ sltop = NULLPROC
  /\ sstate = [s \in Sems |-> IF s = NSem - 1 THEN "used" ELSE "free"]
  /\ semcnt = [s \in Sems |-> IF s = NSem - 1 THEN 1 ELSE 0]
  /\ semq = [s \in Sems |-> <<>>] /\ nextsem = (NSem - 2) % NSem
  /\ defclk = 0 /\ clkdiff = 0
  /\ calls \in Workloads
  /\ cont = [p \in Pids |-> UserCode] /\ owed = [p \in Pids |-> 0]
==============================================================================
