-------------------------------- MODULE Clock --------------------------------
(***************************************************************************)
(* The real-time clock: sleep10 (sleep is a sequence of calls of it), the  *)
(* clock interrupt and its deferral by stopclk and strtclk.                *)
(* The clock is a level 7 interrupt: it also comes while interrupts are    *)
(* disabled, but then only counts down the watchdog, which is left out.    *)
(***************************************************************************)
EXTENDS KernelState

ClkUnchanged == UNCHANGED <<semVars, tableVars, msgVars>>

\* sleep10(0) gives up the rest of the time slice.
Sleep10(n) ==
  /\ Call("sleep10")
  /\ Commit(Resched(IF n = 0 THEN Now
                    ELSE [InsertSleep(Now, currpid, n) EXCEPT !.pstate[currpid] = "sleep"]))
  /\ owed' = [owed EXCEPT ![currpid] = n]
  /\ UNCHANGED <<clkVars, cont>> /\ ClkUnchanged

\* The end of the clock interrupt, from clpreem on.
Preempt(d) ==
  LET e == [d EXCEPT !.preempt = Dec(@)] IN IF e.preempt < 0 THEN Resched(e) ELSE e

\* clkint.  wakeup is called only when the key at the head goes below zero; if
\* it gives the processor away, clpreem waits until this process runs again.
Clkint ==
  LET top == [Now EXCEPT !.qkey[sltop] = @ - 1]
      wakes == slnempty /\ top.qkey[sltop] < 0
      d == IF wakes THEN Wakeup(top) ELSE IF slnempty THEN top ELSE Now
  IN
  /\ InUser
  /\ owed' = [p \in Pids |-> IF pstate[p] \notin {"sleep", "trecv"} THEN 0
                             ELSE IF owed[p] > -MaxLate THEN owed[p] - 1 ELSE owed[p]]
  /\ IF defclk # 0
     THEN clkdiff < MaxDefer /\ clkdiff' = clkdiff + 1 /\ UNCHANGED <<dispVars, cont>>
     ELSE /\ UNCHANGED clkdiff
          /\ IF wakes /\ d.currpid # currpid
             THEN Commit(d) /\ cont' = [cont EXCEPT ![currpid].op = "clpreem"]
             ELSE Commit(Preempt(d)) /\ UNCHANGED cont
  /\ UNCHANGED defclk /\ ClkUnchanged

FinishClkint ==
  /\ cont[currpid].op = "clpreem"
  /\ Commit(Preempt(Now))
  /\ cont' = [cont EXCEPT ![currpid] = UserCode]
  /\ UNCHANGED <<clkVars, owed>> /\ ClkUnchanged

Stopclk ==
  /\ Call("stopclk")
  /\ defclk < MaxDefer
  /\ defclk' = defclk + 1
  /\ UNCHANGED <<dispVars, clkdiff, cont, owed>> /\ ClkUnchanged

\* The end of strtclk: reschedule if the makeup used up the quantum.
Settle(d) == IF d.preempt <= 0 THEN Resched(d) ELSE d

\* The deferred ticks are taken off the keys from the head on, then wakeup runs.
MakeUp(d, makeup) ==
  LET i == DeltaPos(d.slp, d.qkey, makeup)
      left == Remaining(d.slp, d.qkey, makeup)
  IN  [d EXCEPT !.preempt = IF @ < makeup THEN -1 ELSE @ - makeup,
                !.qkey = [p \in Pids |->
                  IF \E j \in 1 .. Len(d.slp) : j < i /\ d.slp[j] = p THEN 0
                  ELSE IF i <= Len(d.slp) /\ d.slp[i] = p THEN @[p] - left[i] ELSE @[p]]]

Strtclk ==
  LET e == MakeUp(Now, clkdiff)
      d == IF slnempty THEN Wakeup(e) ELSE e
  IN
  /\ Call("strtclk")
  /\ defclk > 0
  /\ defclk' = defclk - 1
  /\ IF defclk > 1 THEN UNCHANGED <<clkdiff, dispVars, cont>>
     ELSE /\ clkdiff' = 0
          /\ IF d.currpid # currpid
             THEN Commit(d) /\ cont' = [cont EXCEPT ![currpid].op = "strtclk"]
             ELSE Commit(Settle(d)) /\ UNCHANGED cont
  /\ UNCHANGED owed /\ ClkUnchanged

FinishStrtclk ==
  /\ cont[currpid].op = "strtclk"
  /\ Commit(Settle(Now))
  /\ cont' = [cont EXCEPT ![currpid] = UserCode]
  /\ UNCHANGED <<clkVars, owed>> /\ ClkUnchanged

ClockNext ==
  \/ \E n \in Delays : Sleep10(n)
  \/ Clkint \/ FinishClkint \/ Stopclk \/ Strtclk \/ FinishStrtclk
==============================================================================
