------------------------------- MODULE MCKernel -------------------------------
(***************************************************************************)
(* The kernel for TLC.  View leaves out what no step reads any more: the   *)
(* key of a process on no keyed list, the semaphore of one that does not   *)
(* wait, the owed ticks of one that does not sleep, and the priority, next *)
(* of kin and continuation of a free slot, which create overwrites.  A     *)
(* state of the wrong type is shown whole.                                 *)
(***************************************************************************)
EXTENDS Kernel

\* What the programs of a boot do.  One workload for each kind of interaction keeps
\* each state space small; a call is in a workload with those it can interfere with.
Basic == {"create", "resume"}
SafetyWorkloads == {
  Basic \cup {"suspend", "kill", "send", "receive"},
  Basic \cup {"kill", "recvtim", "send", "receive"},
  Basic \cup {"sendf", "receive", "recvclr"},
  Basic \cup {"kill", "sleep10", "chprio"},
  Basic \cup {"sleep10", "stopclk", "strtclk"},
  Basic \cup {"kill", "wait", "signal", "chprio", "suspend"},
  Basic \cup {"kill", "wait", "signal", "signaln", "sreset", "sdelete", "screate",
             "interrupt"},
  Basic \cup {"kill", "setnok", "receive"} }
LiveWorkloads == {
  Basic \cup {"sleep10", "recvtim", "send"},
  Basic \cup {"sleep10", "wait", "signal", "signaln", "interrupt"},
  Basic \cup {"sleep10", "suspend", "kill"} }
KinWorkload == {Basic \cup {"kill", "setnok", "receive"}}
SleepWorkload == {Basic \cup {"sleep10", "recvtim"}}
DeferWorkload == {Basic \cup {"sleep10", "stopclk", "strtclk"}}

Only(f, S, default) == [p \in Pids |-> IF p \in S THEN f[p] ELSE default]
Being(S) == {p \in Pids : pstate[p] \in S}

View ==
  LET live == Pids \ Being({"free"})
      sleeping == Being({"sleep", "trecv"})
  IN  IF ~TypeOK THEN vars ELSE
      <<pstate, Only(pprio, live, 0), Only(psem, Being({"wait"}), 0), phasmsg, Only(pnxtkin, live, 0),
        currpid, numproc, nextproc, preempt,
        Only(qkey, sleeping \cup Being({"ready"}), 0), rdy, slp, slnempty,
        IF slnempty THEN sltop ELSE NULLPROC, semVars, clkVars,
        Only(cont, live, UserCode), Only(owed, sleeping, 0), Only(pend, live, FALSE), calls>>
==============================================================================
