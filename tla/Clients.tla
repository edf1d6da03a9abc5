------------------------------- MODULE Clients -------------------------------
(***************************************************************************)
(* The processes as the buffer pools and the ports see them.  A process    *)
(* runs until it waits, until the processor goes to another one at a       *)
(* reschedule, or, with interrupts enabled, until it is preempted; what it *)
(* still has to do in its call is cont[p].  Which process runs next is     *)
(* left open: priorities can only rule schedules out.                      *)
(***************************************************************************)
EXTENDS SemOps, FiniteSetsExt

CONSTANTS
  Procs,      (* the processes                                              *)
  FreeSems,   (* how many slots of the semaphore table may be free at boot   *)
  MaxKills,   (* bound: processes killed                                    *)
  Workloads   (* sets of calls: the programs of a boot make those of one    *)

ASSUME ClientsAssumption == IsFiniteSet(Procs) /\ FreeSems \subseteq Nat /\ MaxKills \in Nat

VARIABLES
  cont,       (* the rest of each process's call: what (op), on which port  *)
              (* or pool (on), with which buffer (buf), ptseq or index (n), *)
              (* towards which state of the port (to)                       *)
  semsLeft,   (* free slots of the semaphore table                          *)
  kills, calls

clientVars == <<cont, semsLeft, kills, calls>>

Idle == [op |-> "user", on |-> 0, buf |-> <<>>, n |-> 0, to |-> "free"]
Do(op, on, buf, n) == [op |-> op, on |-> on, buf |-> buf, n |-> n, to |-> "free"]
At(p, op) == cont[p].op = op
Call(p, c) == c \in calls /\ cont[p] = Idle
Then(p, c) == cont' = [cont EXCEPT ![p] = c]
Released(op, s) == {p \in Procs : At(p, op) /\ ~Contains(s.q, p)}

ClientsInit ==
  /\ cont = [p \in Procs |-> Idle] /\ semsLeft \in FreeSems /\ kills = 0 /\ calls \in Workloads
==============================================================================
