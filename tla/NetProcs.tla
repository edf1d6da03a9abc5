-------------------------------- MODULE NetProcs --------------------------------
(***************************************************************************)
(* The processes as the network code sees them: where each one is in its   *)
(* call, and with what.  Which one runs next is left open.                 *)
(***************************************************************************)
EXTENDS SemOps, FiniteSetsExt

CONSTANTS
  Procs, Nobody,             (* the processes, and BADPID                    *)
  netout                     (* the output process                           *)

ASSUME NetProcsAssumption == IsFiniteSet(Procs) /\ netout \in Procs /\ Nobody \notin Procs

VARIABLE cont                (* the rest of each call: the place (at), its   *)
                             (* address (to), table index (ix), tries (try), *)
                             (* is it the way through the gateway (via)      *)

Users == Procs \ {netout}
Where(at) == [at |-> at, to |-> Nobody, ix |-> 0, try |-> 0, via |-> FALSE]
At(p, at) == cont[p].at = at
Then(p, c) == cont' = [cont EXCEPT ![p] = c]
Goes(p, at) == cont' = [cont EXCEPT ![p].at = at]
=================================================================================
