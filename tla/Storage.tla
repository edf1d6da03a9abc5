-------------------------------- MODULE Storage --------------------------------
(***************************************************************************)
(* What programs allocate, in one system: ports whose messages are buffers *)
(* of the pools, and the heap that pools and stacks come from.             *)
(***************************************************************************)
EXTENDS Ports, Memory

StorageNext ==
  \/ Next /\ UNCHANGED memVars
  \/ "heap" \in calls /\ MemoryNext /\ UNCHANGED vars

\* What a workload does not use is in one state at the start.
StorageInit ==
  /\ Init /\ MemoryInit
  /\ "pdelete" \in calls \/ semsLeft = Max(FreeSems)
  /\ "heap" \in calls \/ heap = Max(HeapLens)

StorageSpec == StorageInit /\ [][StorageNext]_<<vars, memVars>>
===============================================================================
