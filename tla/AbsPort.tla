-------------------------------- MODULE AbsPort --------------------------------
(***************************************************************************)
(* What pcreate(2), psend(2), preceive(2), preset(2) and pdelete(2)        *)
(* promise, without semaphores, nodes and limbo: bounded queues, served    *)
(* in order.  A call that has to wait belongs to the port as it was when   *)
(* it was made, its generation, and fails when that has ended.             *)
(***************************************************************************)
EXTENDS Integers, Sequences

CONSTANTS Ports, Procs, Bufs, Counts

VARIABLES
  open, gen, bound, chan,   (* each port                                    *)
  asked                     (* the call each process waits in               *)

None == [op |-> "none", on |-> 0, gen |-> 0]
Dead == [op |-> "dead", on |-> 0, gen |-> 0]
AskedFor(op, port) == [op |-> op, on |-> port, gen |-> gen[port]]
Answered(p) == asked' = [asked EXCEPT ![p] = None]
Entitled(p, op, port) == open[port] /\ asked[p] \in {None, AskedFor(op, port)}

Create(port, n) ==
  /\ ~open[port]
  /\ open' = [open EXCEPT ![port] = TRUE] /\ gen' = [gen EXCEPT ![port] = @ + 1]
  /\ bound' = [bound EXCEPT ![port] = n] /\ UNCHANGED <<chan, asked>>

\* The messages go, and with them the right of everybody who waits.
Clear(port) ==
  /\ open[port]
  /\ open' \in {open, [open EXCEPT ![port] = FALSE]}
  /\ gen' = [gen EXCEPT ![port] = @ + 1] /\ chan' = [chan EXCEPT ![port] = <<>>]
  /\ UNCHANGED <<bound, asked>>

Reopen(port) ==
  /\ ~open[port]
  /\ open' = [open EXCEPT ![port] = TRUE] /\ UNCHANGED <<gen, bound, chan, asked>>

Ask(p, op, port) ==
  /\ open[port] /\ asked[p] = None
  /\ asked' = [asked EXCEPT ![p] = AskedFor(op, port)] /\ UNCHANGED <<open, gen, bound, chan>>

Send(p, port) ==
  /\ Entitled(p, "send", port) /\ Len(chan[port]) < bound[port]
  /\ \E b \in Bufs : chan' = [chan EXCEPT ![port] = Append(@, b)]
  /\ Answered(p) /\ UNCHANGED <<open, gen, bound>>

Receive(p, port) ==
  /\ Entitled(p, "recv", port) /\ chan[port] # <<>>
  /\ chan' = [chan EXCEPT ![port] = Tail(@)]
  /\ Answered(p) /\ UNCHANGED <<open, gen, bound>>

\* A call fails only when the port it was made for is no more.
Fail(p) ==
  /\ asked[p] \notin {None, Dead}
  /\ ~open[asked[p].on] \/ gen[asked[p].on] # asked[p].gen
  /\ Answered(p) /\ UNCHANGED <<open, gen, bound, chan>>

Die(p) == asked' = [asked EXCEPT ![p] = Dead] /\ UNCHANGED <<open, gen, bound, chan>>

Next ==
  \/ \E port \in Ports :
       \/ \E n \in Counts : Create(port, n)
       \/ Clear(port) \/ Reopen(port)
       \/ \E p \in Procs : \/ \E op \in {"send", "recv"} : Ask(p, op, port)
                           \/ Send(p, port) \/ Receive(p, port)
  \/ \E p \in Procs : Fail(p) \/ Die(p)

vars == <<open, gen, bound, chan, asked>>

Init ==
  /\ open = [port \in Ports |-> FALSE] /\ gen = [port \in Ports |-> 0]
  /\ bound = [port \in Ports |-> 0] /\ chan = [port \in Ports |-> <<>>]
  /\ asked = [p \in Procs |-> None]

Spec == Init /\ [][Next]_vars
================================================================================
