------------------------------ MODULE BufferPool ------------------------------
(***************************************************************************)
(* Buffer pools: mkpool, getbuf, freebuf.  The list of a pool and the      *)
(* semaphore that counts it change in two critical sections, between which *)
(* a process can be preempted or killed.  A buffer is <<pool, number>>.    *)
(***************************************************************************)
EXTENDS Clients

CONSTANTS
  NBPools,    (* NBPOOLS: slots of the pool table                           *)
  NBufs       (* buffers in each pool                                       *)

ASSUME PoolAssumption == NBPools \in Nat \ {0} /\ NBufs \in Nat \ {0}

Pools == 0 .. NBPools - 1
Bufs == Pools \X (1 .. NBufs)

VARIABLES
  nbpools, bpnext, bpsem,   (* bptab: each pool's free list, and semaphore  *)
  held,       (* the buffers each process got and did not give away         *)
  lostUnits   (* history: units of bpsem that went with a killed process    *)

poolVars == <<nbpools, bpnext, bpsem, held, lostUnits>>

BufsOf(pool) == [i \in 1 .. NBufs |-> <<pool, i>>]

\* mkpool: getmem may fail, which changes nothing; whether screate failed is not looked at.
Mkpool(p) ==
  /\ Call(p, "mkpool")
  /\ nbpools < NBPools
  /\ nbpools' = nbpools + 1
  /\ bpnext' = [bpnext EXCEPT ![nbpools] = BufsOf(nbpools)]
  /\ bpsem' = [bpsem EXCEPT ![nbpools] = IF semsLeft > 0 THEN Sem(NBufs) ELSE NoSem]
  /\ semsLeft' = IF semsLeft > 0 THEN semsLeft - 1 ELSE 0
  /\ UNCHANGED <<cont, kills, calls, held, lostUnits>>

\* Mutant: no wait where the list is seen not to be empty.
GetbufIfAny(p, pool) ==
  /\ Call(p, "getbuf") /\ pool < nbpools
  /\ bpsem' = IF bpnext[pool] # <<>> THEN bpsem ELSE [bpsem EXCEPT ![pool] = Waited(@, p)]
  /\ Then(p, Do("getbuf", pool, <<>>, 0))
  /\ UNCHANGED <<nbpools, bpnext, held, lostUnits, semsLeft, kills, calls>>

\* getbuf up to its wait, whose result it does not look at.
Getbuf(p, pool) ==
  /\ Call(p, "getbuf") /\ pool < nbpools
  /\ bpsem' = [bpsem EXCEPT ![pool] = Waited(@, p)]
  /\ Then(p, Do("getbuf", pool, <<>>, 0))
  /\ UNCHANGED <<nbpools, bpnext, held, lostUnits, semsLeft, kills, calls>>

\* Its second half takes the first buffer without a look whether there is one.  From an
\* empty list it would follow a null pointer: nothing is said of what happens then.
FinishGetbuf(p) ==
  LET pool == cont[p].on IN
  /\ At(p, "getbuf") /\ ~Contains(bpsem[pool].q, p) /\ bpnext[pool] # <<>>
  /\ held' = [held EXCEPT ![p] = @ \cup {Head(bpnext[pool])}]
  /\ bpnext' = [bpnext EXCEPT ![pool] = Tail(@)]
  /\ Then(p, Idle)
  /\ UNCHANGED <<nbpools, bpsem, lostUnits, semsLeft, kills, calls>>

\* freebuf up to the restore that ends its critical section, and its signal after it.
Freebuf(p, b) ==
  /\ Call(p, "freebuf") /\ b \in held[p]
  /\ held' = [held EXCEPT ![p] = @ \ {b}]
  /\ bpnext' = [bpnext EXCEPT ![b[1]] = <<b>> \o @]
  /\ Then(p, Do("freebuf", b[1], <<>>, 0))
  /\ UNCHANGED <<nbpools, bpsem, lostUnits, semsLeft, kills, calls>>

FinishFreebuf(p) ==
  /\ At(p, "freebuf")
  /\ bpsem' = [bpsem EXCEPT ![cont[p].on] = Signaled(@)]
  /\ Then(p, Idle)
  /\ UNCHANGED <<nbpools, bpnext, held, lostUnits, semsLeft, kills, calls>>

PoolStep(p) ==
  \/ Mkpool(p)
  \/ \E pool \in Pools : Getbuf(p, pool)
  \/ FinishGetbuf(p) \/ FinishFreebuf(p)
  \/ \E b \in Bufs : Freebuf(p, b)

\* netinit made the first pool before programs run.
PoolInit ==
  /\ nbpools = 1
  /\ bpnext = [k \in Pools |-> IF k = 0 THEN BufsOf(0) ELSE <<>>]
  /\ bpsem = [k \in Pools |-> IF k = 0 THEN Sem(NBufs) ELSE NoSem]
  /\ held = [p \in Procs |-> {}] /\ lostUnits = [k \in Pools |-> 0]
===============================================================================
