--------------------------------- MODULE Ports ---------------------------------
(***************************************************************************)
(* Ports: pcreate, psend, preceive, preset, pdelete and the marking that   *)
(* initializes them on first use.  The messages are buffers, and dispose   *)
(* is freebuf, as where the network uses them.  A port's list of nodes is  *)
(* the sequence of the messages in them, the free list the number of nodes.*)
(***************************************************************************)
EXTENDS BufferPool

CONSTANTS
  NPorts,     (* NPORTS: slots of the port table                            *)
  MaxMsgs,    (* MAXMSGS: nodes for the messages of all ports               *)
  Counts,     (* the bounds ports are created with                          *)
  MaxSeq      (* bound: the sum of the ports' ptseq                         *)

ASSUME PortsAssumption ==
  NPorts \in Nat \ {0} /\ MaxMsgs \in Nat \ {0} /\ Counts \subseteq Nat /\ MaxSeq \in Nat

Ports == 0 .. NPorts - 1

VARIABLES
  ptstate, ptseq, ptmaxcnt, ptq, ptssem, ptrsem,   (* the port table        *)
  ptfree,               (* number of nodes on the free list                 *)
  ptnextp,              (* where the next search for a free port starts     *)
  panicked,             (* "out of nodes": the system stops                 *)
  mkmutex, marked,      (* mark's semaphore; is ptmark marked               *)
  pinits,               (* history: how often pinit ran                     *)
  lostS, lostR          (* history: units of a port's semaphores that went  *)
                        (* with a killed process                            *)

tableVars == <<ptstate, ptseq, ptmaxcnt, ptnextp>>
queueVars == <<ptq, ptssem, ptrsem, ptfree, panicked>>
markVars == <<mkmutex, marked, pinits>>
lostVars == <<lostS, lostR>>
vars == <<clientVars, poolVars, tableVars, queueVars, markVars, lostVars>>

MoreGenerations == MapThenSumSet(LAMBDA id : ptseq[id], Ports) < MaxSeq

------------------------------------------------------------------------------
(* Creation, and the mark that guards pinit. *)

PortSearch(next) == [i \in 1 .. NPorts |-> (next - (i - 1)) % NPorts]

\* The rest of pcreate, after the mark; state and next as pinit may have left them.
\* screate may fail, for both semaphores or the second: pcreate does not look.
NewPort(p, count, state, next) ==
  LET search == PortSearch(next)
      free == {i \in 1 .. NPorts : state[search[i]] = "free"}
      id == search[Min(free)]
  IN /\ Then(p, Idle)
     /\ IF free = {}
        THEN /\ ptstate' = state /\ ptnextp' = next
             /\ UNCHANGED <<ptseq, ptmaxcnt, ptq, ptssem, ptrsem, semsLeft, lostVars>>
        ELSE /\ MoreGenerations
             /\ ptstate' = [state EXCEPT ![id] = "alloc"] /\ ptnextp' = (id - 1) % NPorts
             /\ ptssem' = [ptssem EXCEPT ![id] = IF semsLeft >= 1 THEN Sem(count) ELSE NoSem]
             /\ ptrsem' = [ptrsem EXCEPT ![id] = IF semsLeft >= 2 THEN Sem(0) ELSE NoSem]
             /\ semsLeft' = IF semsLeft >= 2 THEN semsLeft - 2 ELSE 0
             /\ ptq' = [ptq EXCEPT ![id] = <<>>]
             /\ ptseq' = [ptseq EXCEPT ![id] = @ + 1]
             /\ ptmaxcnt' = [ptmaxcnt EXCEPT ![id] = count]
             /\ lostS' = [lostS EXCEPT ![id] = 0] /\ lostR' = [lostR EXCEPT ![id] = 0]

\* pinit, then the rest of pcreate: every port is free, the nodes are new ones.
PinitAndNewPort(p, count) ==
  /\ pinits' = pinits + 1 /\ ptfree' = MaxMsgs
  /\ NewPort(p, count, [id \in Ports |-> "free"], NPorts - 1)

PortsAlone == UNCHANGED <<tableVars, ptq, ptssem, ptrsem, semsLeft, lostVars, ptfree, pinits>>

\* pcreate: mark(ptmark) tests, then waits, and if that does not block does all the rest.
Pcreate(p, count) ==
  /\ Call(p, "pcreate")
  /\ IF marked
     THEN NewPort(p, count, ptstate, ptnextp) /\ UNCHANGED <<markVars, ptfree>>
     ELSE IF ~Blocks(mkmutex)
     THEN PinitAndNewPort(p, count) /\ marked' = TRUE /\ UNCHANGED mkmutex
     ELSE /\ Then(p, Do("mark", 0, <<>>, count)) /\ mkmutex' = Waited(mkmutex, p)
          /\ PortsAlone /\ UNCHANGED marked
  /\ UNCHANGED <<poolVars, kills, calls, panicked>>

\* mark after its wait; its signal hands the processor over if another process waits,
\* and pinit comes when it is back.
FinishMark(p) ==
  /\ At(p, "mark") /\ ~Contains(mkmutex.q, p)
  /\ marked' = TRUE /\ mkmutex' = Signaled(mkmutex)
  /\ IF Frees(mkmutex)
     THEN Then(p, Do("pinit", 0, <<>>, cont[p].n)) /\ PortsAlone
     ELSE PinitAndNewPort(p, cont[p].n)
  /\ UNCHANGED <<poolVars, kills, calls, panicked>>

FinishPinit(p) ==
  /\ At(p, "pinit")
  /\ PinitAndNewPort(p, cont[p].n)
  /\ UNCHANGED <<poolVars, kills, calls, panicked, mkmutex, marked>>

\* mark of another location by a process with interrupts enabled (login, getdmem): it
\* can be preempted between wait and signal.
MarkOther(p) ==
  /\ Call(p, "mark")
  /\ mkmutex' = Waited(mkmutex, p)
  /\ Then(p, Do("other", 0, <<>>, 0))
  /\ PortsAlone /\ UNCHANGED <<poolVars, kills, calls, panicked, marked>>

FinishOther(p) ==
  /\ At(p, "other") /\ ~Contains(mkmutex.q, p)
  /\ mkmutex' = Signaled(mkmutex) /\ Then(p, Idle)
  /\ PortsAlone /\ UNCHANGED <<poolVars, kills, calls, panicked, marked>>

------------------------------------------------------------------------------
(* Sending and receiving. *)

\* psend once there is room: a node, the message at the tail, signal the receivers.
Put(p, port, b) ==
  IF ptfree = 0
  THEN panicked' = TRUE /\ UNCHANGED <<ptq, ptrsem, ptfree, held, cont>>
  ELSE /\ ptfree' = ptfree - 1 /\ Then(p, Idle)
       /\ ptq' = [ptq EXCEPT ![port] = Append(@, b)]
       /\ ptrsem' = [ptrsem EXCEPT ![port] = Signaled(@)]
       /\ held' = [held EXCEPT ![p] = @ \ {b}] /\ UNCHANGED panicked

\* preceive once there is a message: the head, its node, signal the senders.
Take(p, port) ==
  /\ held' = [held EXCEPT ![p] = @ \cup {Head(ptq[port])}]
  /\ ptq' = [ptq EXCEPT ![port] = Tail(@)]
  /\ ptfree' = ptfree + 1
  /\ ptssem' = [ptssem EXCEPT ![port] = Signaled(@)]

SendUnchanged ==
  UNCHANGED <<tableVars, markVars, lostVars, nbpools, bpnext, bpsem, lostUnits, semsLeft, kills, calls>>

Psend(p, port, b) ==
  /\ Call(p, "psend") /\ b \in held[p]
  /\ marked /\ ptstate[port] = "alloc" /\ ptssem[port].ok
  /\ ptssem' = [ptssem EXCEPT ![port] = Waited(@, p)]
  /\ IF Blocks(ptssem[port])
     THEN /\ Then(p, Do("psend", port, b, ptseq[port]))
          /\ UNCHANGED <<ptq, ptrsem, ptfree, panicked, held>>
     ELSE Put(p, port, b)
  /\ SendUnchanged

\* The port is the one the call was made for: neither cleared nor created anew.
Still(p) == ptstate[cont[p].on] = "alloc" /\ ptseq[cont[p].on] = cont[p].n

FinishPsend(p) ==
  LET port == cont[p].on IN
  /\ At(p, "psend") /\ ~Contains(ptssem[port].q, p)
  /\ IF Still(p) THEN Put(p, port, cont[p].buf)
     ELSE Then(p, Idle) /\ UNCHANGED <<ptq, ptrsem, ptfree, panicked, held>>
  /\ UNCHANGED ptssem /\ SendUnchanged

Preceive(p, port) ==
  /\ Call(p, "preceive")
  /\ marked /\ ptstate[port] = "alloc" /\ ptrsem[port].ok
  /\ ptrsem' = [ptrsem EXCEPT ![port] = Waited(@, p)]
  /\ IF Blocks(ptrsem[port])
     THEN Then(p, Do("preceive", port, <<>>, ptseq[port])) /\ UNCHANGED <<ptq, ptssem, ptfree, held>>
     ELSE Then(p, Idle) /\ ptq[port] # <<>> /\ Take(p, port)
  /\ UNCHANGED panicked /\ SendUnchanged

FinishPreceive(p) ==
  LET port == cont[p].on IN
  /\ At(p, "preceive") /\ ~Contains(ptrsem[port].q, p)
  /\ Then(p, Idle)
  /\ IF Still(p) THEN ptq[port] # <<>> /\ Take(p, port)
     ELSE UNCHANGED <<ptq, ptssem, ptfree, held>>
  /\ UNCHANGED <<ptrsem, panicked>> /\ SendUnchanged

------------------------------------------------------------------------------
(* Clearing: _ptclear, which preset and pdelete call.  The port is in limbo while the *)
(* processor may go to those it lets go; where it is back, _ptclear goes on.          *)

\* freebuf of a message, on the pools' lists and semaphores.
Freeing(d, b) == [next |-> [d.next EXCEPT ![b[1]] = <<b>> \o @],
                  sem |-> [d.sem EXCEPT ![b[1]] = Signaled(@)]]

\* dispose of messages i to j of a queue, of which at most the last frees a process.
DisposeAll(q, i, j) ==
  LET d[m \in 0 .. j] == IF m < i THEN [next |-> bpnext, sem |-> bpsem] ELSE Freeing(d[m-1], q[m])
  IN  d[j]
Disposed(q, i, j) == bpnext' = DisposeAll(q, i, j).next /\ bpsem' = DisposeAll(q, i, j).sem

\* Mutant: a reset lets the waiting go but leaves the count of what was taken.
ClearedUncounted(s, to, n) ==
  IF to = "free" THEN NoSem
  ELSE IF s.ok THEN [s EXCEPT !.n = IF @ < 0 THEN 0 ELSE @, !.q = <<>>] ELSE s

\* sreset or sdelete of a semaphore of the port, and whether it reschedules: sreset
\* always does, sdelete if somebody waited, neither if there is no such semaphore.
Cleared(s, to, n) == IF to = "alloc" THEN WasReset(s, n) ELSE NoSem
Yields(s, to) == s.ok /\ (to = "alloc" \/ s.q # <<>>)
GivenBack(s, to) == IF s.ok /\ to = "free" THEN 1 ELSE 0

\* The last steps, on a record of what they change; op says where the process stops.
Reopened(d, to) == [d EXCEPT !.state = to, !.op = "user"]

\* Mutant: the receivers are forgotten.
RClearNot(d, to) == Reopened(d, to)

RClear(d, to) ==
  LET e == [d EXCEPT !.r = Cleared(@, to, 0), !.left = @ + GivenBack(d.r, to), !.op = "clearEnd"]
  IN  IF Yields(d.r, to) THEN e ELSE Reopened(e, to)

SClear(d, to, count) ==
  LET e == [d EXCEPT !.s = Cleared(@, to, count), !.left = @ + GivenBack(d.s, to), !.op = "clearR"]
  IN  IF Yields(d.s, to) THEN e ELSE RClear(e, to)

Clearing(port) == [state |-> "limbo", s |-> ptssem[port], r |-> ptrsem[port], left |-> semsLeft,
                   op |-> "clearS"]
StopAt(p, op, port, n, to) ==
  Then(p, IF op = "user" THEN Idle ELSE [Do(op, port, <<>>, n) EXCEPT !.to = to])

SetPort(p, port, to, d) ==
  /\ ptstate' = [ptstate EXCEPT ![port] = d.state]
  /\ ptssem' = [ptssem EXCEPT ![port] = d.s] /\ ptrsem' = [ptrsem EXCEPT ![port] = d.r]
  /\ semsLeft' = d.left /\ StopAt(p, d.op, port, 0, to)

\* Mutant: of the nodes only the first goes back to the free list.
ClearFromOneNode(p, port, i, to) ==
  LET q == ptq[port]
      frees == {j \in i .. Len(q) : Frees(bpsem[q[j][1]])}
  IN IF frees # {}
     THEN /\ Disposed(q, i, Min(frees))
          /\ ptstate' = [ptstate EXCEPT ![port] = "limbo"]
          /\ StopAt(p, "dispose", port, Min(frees) + 1, to)
          /\ UNCHANGED <<ptssem, ptrsem, semsLeft, ptq, ptfree>>
     ELSE /\ Disposed(q, i, Len(q))
          /\ ptfree' = ptfree + (IF q = <<>> THEN 0 ELSE 1) /\ ptq' = [ptq EXCEPT ![port] = <<>>]
          /\ SetPort(p, port, to, SClear(Clearing(port), to, ptmaxcnt[port]))

\* From message i on: until a freebuf reschedules, or to the end of the list and further.
ClearFrom(p, port, i, to) ==
  LET q == ptq[port]
      frees == {j \in i .. Len(q) : Frees(bpsem[q[j][1]])}
  IN IF frees # {}
     THEN /\ Disposed(q, i, Min(frees))
          /\ ptstate' = [ptstate EXCEPT ![port] = "limbo"]
          /\ StopAt(p, "dispose", port, Min(frees) + 1, to)
          /\ UNCHANGED <<ptssem, ptrsem, semsLeft, ptq, ptfree>>
     ELSE /\ Disposed(q, i, Len(q))
          /\ ptfree' = ptfree + Len(q) /\ ptq' = [ptq EXCEPT ![port] = <<>>]
          /\ SetPort(p, port, to, SClear(Clearing(port), to, ptmaxcnt[port]))

ClearUnchanged ==
  UNCHANGED <<ptmaxcnt, ptnextp, panicked, markVars, nbpools, held, lostUnits, kills, calls>>

\* Mutant: ptseq stays.
PtclearKeepSeq(p, port, to) ==
  /\ marked /\ ptstate[port] = "alloc" /\ MoreGenerations
  /\ lostS' = [lostS EXCEPT ![port] = 0] /\ lostR' = [lostR EXCEPT ![port] = 0]
  /\ UNCHANGED ptseq
  /\ ClearFrom(p, port, 1, to) /\ ClearUnchanged

Ptclear(p, port, to) ==
  /\ marked /\ ptstate[port] = "alloc" /\ MoreGenerations
  /\ lostS' = [lostS EXCEPT ![port] = 0] /\ lostR' = [lostR EXCEPT ![port] = 0]
  /\ ptseq' = [ptseq EXCEPT ![port] = @ + 1]
  /\ ClearFrom(p, port, 1, to) /\ ClearUnchanged

Preset(p, port) == Call(p, "preset") /\ Ptclear(p, port, "alloc")
Pdelete(p, port) == Call(p, "pdelete") /\ Ptclear(p, port, "free")

\* Mutant: after a reschedule the loop starts again.
FinishDisposeAgain(p) ==
  /\ At(p, "dispose")
  /\ ClearFrom(p, cont[p].on, 1, cont[p].to)
  /\ UNCHANGED <<ptseq, lostVars>> /\ ClearUnchanged

FinishDispose(p) ==
  /\ At(p, "dispose")
  /\ ClearFrom(p, cont[p].on, cont[p].n, cont[p].to)
  /\ UNCHANGED <<ptseq, lostVars>> /\ ClearUnchanged

FinishClear(p) ==
  LET port == cont[p].on to == cont[p].to IN
  /\ At(p, "clearR") \/ At(p, "clearEnd")
  /\ SetPort(p, port, to, IF At(p, "clearR") THEN RClear(Clearing(port), to)
                          ELSE Reopened(Clearing(port), to))
  /\ UNCHANGED <<ptq, ptfree, bpnext, bpsem, ptseq, lostVars>> /\ ClearUnchanged

------------------------------------------------------------------------------
(* kill, of a process that waits or not: what it has, it has for good. *)

\* The processes let go by a semaphore of the port that will find it as they left it.
Senders(port) == {p \in Released("psend", ptssem[port]) : cont[p].on = port /\ Still(p)}
Receivers(port) == {p \in Released("preceive", ptrsem[port]) : cont[p].on = port /\ Still(p)}
Getters(pool) == {p \in Released("getbuf", bpsem[pool]) : cont[p].on = pool}
Freers(pool) == {p \in Procs : At(p, "freebuf") /\ cont[p].on = pool}

Kill(p) ==
  LET one(S) == IF p \in S THEN 1 ELSE 0 IN
  /\ "kill" \in calls /\ kills < MaxKills /\ ~At(p, "dead")
  /\ \E q \in Procs \ {p} : cont[q] = Idle
  /\ kills' = kills + 1
  /\ Then(p, Do("dead", 0, <<>>, 0))
  /\ ptssem' = [port \in Ports |-> Left(ptssem[port], p)]
  /\ ptrsem' = [port \in Ports |-> Left(ptrsem[port], p)]
  /\ bpsem' = [pool \in Pools |-> Left(bpsem[pool], p)]
  /\ mkmutex' = Left(mkmutex, p)
  /\ lostS' = [port \in Ports |-> lostS[port] + one(Senders(port))]
  /\ lostR' = [port \in Ports |-> lostR[port] + one(Receivers(port))]
  /\ lostUnits' = [k \in Pools |-> lostUnits[k] + one(Getters(k)) + one(Freers(k))]
  /\ UNCHANGED <<tableVars, ptq, ptfree, panicked, semsLeft, marked, pinits, calls, nbpools,
                 bpnext, held>>

PortStep(p) ==
  \/ \E count \in Counts : Pcreate(p, count)
  \/ FinishMark(p) \/ FinishPinit(p) \/ MarkOther(p) \/ FinishOther(p)
  \/ \E port \in Ports : \/ \E b \in Bufs : Psend(p, port, b)
                         \/ Preceive(p, port) \/ Preset(p, port) \/ Pdelete(p, port)
  \/ FinishPsend(p) \/ FinishPreceive(p) \/ FinishDispose(p) \/ FinishClear(p)
  \/ Kill(p)

PoolAlone == UNCHANGED <<tableVars, queueVars, markVars, lostVars>>

Next == /\ ~panicked
        /\ \E p \in Procs : PortStep(p) \/ (PoolStep(p) /\ PoolAlone)

Init ==
  /\ ClientsInit /\ PoolInit
  /\ ptstate = [id \in Ports |-> "free"] /\ ptseq = [id \in Ports |-> 0]
  /\ ptmaxcnt = [id \in Ports |-> 0] /\ ptq = [id \in Ports |-> <<>>]
  /\ ptssem = [id \in Ports |-> NoSem] /\ ptrsem = [id \in Ports |-> NoSem]
  /\ ptfree = 0 /\ ptnextp = 0 /\ panicked = FALSE
  /\ mkmutex = Sem(1) /\ marked = FALSE /\ pinits = 0
  /\ lostS = [id \in Ports |-> 0] /\ lostR = [id \in Ports |-> 0]

Spec == Init /\ [][Next]_vars

------------------------------------------------------------------------------
(* Safety. *)

\* Every unit of an open port's semaphores is accounted for, through resets, kills and
\* switches in the middle of calls: room is what is free, what was promised to senders
\* that were let go and what the messages take, and a message is there for every unit
\* of the receivers' semaphore and every receiver that was let go.  preceive, which
\* follows the head of the list without a look, depends on it.
RoomAccounted ==
  ~panicked => \A port \in Ports : ptstate[port] = "alloc" =>
    LET s == ptssem[port] r == ptrsem[port] IN
    /\ s.ok => s.n + Len(s.q) + Cardinality(Senders(port)) + Len(ptq[port]) + lostS[port]
               = ptmaxcnt[port]
    /\ r.ok => r.n + Len(r.q) + Cardinality(Receivers(port)) + lostR[port] = Len(ptq[port])

\* A pool's list holds a buffer for every unit of its semaphore and every process between
\* getbuf's wait and its list, or freebuf's list and its signal.
PoolAccounted ==
  \A pool \in 0 .. nbpools - 1 : bpsem[pool].ok =>
    bpsem[pool].n + Len(bpsem[pool].q) + Cardinality(Getters(pool)) + Cardinality(Freers(pool))
      + lostUnits[pool] = Len(bpnext[pool])

\* No node is lost or made, clearing a port gives its nodes back; and psend runs out of
\* nodes only when the bounds of the ports promise more than there are.
Shares(n) == UNION {{port} \X (1 .. n[port]) : port \in Ports}   \* n[port] for each port
Queued == [port \in Ports |-> Len(ptq[port])]
Promised == [port \in Ports |-> IF ptstate[port] = "free" THEN 0 ELSE ptmaxcnt[port]]
NodesSuffice ==
  /\ pinits = 1 => ptfree + Cardinality(Shares(Queued)) = MaxMsgs
  /\ panicked => Cardinality(Shares(Promised)) > MaxMsgs

\* Who waits at a port waits at the port of its call; after a clearing nobody is left
\* behind at a semaphore that others signal for themselves.
NobodyForgotten ==
  \A port \in Ports, p \in Procs :
    /\ Contains(ptssem[port].q, p) =>
         At(p, "psend") /\ cont[p].on = port /\ (Still(p) \/ ptstate[port] = "limbo")
    /\ Contains(ptrsem[port].q, p) =>
         At(p, "preceive") /\ cont[p].on = port /\ (Still(p) \/ ptstate[port] = "limbo")

\* A buffer is in one place: the list of its pool, the queue of a port, or with a
\* process.  A clearing whose process was killed leaves its port's messages in doubt.
Disposing(port) == {p \in Procs : At(p, "dispose") /\ cont[p].on = port}
Undisposed(port) ==
  IF ptstate[port] # "limbo" THEN ptq[port]
  ELSE IF Disposing(port) = {} THEN <<>>
  ELSE LET p == CHOOSE x \in Disposing(port) : TRUE IN SubSeq(ptq[port], cont[p].n, Len(ptq[port]))
InDoubt(b) == \E port \in Ports : ptstate[port] = "limbo" /\ Disposing(port) = {} /\ Contains(ptq[port], b)
Where(b, l) == {i \in 1 .. Len(l) : l[i] = b}
Places(b) ==
  ({"pool"} \X {b[1]} \X Where(b, bpnext[b[1]]))
  \cup (UNION {{"port"} \X {port} \X Where(b, Undisposed(port)) : port \in Ports})
  \cup ({"process"} \X {p \in Procs : b \in held[p]} \X {1})
BuffersInOnePlace ==
  \A b \in Bufs : b[1] < nbpools =>
    Cardinality(Places(b)) = 1 \/ (Places(b) = {} /\ InDoubt(b))

\* mark.2 "It returns 0 if the location is already marked": of all the processes that
\* find the ports not yet initialized one initializes them.
MarkedOnce == pinits <= 1

------------------------------------------------------------------------------
(* What the manual promises. *)

Asked(p) ==
  CASE At(p, "psend")    -> [op |-> "send", on |-> cont[p].on, gen |-> cont[p].n]
    [] At(p, "preceive") -> [op |-> "recv", on |-> cont[p].on, gen |-> cont[p].n]
    [] At(p, "dead")     -> [op |-> "dead", on |-> 0, gen |-> 0]
    [] OTHER             -> [op |-> "none", on |-> 0, gen |-> 0]

\* The port table implements bounded queues with generations: messages arrive in order
\* and only with calls of the generation they were sent in, a port never holds more than
\* its bound, and a call fails only if its port was cleared or deleted meanwhile.
AbsPorts == INSTANCE AbsPort WITH
  open <- [port \in Ports |-> ptstate[port] = "alloc"], gen <- ptseq, bound <- ptmaxcnt,
  chan <- [port \in Ports |-> IF ptstate[port] = "alloc" THEN ptq[port] ELSE <<>>],
  asked <- [p \in Procs |-> Asked(p)]
InitOnce == pinits' <= 1 /\ \A p \in Procs : ~At(p, "pinit")
PortRefinement ==    \* a pinit that wipes out ports in use is left out: see MarkedOnce
  AbsPorts!Init /\ [][InitOnce => AbsPorts!Next]_(AbsPorts!vars)
================================================================================
