-------------------------------- MODULE Datagram --------------------------------
(***************************************************************************)
(* Datagrams: the pseudo-devices that programs open, close, read, write    *)
(* and control, the table that sends what comes in to the ports behind     *)
(* them, and ICMP echoes, which netin hands to netout.                     *)
(***************************************************************************)
EXTENDS Route

CONSTANTS
  Ndg, NETQLEN, NETFQ,      (* devices, as many queues; their lengths        *)
  UdpPorts,                 (* UDP ports that datagrams come for             *)
  MaxInputs                 (* bound: packets that come in and calls         *)

ASSUME DatagramAssumption ==
  /\ Ndg \in Nat \ {0} /\ NETQLEN \in Nat \ {0} /\ NETFQ \in Nat \ {0}
  /\ UdpPorts \subseteq Nat \ {0} /\ UdpPorts # {} /\ MaxInputs \in Nat

Devices == 0 .. Ndg - 1
Unbound == -1
ULPORT == Min(UdpPorts)

VARIABLES
  dgtab,      (* each device: in use, DG_TMODE, its queue, local port, opener *)
  netqs,      (* each queue: valid, UDP port, reader in a timed wait, packets, *)
              (* with the one netin holds when psend makes it wait for room   *)
  nxtprt,
  icmpq,      (* port icmpp: the sources of the echoes, likewise             *)
  leaked,     (* history: packets for a port that was being cleared          *)
  inputs

dgVars == <<dgtab, netqs, nxtprt, icmpq, leaked>>
dgramOwn == <<routeOwn, dgVars, inputs>>

Input == inputs < MaxInputs /\ inputs' = inputs + 1
Calls(p) == At(p, "user") /\ Input
Opened(p, d) == dgtab[d].used /\ dgtab[d].opener = p
QueueOf(d) == dgtab[d].netq
Awaits(p, at, d) == Then(p, [Where(at) EXCEPT !.ix = d])

\* The port of queue n is in limbo while a process clears it.
Limbo(n) == \E p \in Procs : At(p, "clear") /\ QueueOf(cont[p].ix) = n

------------------------------------------------------------------------------
(* Open and close. *)

BoundTo(u) == {n \in Devices : netqs[n].valid /\ netqs[n].uport = u}
FreeDevices == {d \in Devices : ~dgtab[d].used}
FreeQueues == {n \in Devices : ~netqs[n].valid}

\* udpnxtp: the first port from nxtprt on that no queue is bound to.
Udpnxtp == Min({u \in nxtprt .. nxtprt + Ndg : BoundTo(u) = {}})

Opens(p, d, n, u) ==
  /\ dgtab' = [dgtab EXCEPT ![d] =
       [used |-> TRUE, timed |-> FALSE, netq |-> n, lport |-> u, opener |-> p]]
  /\ netqs' = [netqs EXCEPT ![n].valid = TRUE, ![n].uport = u, ![n].pid = Nobody]

\* Mutant: dgmopen does not look whether the port is taken.
DgmopenAnyPort(p, u) ==
  /\ Calls(p)
  /\ IF FreeDevices = {} \/ FreeQueues = {} THEN UNCHANGED <<dgtab, netqs, nxtprt>>
     ELSE /\ nxtprt' = IF u = 0 THEN Udpnxtp + 1 ELSE nxtprt
          /\ Opens(p, Min(FreeDevices), Min(FreeQueues), IF u = 0 THEN Udpnxtp ELSE u)
  /\ UNCHANGED <<routeVars, icmpq, leaked>>

\* dgmopen for local port u, or for any (0); nxtprt moves on even when nqalloc fails.
Dgmopen(p, u) ==
  /\ Calls(p)
  /\ IF FreeDevices = {} THEN UNCHANGED <<dgtab, netqs, nxtprt>>
     ELSE /\ nxtprt' = IF u = 0 THEN Udpnxtp + 1 ELSE nxtprt
          /\ IF FreeQueues = {} \/ BoundTo(u) # {} THEN UNCHANGED <<dgtab, netqs>>
             ELSE Opens(p, Min(FreeDevices), Min(FreeQueues), IF u = 0 THEN Udpnxtp ELSE u)
  /\ UNCHANGED <<routeVars, icmpq, leaked>>

\* The packets stay in the port.
Dgclose(p, d) ==
  /\ Calls(p) /\ Opened(p, d)
  /\ dgtab' = [dgtab EXCEPT ![d].used = FALSE]
  /\ netqs' = [netqs EXCEPT ![QueueOf(d)].valid = FALSE, ![QueueOf(d)].uport = Unbound,
                            ![QueueOf(d)].pid = Nobody]
  /\ UNCHANGED <<routeVars, nxtprt, icmpq, leaked>>

DgcntlSetmode(p, d) ==
  /\ Calls(p) /\ Opened(p, d)
  /\ \E t \in BOOLEAN : dgtab' = [dgtab EXCEPT ![d].timed = t]
  /\ UNCHANGED <<routeVars, netqs, nxtprt, icmpq, leaked>>

------------------------------------------------------------------------------
(* DG_CLEAR, with interrupts disabled: the port stays in limbo until the last packet  *)
(* is freed, where freebuf reschedules when somebody waits for a buffer, and over the *)
(* two sresets, which always reschedule.                                              *)

Disposes(d) ==
  LET n == QueueOf(d) queued == netqs[n].queued
      k == IF queued > 0 /\ Frees(pool) THEN 1 ELSE queued
  IN  pool' = SignaledBy(pool, k) /\ netqs' = [netqs EXCEPT ![n].queued = @ - k]

DgcntlClear(p, d) ==
  /\ Calls(p) /\ Opened(p, d) /\ Disposes(d) /\ Awaits(p, "clear", d)
  /\ UNCHANGED <<nmutex, tableVars, askVars, bootVars, mail, sentVars,
                 dgtab, nxtprt, icmpq, leaked>>

ClearsOn(p) ==
  /\ At(p, "clear")
  /\ IF netqs[QueueOf(cont[p].ix)].queued > 0 THEN Disposes(cont[p].ix) /\ UNCHANGED cont
     ELSE Then(p, Where("user")) /\ UNCHANGED <<pool, netqs>>
  /\ UNCHANGED <<nmutex, tableVars, askVars, bootVars, mail, sentVars,
                 dgtab, nxtprt, icmpq, leaked, inputs>>

------------------------------------------------------------------------------
(* Reading and writing. *)

\* Who waits in preceive for a packet of queue n: its opener, if anybody.
Receivers(n) == {p \in Procs : At(p, "receive") /\ QueueOf(cont[p].ix) = n}
EchoAwaited == IF At(netout, "echo") THEN 1 ELSE 0

\* netin waits in psend: the messages are one more than the port has room for.
NetinWaitsAt(n) == netqs[n].queued > NETQLEN
NetinBlocked == Len(icmpq) > NETFQ \/ \E n \in Devices : NetinWaitsAt(n)

\* preceive, and freebuf when the packet is copied.
Receives(p, d) ==
  LET n == QueueOf(d) IN
  IF netqs[n].queued = 0
  THEN Awaits(p, "receive", d) /\ UNCHANGED <<pool, netqs>>
  ELSE /\ netqs' = [netqs EXCEPT ![n].queued = @ - 1]
       /\ pool' = Signaled(pool) /\ Then(p, Where("user"))

\* In timed mode, with a queue that is empty: announce oneself, and recvtim.
Dgread(p, d) ==
  /\ Calls(p) /\ Opened(p, d)
  /\ LET n == QueueOf(d) IN
     CASE ~dgtab[d].timed \/ (netqs[n].pid = Nobody /\ netqs[n].queued > 0) ->
            Receives(p, d) /\ UNCHANGED mail
       [] dgtab[d].timed /\ netqs[n].pid # Nobody -> UNCHANGED <<pool, netqs, cont, mail>>
       [] OTHER ->
            /\ netqs' = [netqs EXCEPT ![n].pid = p]
            /\ Awaits(p, IF mail[p] THEN "receive" ELSE "timed", d)
            /\ mail' = [mail EXCEPT ![p] = FALSE] /\ UNCHANGED pool
  /\ UNCHANGED <<nmutex, tableVars, askVars, bootVars, sentVars, dgtab, nxtprt, icmpq, leaked>>

DgreadTimesOut(p) ==
  /\ At(p, "timed") /\ ~mail[p] /\ Then(p, Where("user"))
  /\ netqs' = [netqs EXCEPT ![QueueOf(cont[p].ix)].pid = Nobody]
  /\ UNCHANGED <<pool, nmutex, tableVars, askVars, bootVars, mail, sentVars,
                 dgtab, nxtprt, icmpq, leaked, inputs>>

DgreadOn(p) ==
  /\ At(p, "timed") /\ mail[p] /\ mail' = [mail EXCEPT ![p] = FALSE] /\ Receives(p, cont[p].ix)
  /\ UNCHANGED <<nmutex, tableVars, askVars, bootVars, sentVars,
                 dgtab, nxtprt, icmpq, leaked, inputs>>

\* psend is over: netin tells the reader in a timed wait, and gets the next buffer.
Told(n) == [p \in Procs |-> mail[p] \/ p = netqs[n].pid]

\* A receiver that netin has released before; preceive's signal lets netin go on, at once,
\* if it waits for room.
Preceived(p) ==
  LET n == QueueOf(cont[p].ix) IN
  /\ At(p, "receive") /\ netqs[n].queued > 0
  /\ IF ~NetinWaitsAt(n) THEN Receives(p, cont[p].ix) /\ UNCHANGED mail
     ELSE /\ netqs' = [netqs EXCEPT ![n].queued = @ - 1, ![n].pid = Nobody]
          /\ mail' = Told(n) /\ pool' = Signaled(Waited(pool, netin)) /\ Then(p, Where("user"))
  /\ UNCHANGED <<nmutex, tableVars, askVars, bootVars, sentVars,
                 dgtab, nxtprt, icmpq, leaked, inputs>>

\* dgwrite, udpsend and ipsend, up to the wait for a buffer; a is the address route looks
\* for, Nobody for a device in data mode that has no foreign port.
Dgwrite(p, d, a) ==
  /\ Calls(p) /\ Opened(p, d)
  /\ pool' = Waited(pool, p) /\ Then(p, [Where("write") EXCEPT !.to = a])
  /\ UNCHANGED <<nmutex, tableVars, askVars, bootVars, mail, sentVars, dgVars>>

DgwriteOn(p) ==
  /\ At(p, "write") /\ ~Contains(pool.q, p)
  /\ IF cont[p].to = Nobody THEN pool' = Signaled(pool) /\ Then(p, Where("user"))
     ELSE Goes(p, "route") /\ UNCHANGED pool
  /\ UNCHANGED <<nmutex, tableVars, askVars, bootVars, mail, sentVars, dgVars, inputs>>

\* netout waits in preceive, and takes an echo to send it back; netin may wait for the room.
NetoutListens ==
  /\ At(netout, "serve") /\ icmpq = <<>> /\ Goes(netout, "echo")
  /\ UNCHANGED <<routeOwn, dgVars, inputs>>

NetoutTakes ==
  /\ At(netout, "serve") \/ At(netout, "echo")
  /\ icmpq # <<>> /\ icmpq' = Tail(icmpq)
  /\ pool' = IF Len(icmpq) > NETFQ THEN Waited(pool, netin) ELSE pool
  /\ Then(netout, [Where("route") EXCEPT !.to = Head(icmpq)])
  /\ UNCHANGED <<nmutex, tableVars, askVars, bootVars, mail, sentVars,
                 dgtab, netqs, nxtprt, leaked, inputs>>

------------------------------------------------------------------------------
(* netin: ip_in and icmp_in. *)

Arrives == Input /\ ~NetinBlocked

\* pcount is the count of ptrsem: messages that released receivers will take are not in it.
Pcount(n) == netqs[n].queued - Cardinality(Receivers(n))

\* pcount says SYSERR (less than any length) of a port in limbo, and psend refuses that
\* one: the packet is lost with its buffer.  psend waits where the room is only what a
\* released receiver will leave.
Delivered(n) ==
  \/ /\ Limbo(n)
     /\ leaked' = leaked + 1 /\ netqs' = [netqs EXCEPT ![n].pid = Nobody]
     /\ mail' = Told(n) /\ pool' = Waited(pool, netin)
  \/ /\ ~Limbo(n) /\ Pcount(n) >= NETQLEN
     /\ NextBuffer /\ UNCHANGED <<netqs, mail, leaked>>
  \/ /\ ~Limbo(n) /\ Pcount(n) < NETQLEN /\ netqs[n].queued < NETQLEN
     /\ netqs' = [netqs EXCEPT ![n].queued = @ + 1, ![n].pid = Nobody]
     /\ mail' = Told(n) /\ pool' = Waited(pool, netin) /\ UNCHANGED leaked
  \/ /\ ~Limbo(n) /\ Pcount(n) < NETQLEN /\ netqs[n].queued >= NETQLEN
     /\ netqs' = [netqs EXCEPT ![n].queued = @ + 1] /\ UNCHANGED <<mail, pool, leaked>>

\* A datagram for UDP port u goes to the first queue bound to it.
UdpIn(u) ==
  /\ Reads /\ Arrives
  /\ LET bound == {n \in Devices : netqs[n].uport = u} IN
     IF bound = {} THEN NextBuffer /\ UNCHANGED <<netqs, mail, leaked>> ELSE Delivered(Min(bound))
  /\ UNCHANGED <<nmutex, tableVars, askVars, bootVars, sentVars, cont, dgtab, nxtprt, icmpq>>

\* Mutant: icmp_in keeps the packet that finds the queue full.
IcmpInKeeps(a) ==
  /\ Reads /\ Arrives
  /\ IF mavalid THEN pool' = Waited(pool, netin) ELSE NextBuffer
  /\ icmpq' = IF mavalid /\ Len(icmpq) < NETFQ THEN Append(icmpq, a) ELSE icmpq
  /\ UNCHANGED <<nmutex, tableVars, askVars, bootVars, mail, sentVars, cont,
                 dgtab, netqs, nxtprt, leaked>>

IcmpIn(a) ==
  /\ Reads /\ Arrives
  /\ IF mavalid /\ Len(icmpq) - EchoAwaited < NETFQ
     THEN /\ icmpq' = Append(icmpq, a)
          /\ pool' = IF Len(icmpq) < NETFQ THEN Waited(pool, netin) ELSE pool
     ELSE NextBuffer /\ UNCHANGED icmpq
  /\ UNCHANGED <<nmutex, tableVars, askVars, bootVars, mail, sentVars, cont,
                 dgtab, netqs, nxtprt, leaked>>

DatagramStep(p) ==
  \/ \E u \in UdpPorts \cup {0} : Dgmopen(p, u)
  \/ \E d \in Devices : Dgclose(p, d) \/ DgcntlSetmode(p, d) \/ DgcntlClear(p, d) \/ Dgread(p, d)
  \/ \E d \in Devices, a \in Hosts \cup {Broadcast, Nobody} : Dgwrite(p, d, a)
  \/ ClearsOn(p) \/ DgreadTimesOut(p) \/ DgreadOn(p) \/ Preceived(p) \/ DgwriteOn(p)

InternetNext ==
  /\ ~halted /\ ~beyond
  /\ \/ Sndrarp /\ UNCHANGED <<dgVars, inputs>>
     \/ RarpAnswered /\ UNCHANGED <<dgVars, inputs>>
     \/ RarpTimesOut /\ UNCHANGED <<dgVars, inputs>>
     \/ \E p \in Procs : RouteStep(p) /\ UNCHANGED <<dgVars, inputs>>
     \/ RouteIn /\ Arrives /\ UNCHANGED dgVars
     \/ \E p \in Procs : DatagramStep(p)
     \/ NetoutListens
     \/ NetoutTakes
     \/ \E u \in UdpPorts : UdpIn(u)
     \/ \E a \in Hosts : IcmpIn(a)

InternetInit ==
  /\ RouteInit
  /\ dgtab = [d \in Devices |-> [used |-> FALSE, timed |-> FALSE, netq |-> d, lport |-> 0, opener |-> Nobody]]
  /\ netqs = [n \in Devices |-> [valid |-> FALSE, uport |-> Unbound, pid |-> Nobody, queued |-> 0]]
  /\ nxtprt = ULPORT /\ icmpq = <<>> /\ leaked = 0 /\ inputs = 0

------------------------------------------------------------------------------
(* Safety. *)

\* Who waits for an answer can still get it: a process in getpath's wait without a message
\* is the one arp_in will wake, for the address it asked for; one in a timed read without
\* a message is the one ip_in will wake, and nothing lies in its queue.
AnswerReaches ==
  \A p \in Procs : ~mail[p] =>
    /\ At(p, "await") => arppid = p /\ arpwant = cont[p].to
    /\ At(p, "timed") => LET n == QueueOf(cont[p].ix) IN netqs[n].pid = p /\ netqs[n].queued = 0
    /\ At(p, "rarp") => rarppid = p

\* Each network buffer is free, with netin, with one process that writes or asks, or in
\* one queue, but for those that ip_in loses when it finds a port being cleared and those
\* written to device -1; and netin waits in psend for nobody but a receiver that has been
\* released and is about to make room, at one port at most.
HoldingAt == {"route", "turn", "insert", "advance", "rewind", "mark", "name", "zero", "found",
              "request", "ask", "await", "answered", "test", "gate"}
Holding == {p \in Procs : \/ At(p, "write") /\ ~Contains(pool.q, p)
                          \/ cont[p].at \in HoldingAt}
Asking == {p \in Procs : At(p, "ask") /\ ~Contains(pool.q, p)}
InQueues == UNION {{n} \X (1 .. netqs[n].queued) : n \in Devices}
PacketBuffers ==
  /\ NETBUFS = Max({pool.n, 0}) + (IF Contains(pool.q, netin) \/ NetinBlocked THEN 0 ELSE 1)
       + Cardinality(Holding) + Cardinality(Asking) + Len(icmpq)
       + Cardinality(InQueues) + leaked + lost
  /\ Len(icmpq) <= NETFQ + EchoAwaited
  /\ \A n \in Devices : /\ netqs[n].queued <= NETQLEN + Cardinality(Receivers(n))
                        /\ Len(icmpq) > NETFQ => ~NetinWaitsAt(n)
                        /\ \A m \in Devices : NetinWaitsAt(n) /\ NetinWaitsAt(m) => m = n

\* An open device has a queue to itself, and that queue the UDP port of the device, which
\* no other one is bound to: a datagram comes to the program that opened its port.
DevicesApart ==
  \A d \in Devices : dgtab[d].used =>
    /\ netqs[QueueOf(d)].valid /\ netqs[QueueOf(d)].uport = dgtab[d].lport
    /\ \A e \in Devices \ {d} : dgtab[e].used =>
         QueueOf(e) # QueueOf(d) /\ dgtab[e].lport # dgtab[d].lport

\* ip_in.c:43 "drop instead of blocking on psend"
NetinNeverBlocks == ~NetinBlocked

\* dgram.h:36 "timeout all reads": a read in timed mode never waits without a limit.
TimedReadReturns == \A p \in Procs : At(p, "receive") => ~dgtab[cont[p].ix].timed
=================================================================================
