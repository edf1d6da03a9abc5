---------------------------------- MODULE Route ----------------------------------
(***************************************************************************)
(* The way of a packet out of the machine: the network buffers, the table  *)
(* of Ethernet addresses that ARP fills, getpath and route, the address of *)
(* the machine itself (RARP), and what netin does with such packets.       *)
(***************************************************************************)
EXTENDS NetProcs

CONSTANTS
  netin,               (* the input process                                 *)
  Hosts, Gateway,      (* the addresses on this network, with the gateway's *)
  Broadcast,           (* host 0 of this network                            *)
  AR_TAB, AR_RTRY, NETBUFS

ASSUME RouteAssumption ==
  /\ netin \notin Procs /\ Gateway \in Hosts
  /\ AR_TAB \in Nat \ {0, 1} /\ AR_RTRY \in Nat \ {0} /\ NETBUFS \in Nat \ {0, 1}

VARIABLES
  pool,                (* the semaphore of Net.netpool                      *)
  nmutex,
  arptab, atabsiz, atabnxt,
  arppid, arpwant, rarppid, mavalid,
  mail,                (* phasmsg                                           *)
  halted,              (* panic                                             *)
  beyond,              (* an entry was put behind the table: the model stops *)
  reused, wrong,       (* history: did netin give an entry in use to another *)
                       (* address; went a packet to another one's address;  *)
  lost                 (* packets written to device -1, which nobody frees  *)

tableVars == <<arptab, atabsiz, atabnxt, beyond, reused>>
askVars == <<arppid, arpwant>>
bootVars == <<rarppid, mavalid, halted>>
sentVars == <<wrong, lost>>
routeOwn == <<pool, nmutex, tableVars, askVars, bootVars, mail, sentVars>>
routeVars == <<routeOwn, cont>>

Entries == 0 .. AR_TAB - 1
Home(p) == IF p = netout THEN "serve" ELSE "user"

\* After freebuf of its packet, if it is not passed on, netin gets a buffer for the next.
NextBuffer == pool' = Waited(Signaled(pool), netin)
Reads == ~Contains(pool.q, netin) /\ ~halted /\ ~beyond

------------------------------------------------------------------------------
(* The table.  Each entry has its state, its address, and the host whose Ethernet       *)
(* address it holds, which is Nobody where arp_dev is -1.                              *)

Known(a) == {i \in Entries : i < atabsiz /\ arptab[i].addr = a /\ arptab[i].state # "free"}

\* The second half of arpfind puts the address into the next entry, whatever is there.
Entered(a) ==
  /\ atabsiz' = Min({atabsiz + 1, AR_TAB})
  /\ atabnxt' = (atabnxt + 1) % AR_TAB
  /\ reused' = (reused \/ arptab[atabnxt].state # "free")
Fresh(a) == [arptab EXCEPT ![atabnxt] = [state |-> "alloc", addr |-> a, host |-> Nobody]]

\* What arp_in does to a table t: sender a is at entry i.
Resolved(t, i, a) ==
  IF t[i].state = "resolved" THEN t ELSE [t EXCEPT ![i].state = "resolved", ![i].host = a]

------------------------------------------------------------------------------
(* netin, which nobody preempts: arp_in and rarp_in. *)

\* Mutant: while an address is awaited its entry gets whatever comes.
LearntAsWanted(a) ==
  LET b == IF arppid # Nobody THEN arpwant ELSE a IN
  /\ \/ /\ Known(b) # {} /\ arptab' = Resolved(arptab, Min(Known(b)), a)
        /\ UNCHANGED <<atabsiz, atabnxt, reused>>
     \/ /\ Known(b) = {} /\ atabnxt \in Entries /\ arptab' = Resolved(Fresh(b), atabnxt, a)
        /\ Entered(b)
  /\ UNCHANGED beyond

\* The sender's entry, found or made.
Learnt(a) ==
  /\ \/ /\ Known(a) # {} /\ arptab' = Resolved(arptab, Min(Known(a)), a)
        /\ UNCHANGED <<atabsiz, atabnxt, reused>>
     \/ /\ Known(a) = {} /\ atabnxt \in Entries /\ arptab' = Resolved(Fresh(a), atabnxt, a)
        /\ Entered(a)
  /\ UNCHANGED beyond

\* arpfind is called by netin while a process has moved atabnxt behind the table: the entry
\* overwrites atabsiz, atabnxt, arpsem and arppid.
EntersBeyond(a) ==
  /\ Reads /\ Known(a) = {} /\ atabnxt \notin Entries /\ beyond' = TRUE
  /\ UNCHANGED <<pool, nmutex, arptab, atabsiz, atabnxt, reused, askVars, bootVars, mail, sentVars, cont>>

\* A request, for this machine (the answer is written in the same buffer) or another one.
ArpRequestIn(a) ==
  /\ Reads /\ Learnt(a) /\ NextBuffer
  /\ UNCHANGED <<nmutex, askVars, bootVars, mail, sentVars, cont>>

\* Mutant: the asker is struck out before the addresses are compared.
ArpReplyStrikesOut(a) ==
  /\ Reads /\ Learnt(a) /\ NextBuffer /\ arppid' = Nobody
  /\ mail' = [p \in Procs |-> mail[p] \/ (p = arppid /\ arpwant = a)]
  /\ UNCHANGED <<nmutex, arpwant, bootVars, sentVars, cont>>

\* A reply: the process that asked for this address, if any, is sent a message.
ArpReplyIn(a) ==
  /\ Reads /\ Learnt(a) /\ NextBuffer
  /\ IF arppid # Nobody /\ arpwant = a
     THEN arppid' = Nobody /\ mail' = [mail EXCEPT ![arppid] = TRUE]
     ELSE UNCHANGED <<arppid, mail>>
  /\ UNCHANGED <<nmutex, arpwant, bootVars, sentVars, cont>>

RarpReplyIn ==
  /\ Reads /\ NextBuffer /\ mavalid' = TRUE
  /\ IF rarppid # Nobody
     THEN rarppid' = Nobody /\ mail' = [mail EXCEPT ![rarppid] = TRUE]
     ELSE UNCHANGED <<rarppid, mail>>
  /\ UNCHANGED <<nmutex, tableVars, askVars, halted, sentVars, cont>>

------------------------------------------------------------------------------
(* Boot: netout calls getaddr, and then resumes the processes. *)

Booting == [p \in Procs |-> Where(IF p = netout THEN "boot" ELSE "unborn")]

\* sndrarp: a packet, with interrupts off from the request to the end of the wait.
Sndrarp ==
  /\ At(netout, "boot") /\ pool.n > 0 /\ ~halted
  /\ rarppid' = netout /\ mail' = [mail EXCEPT ![netout] = FALSE]
  /\ Goes(netout, "rarp")
  /\ UNCHANGED <<pool, nmutex, tableVars, askVars, mavalid, halted, sentVars>>

RarpAnswered ==
  /\ At(netout, "rarp") /\ mail[netout] /\ mail' = [mail EXCEPT ![netout] = FALSE]
  /\ cont' = [p \in Procs |-> Where(Home(p))]
  /\ UNCHANGED <<pool, nmutex, tableVars, askVars, bootVars, sentVars>>

RarpTimesOut ==
  /\ At(netout, "rarp") /\ ~mail[netout]
  /\ LET tried == cont[netout].try + 1 IN
     /\ halted' = (tried = AR_RTRY)
     /\ cont' = [cont EXCEPT ![netout].at = "boot", ![netout].try = tried]
  /\ UNCHANGED <<pool, nmutex, tableVars, askVars, rarppid, mavalid, mail, sentVars>>

------------------------------------------------------------------------------
(* route, by a process that holds a packet for the address cont[p].to, which is the  *)
(* gateway's when the destination is on another network.                             *)

\* The wait for nmutex.
RouteTurn(p) ==
  /\ At(p, "route") /\ nmutex' = Waited(nmutex, p) /\ Goes(p, "turn")
  /\ UNCHANGED <<pool, tableVars, askVars, bootVars, mail, sentVars>>

\* The packet goes to host h: ethwrite frees it when it has copied it.  A write to device -1
\* does nothing.
Leaves(p, h) ==
  /\ pool' = IF h = Nobody THEN pool ELSE Signaled(pool)
  /\ lost' = IF h = Nobody THEN lost + 1 ELSE lost
  /\ nmutex' = Signaled(nmutex)
  /\ wrong' = (wrong \/ h \notin {cont[p].to, Nobody})
  /\ Then(p, Where(Home(p)))

\* getpath, whose arpsem only the holder of nmutex ever waits for, up to arpfind's search.
Getpath(p) ==
  /\ At(p, "turn") /\ ~Contains(nmutex.q, p)
  /\ LET to == cont[p].to known == Known(to) IN
     IF to = Broadcast THEN Leaves(p, Broadcast)
     ELSE /\ IF known = {} THEN Goes(p, "insert")
             ELSE cont' = [cont EXCEPT ![p].ix = Min(known), ![p].try = 0, ![p].at = "found"]
          /\ UNCHANGED <<pool, nmutex, sentVars>>
  /\ UNCHANGED <<tableVars, askVars, bootVars, mail>>

\* arpfind inserts with interrupts enabled, and netin may run between any two of these steps.
\* It takes the next entry (the search passes over entry AR_TAB, where atabsiz itself lies,
\* should netin have made it the last one that counts) ...
Insert(p) ==
  /\ At(p, "insert") /\ atabsiz' = Min({atabsiz + 1, AR_TAB})
  /\ cont' = [cont EXCEPT ![p].ix = atabnxt, ![p].try = 0, ![p].at = "advance"]
  /\ UNCHANGED <<pool, nmutex, arptab, atabnxt, beyond, reused, askVars, bootVars, mail, sentVars>>

\* ... moves atabnxt on, at the end of the table in two steps ...
Advance(p) ==
  /\ At(p, "advance") /\ atabnxt' = atabnxt + 1
  /\ Goes(p, IF atabnxt + 1 >= AR_TAB THEN "rewind" ELSE "mark")
  /\ UNCHANGED <<pool, nmutex, arptab, atabsiz, beyond, reused, askVars, bootVars, mail, sentVars>>

Rewind(p) ==
  /\ At(p, "rewind") /\ atabnxt' = 0 /\ Goes(p, "mark")
  /\ UNCHANGED <<pool, nmutex, arptab, atabsiz, beyond, reused, askVars, bootVars, mail, sentVars>>

\* ... and fills the entry.
Fills(p, at, entry, next) ==
  /\ At(p, at) /\ arptab' = [arptab EXCEPT ![cont[p].ix] = entry] /\ Goes(p, next)
  /\ UNCHANGED <<pool, nmutex, atabsiz, atabnxt, beyond, reused, askVars, bootVars, mail, sentVars>>

MarkAlloc(p) == Fills(p, "mark", [arptab[cont[p].ix] EXCEPT !.state = "alloc"], "name")
CopyIad(p) == Fills(p, "name", [arptab[cont[p].ix] EXCEPT !.addr = cont[p].to], "zero")
ClearEad(p) == Fills(p, "zero", [arptab[cont[p].ix] EXCEPT !.host = Nobody], "found")

\* getpath looks at the entry that arpfind returned.
Found(p) ==
  /\ At(p, "found")
  /\ Goes(p, IF arptab[cont[p].ix].state = "alloc" THEN "request" ELSE "test")
  /\ UNCHANGED <<pool, nmutex, tableVars, askVars, bootVars, mail, sentVars>>

\* mkarp's buffer.
Mkarp(p) ==
  /\ At(p, "request") /\ pool' = Waited(pool, p) /\ Goes(p, "ask")
  /\ UNCHANGED <<nmutex, tableVars, askVars, bootVars, mail, sentVars>>

\* The request, with interrupts disabled, and the wait for the answer.
Ask(p) ==
  /\ At(p, "ask") /\ ~Contains(pool.q, p)
  /\ arpwant' = cont[p].to /\ arppid' = p
  /\ mail' = [mail EXCEPT ![p] = FALSE]
  /\ pool' = Signaled(pool) /\ Goes(p, "await")
  /\ UNCHANGED <<nmutex, tableVars, bootVars, sentVars>>

Answered(p) ==
  /\ At(p, "await") /\ mail[p] /\ mail' = [mail EXCEPT ![p] = FALSE]
  /\ Goes(p, "answered")
  /\ UNCHANGED <<pool, nmutex, tableVars, askVars, bootVars, sentVars>>

TimesOut(p) ==
  /\ At(p, "await") /\ ~mail[p]
  /\ LET tried == cont[p].try + 1 IN
     cont' = [cont EXCEPT ![p].try = tried, ![p].at =
                IF tried < AR_RTRY THEN "request" ELSE "answered"]
  /\ UNCHANGED <<pool, nmutex, tableVars, askVars, bootVars, mail, sentVars>>

\* The end of getpath; netin may have run since the time was over.
Asked(p) ==
  /\ At(p, "answered") /\ arppid' = Nobody /\ Goes(p, "test")
  /\ UNCHANGED <<pool, nmutex, tableVars, arpwant, bootVars, mail, sentVars>>

\* route with the entry that getpath returned: send, or try the gateway, or give up.
Test(p) ==
  /\ At(p, "test")
  /\ LET e == arptab[cont[p].ix] IN
     \/ e.state = "resolved" /\ Leaves(p, e.host) /\ UNCHANGED halted
     \/ /\ e.state # "resolved" /\ UNCHANGED <<pool, nmutex, sentVars>>
        /\ IF cont[p].via THEN halted' = TRUE /\ UNCHANGED cont
           ELSE Goes(p, "gate") /\ UNCHANGED halted
  /\ UNCHANGED <<tableVars, askVars, rarppid, mavalid, mail>>

\* Whatever netin has put there since the test is overwritten.
Gate(p) ==
  /\ At(p, "gate")
  /\ arptab' = [arptab EXCEPT ![cont[p].ix].state = "gate"]
  /\ Then(p, [Where("turn") EXCEPT !.to = Gateway, !.via = TRUE])
  /\ UNCHANGED <<pool, nmutex, atabsiz, atabnxt, beyond, reused, askVars, bootVars, mail, sentVars>>

RouteStep(p) ==
  \/ RouteTurn(p) \/ Getpath(p) \/ Found(p) \/ Mkarp(p) \/ Ask(p) \/ Answered(p) \/ TimesOut(p)
  \/ Asked(p) \/ Test(p) \/ Gate(p)
  \/ Insert(p) \/ Advance(p) \/ Rewind(p) \/ MarkAlloc(p) \/ CopyIad(p) \/ ClearEad(p)

RouteIn ==
  \/ \E a \in Hosts : ArpRequestIn(a) \/ ArpReplyIn(a) \/ EntersBeyond(a)
  \/ RarpReplyIn

\* arpinit and netinit, with netin's first buffer.
RouteInit ==
  /\ pool = Waited(Sem(NETBUFS), netin) /\ nmutex = Sem(1)
  /\ arptab = [i \in Entries |-> [state |-> "free", addr |-> Nobody, host |-> Nobody]]
  /\ atabsiz = 0 /\ atabnxt = 0 /\ beyond = FALSE /\ reused = FALSE
  /\ arppid = Nobody /\ arpwant = Nobody /\ rarppid = Nobody /\ mavalid = FALSE
  /\ mail = [p \in Procs |-> FALSE] /\ halted = FALSE /\ wrong = FALSE /\ lost = 0

------------------------------------------------------------------------------
(* Safety. *)

\* A packet goes to the Ethernet address of the host it is for, or of the gateway where
\* that is the way, or nowhere, unless netin once gave an entry in use to another address:
\* whatever netin does to the entry that a process is looking for, filling in or asking
\* about, up to an entry behind the table, sends nothing astray.
RightHost == wrong => reused

\* arp.h:46 "Entry has been resolved to Eth. addr."
ResolvedHasAddress == \A i \in Entries : arptab[i].state = "resolved" => arptab[i].host # Nobody

\* arp.h:51 "next position in arptab to use"
NextInTable == ~beyond
==================================================================================
