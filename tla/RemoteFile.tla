------------------------------- MODULE RemoteFile -------------------------------
(***************************************************************************)
(* Remote files: pseudo-devices whose operations become requests to a file *)
(* server, sent again when no reply comes in time.  The datagrams between  *)
(* may be lost or overtake each other; neither requests nor replies carry  *)
(* a number.                                                               *)
(***************************************************************************)
EXTENDS NetProcs

CONSTANTS
  Nrf, RMAXTRY,         (* files open at once; tries of a request            *)
  Files,                (* names of files                                    *)
  MaxPos, MaxRequests,  (* bounds: positions of a file, operations           *)
  MaxFlying             (* bound: datagrams under way, others are lost       *)

ASSUME RemoteAssumption ==
  Nrf \in Nat \ {0} /\ RMAXTRY \in Nat \ {0} /\ 
  MaxPos \in Nat /\ MaxRequests \in Nat /\ MaxFlying \in Nat

Slots == 0 .. Nrf - 1
NoRequest == [op |-> "none", name |-> Nobody, pos |-> 0, id |-> 0]

VARIABLES
  rftab,                (* each file: in use, name, position                 *)
  rfmutex, rmutex,      (* rf_mutex of each file; Rf.rmutex                  *)
  opened,               (* Rf.device: "closed" (RCLOSED), "open", "failed"   *)
                        (* (SYSERR)                                          *)
  packet,               (* rfmkpac's packet: the request of id               *)
  wants,                (* the operation each process is in                  *)
  flying, inbox,        (* datagrams under way; replies in Rf.device's port  *)
  served,               (* the server: requests executed since rfsend began  *)
  ids,
  crossed               (* history: was the last request sent with datagrams *)
                        (* of another one under way                          *)

rfOwn == <<rftab, rfmutex, rmutex, opened, packet, wants, flying, inbox, served, ids, crossed>>
serverVars == <<flying, inbox, served, crossed>>

Wants(p, op, name, pos) == wants' = [wants EXCEPT ![p] = [op |-> op, name |-> name, pos |-> pos, id |-> ids + 1]]
NewCall(p) == At(p, "user") /\ ids < MaxRequests /\ ids' = ids + 1
SlotOf(p) == cont[p].ix
Places(p, at, i) == Then(p, [Where(at) EXCEPT !.ix = i])

------------------------------------------------------------------------------
(* The calls, up to the wait for the file. *)

\* rfopen, with rfalloc's slot, up to rfio's wait.
Rfopen(p, name) ==
  /\ NewCall(p)
  /\ LET free == {i \in Slots : ~rftab[i].used} IN
     IF free = {} THEN UNCHANGED <<rftab, rfmutex, wants, cont>>
     ELSE LET i == Min(free) IN
          /\ rftab' = [rftab EXCEPT ![i] = [used |-> TRUE, name |-> name, pos |-> 0]]
          /\ rfmutex' = [rfmutex EXCEPT ![i] = Waited(@, p)]
          /\ Wants(p, "open", name, 0) /\ Places(p, "file", i)
  /\ UNCHANGED <<rmutex, opened, packet, serverVars>>

\* rfread, and rfwrite of one block ("io"), up to rfio's wait.
Rfio(p, i) ==
  /\ NewCall(p) /\ rfmutex' = [rfmutex EXCEPT ![i] = Waited(@, p)]
  /\ Wants(p, "io", Nobody, 0) /\ Places(p, "file", i)
  /\ UNCHANGED <<rftab, rmutex, opened, packet, serverVars>>

Rfseek(p, i, pos) ==
  /\ NewCall(p) /\ rfmutex' = [rfmutex EXCEPT ![i] = Waited(@, p)]
  /\ Wants(p, "seek", Nobody, pos) /\ Places(p, "file", i)
  /\ UNCHANGED <<rftab, rmutex, opened, packet, serverVars>>

\* rfclose looks at the state before it waits.
Rfclose(p, i) ==
  /\ NewCall(p)
  /\ IF ~rftab[i].used THEN UNCHANGED <<rfmutex, wants, cont>>
     ELSE /\ rfmutex' = [rfmutex EXCEPT ![i] = Waited(@, p)]
          /\ Wants(p, "close", Nobody, 0) /\ Places(p, "file", i)
  /\ UNCHANGED <<rftab, rmutex, opened, packet, serverVars>>

\* rfcntl on a name: FLACCESS, FLREMOVE, FLRENAME.
Rfcntl(p, name) ==
  /\ NewCall(p) /\ Wants(p, "name", name, 0) /\ Places(p, "packet", Nrf)
  /\ UNCHANGED <<rftab, rfmutex, rmutex, opened, packet, serverVars>>

\* RFCLEAR, which asks nobody.
RfcntlClear(p) ==
  /\ NewCall(p) /\ inbox' = IF opened = "open" THEN <<>> ELSE inbox
  /\ UNCHANGED <<rftab, rfmutex, rmutex, opened, packet, wants, cont, flying, served, crossed>>

\* With the file's mutex: rfio refuses a file that is closed by now, rfseek and rfclose do not.
Locked(p) ==
  LET i == SlotOf(p) IN
  /\ At(p, "file") /\ ~Contains(rfmutex[i].q, p)
  /\ IF wants[p].op = "seek"
     THEN /\ rftab' = [rftab EXCEPT ![i].pos = wants[p].pos]
          /\ rfmutex' = [rfmutex EXCEPT ![i] = Signaled(@)] /\ Then(p, Where("user"))
          /\ wants' = [wants EXCEPT ![p] = NoRequest]
     ELSE IF wants[p].op # "close" /\ ~rftab[i].used
     THEN /\ rfmutex' = [rfmutex EXCEPT ![i] = Signaled(@)] /\ UNCHANGED rftab
          /\ IF wants[p].op = "open" THEN Goes(p, "unopen") /\ UNCHANGED wants
             ELSE Then(p, Where("user")) /\ wants' = [wants EXCEPT ![p] = NoRequest]
     ELSE /\ wants' = [wants EXCEPT ![p].name = rftab[i].name,
                                    ![p].pos = IF wants[p].op = "close" THEN 0 ELSE rftab[i].pos]
          /\ Goes(p, "packet") /\ UNCHANGED <<rftab, rfmutex>>
  /\ UNCHANGED <<rmutex, opened, packet, serverVars, ids>>

------------------------------------------------------------------------------
(* rfmkpac and rfsend. *)

RmutexTurn(p) ==
  /\ At(p, "packet") /\ rmutex' = Waited(rmutex, p) /\ Goes(p, "rfturn")
  /\ UNCHANGED <<rftab, rfmutex, opened, packet, wants, serverVars, ids>>

\* The end of rfsend and rfmkpac, and of rfio and what called it.
Finishes(p, ok) ==
  LET i == SlotOf(p) op == wants[p].op IN
  /\ rmutex' = Signaled(rmutex)
  /\ IF op = "open" /\ ~ok THEN Goes(p, "unopen") /\ UNCHANGED wants
     ELSE Then(p, Where("user")) /\ wants' = [wants EXCEPT ![p] = NoRequest]
  /\ IF i = Nrf THEN UNCHANGED <<rftab, rfmutex>>
     ELSE /\ rfmutex' = [rfmutex EXCEPT ![i] = Signaled(@)]
          /\ rftab' = [rftab EXCEPT
               ![i].used = @ /\ op # "close",
               ![i].pos = IF ok /\ op = "io" THEN packet'.pos ELSE @]

Request(p, try) == [kind |-> "request", id |-> wants[p].id, try |-> try,
                    op |-> wants[p].op, name |-> wants[p].name, pos |-> wants[p].pos]

Written(m) == flying' = IF Cardinality(flying) < MaxFlying THEN flying \cup {m} ELSE flying

\* A process that has the packet makes its request of it.
MakesPacket(p) == At(p, "rfturn") /\ ~Contains(rmutex.q, p) /\ packet' = wants[p]

\* Mutant: the replies of an earlier request stay in the port.
RfsendUncleared(p) ==
  /\ MakesPacket(p) /\ opened # "failed" /\ opened' = "open"
  /\ Written(Request(p, 1)) /\ crossed' = (flying # {}) /\ served' = {}
  /\ cont' = [cont EXCEPT ![p].at = "reply", ![p].try = 1]
  /\ UNCHANGED <<rftab, rfmutex, rmutex, wants, inbox, ids>>

\* The device is opened the first time; DG_CLEAR, the first write, and read.
Rfsend(p) ==
  /\ MakesPacket(p) /\ opened # "failed" /\ opened' = "open"
  /\ inbox' = <<>>
  /\ Written(Request(p, 1)) /\ crossed' = (flying # {}) /\ served' = {}
  /\ cont' = [cont EXCEPT ![p].at = "reply", ![p].try = 1]
  /\ UNCHANGED <<rftab, rfmutex, rmutex, wants, ids>>

\* rfmkpac refuses more than RDATLEN bytes.
TooLong(p) ==
  /\ MakesPacket(p) /\ Finishes(p, FALSE)
  /\ UNCHANGED <<opened, serverVars, ids>>

\* The device cannot be opened: Rf.device is SYSERR from then on, which is not RCLOSED, so
\* that nobody tries again.
RfsendFails(p) ==
  /\ MakesPacket(p) /\ opened # "open" /\ opened' = "failed" /\ Finishes(p, FALSE)
  /\ UNCHANGED <<serverVars, ids>>

\* The first write returns SYSERR.
WriteFails(p) ==
  /\ MakesPacket(p) /\ opened # "failed" /\ opened' = "open" /\ inbox' = <<>> /\ Finishes(p, FALSE)
  /\ UNCHANGED <<flying, served, crossed, ids>>

\* read times out: the packet, unchanged, is sent again ...
Retry(p) ==
  /\ At(p, "reply") /\ inbox = <<>> /\ cont[p].try < RMAXTRY
  /\ cont' = [cont EXCEPT ![p].try = @ + 1]
  /\ Written([Request(p, cont[p].try + 1) EXCEPT
                !.id = packet.id, !.op = packet.op, !.name = packet.name, !.pos = packet.pos])
  /\ UNCHANGED <<rftab, rfmutex, rmutex, opened, packet, wants, inbox, served, ids, crossed>>

\* ... or the operation fails, after the last try or when this write returns SYSERR.
GivesUp(p) ==
  /\ At(p, "reply") /\ inbox = <<>>
  /\ Finishes(p, FALSE)
  /\ UNCHANGED <<opened, packet, serverVars, ids>>

\* read gets the first reply, into the packet: it says what came of the request.
TakesReply(p) ==
  /\ At(p, "reply") /\ inbox # <<>> /\ inbox' = Tail(inbox)
  /\ LET r == Head(inbox) IN
     /\ packet' = [op |-> r.op, name |-> r.name, pos |-> r.pos, id |-> r.id]
     /\ Finishes(p, r.op # "error")
  /\ UNCHANGED <<opened, flying, served, ids, crossed>>

\* rfopen frees the slot when rfio failed and has let the file go.
Unopens(p) ==
  /\ At(p, "unopen") /\ Then(p, Where("user")) /\ wants' = [wants EXCEPT ![p] = NoRequest]
  /\ rftab' = [rftab EXCEPT ![SlotOf(p)].used = FALSE]
  /\ UNCHANGED <<rfmutex, rmutex, opened, packet, serverVars, ids>>

------------------------------------------------------------------------------
(* The network, and the server, which runs on another machine. *)

Lost(m) ==
  /\ m \in flying /\ flying' = flying \ {m}
  /\ UNCHANGED <<rftab, rfmutex, rmutex, opened, packet, wants, inbox, served, ids, crossed, cont>>

\* fsread and fswrite reply with the position after the block, and any handler with FS_ERROR
\* when it fails.
Reply(m, ok) ==
  [m EXCEPT !.kind = "reply", !.op = IF ok THEN @ ELSE "error",
            !.pos = IF ok /\ m.op = "io" /\ @ < MaxPos THEN @ + 1 ELSE @]

\* The server takes a request, executes it or fails, and replies.
Serves(m) ==
  /\ m \in flying /\ m.kind = "request"
  /\ \E ok \in BOOLEAN :
       /\ flying' = (flying \ {m}) \cup {Reply(m, ok)}
       /\ served' = IF ok THEN served \cup {[id |-> m.id, op |-> m.op, name |-> m.name, pos |-> m.pos]}
                    ELSE served
  /\ UNCHANGED <<rftab, rfmutex, rmutex, opened, packet, wants, inbox, ids, crossed, cont>>

ReplyArrives(m) ==
  /\ m \in flying /\ m.kind = "reply" /\ flying' = flying \ {m} /\ inbox' = Append(inbox, m)
  /\ UNCHANGED <<rftab, rfmutex, rmutex, opened, packet, wants, served, ids, crossed, cont>>

RemoteStep(p) ==
  \/ \E name \in Files : Rfopen(p, name) \/ Rfcntl(p, name)
  \/ \E i \in Slots :
       \/ Rfio(p, i)
       \/ \E pos \in 0 .. MaxPos : Rfseek(p, i, pos)
       \/ Rfclose(p, i)
  \/ RfcntlClear(p) \/ Locked(p) \/ RmutexTurn(p) \/ Rfsend(p) \/ TooLong(p) \/ RfsendFails(p)
  \/ WriteFails(p) \/ Retry(p) \/ GivesUp(p) \/ TakesReply(p) \/ Unopens(p)

RemoteNext ==
  \/ \E p \in Users : RemoteStep(p)
  \/ \E m \in flying : Lost(m) \/ Serves(m) \/ ReplyArrives(m)

\* rfinit.
RemoteInit ==
  /\ rftab = [i \in Slots |-> [used |-> FALSE, name |-> Nobody, pos |-> 0]]
  /\ rfmutex = [i \in Slots |-> Sem(1)] /\ rmutex = Sem(1) /\ opened = "closed"
  /\ packet = NoRequest /\ wants = [p \in Procs |-> NoRequest]
  /\ flying = {} /\ inbox = <<>> /\ served = {} /\ ids = 0 /\ crossed = FALSE

------------------------------------------------------------------------------
(* Safety. *)

\* The one packet belongs to the process that waits for the reply, so that what is sent
\* again is what was sent; and an operation that succeeds has been executed by the server
\* as it was asked, unless datagrams of an earlier request were under way when it began.
AcknowledgedDone ==
  [][\A p \in Procs : At(p, "reply") =>
       /\ packet = wants[p]
       /\ TakesReply(p) /\ ~crossed /\ packet'.op # "error" => wants[p] \in served]_<<rfOwn, cont>>
=================================================================================
