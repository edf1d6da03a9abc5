---------------------------------- MODULE Ether ----------------------------------
(***************************************************************************)
(* The driver of the LANCE Ethernet chip: the receive ring that chip and   *)
(* driver share, the queue of received packets that is threaded through    *)
(* it, ethread, ethwrite and the interrupts.                               *)
(***************************************************************************)
EXTENDS NetProcs

CONSTANTS
  ENUMRCV, EXRETRY,    (* buffers in the receive ring; retries of a send    *)
  MaxFrames, MaxSends  (* bounds: frames that arrive, packets written       *)

ASSUME EtherAssumption ==
  ENUMRCV \in Nat \ {0} /\ EXRETRY \in Nat /\ MaxFrames \in Nat /\ MaxSends \in Nat

Ring == 0 .. ENUMRCV - 1
EMPTY == -1

VARIABLES
  own, bad, frame,     (* each descriptor: LMD_OWN, LMD_ERR, which frame    *)
  flags, etnextbuf, etrqhead, etrqtail, etrqnext,
  etrsem, etrpid, etwsem, etwtry,
  chipnext, rint, tint,(* the chip: its next buffer, its interrupts         *)
  xmit,                (* the packet to send: "none", "own", "done", "error" *)
  arrived, lastread,   (* history: frames that arrived, last frame read     *)
  sends,
  skewed               (* history: was the chip given a bad frame's buffer back *)

ringVars == <<own, bad, frame, flags, etnextbuf, etrqhead, etrqtail, etrqnext>>
chipVars == <<chipnext, rint, tint, xmit, arrived>>
sendVars == <<etwsem, etwtry, sends>>
etherOwn == <<ringVars, chipVars, sendVars, etrsem, etrpid, lastread, skewed>>

------------------------------------------------------------------------------
(* The chip (external): it fills the buffers in turn, and sends the packet. *)

FrameArrives ==
  /\ arrived < MaxFrames /\ own[chipnext]
  /\ arrived' = arrived + 1
  /\ own' = [own EXCEPT ![chipnext] = FALSE]
  /\ frame' = [frame EXCEPT ![chipnext] = arrived + 1]
  /\ \E b \in BOOLEAN : bad' = [bad EXCEPT ![chipnext] = b]
  /\ chipnext' = (chipnext + 1) % ENUMRCV /\ rint' = TRUE
  /\ UNCHANGED <<flags, etnextbuf, etrqhead, etrqtail, etrqnext, tint, xmit, sendVars,
                 etrsem, etrpid, cont, lastread, skewed>>

PacketSent ==
  /\ xmit = "own" /\ xmit' \in {"done", "error"} /\ tint' = TRUE
  /\ UNCHANGED <<ringVars, chipnext, rint, arrived, sendVars, etrsem, etrpid, cont, lastread, skewed>>

------------------------------------------------------------------------------
(* The interrupt. *)

\* The buffers ethinter examines: from etnextbuf on while they are the driver's and new.
Examined ==
  LET nth(i) == (etnextbuf + i - 1) % ENUMRCV
      n == Max({k \in 0 .. ENUMRCV : \A i \in 1 .. k : ~own[nth(i)] /\ ~flags[nth(i)]})
  IN  [i \in 1 .. n |-> nth(i)]

\* It takes those before the first one with an error, which it gives back to the chip
\* without a step to the next one.
Taken(seen) ==
  LET errors == {i \in 1 .. Len(seen) : bad[seen[i]]}
  IN  IF errors = {} THEN seen ELSE SubSeq(seen, 1, Min(errors) - 1)

\* Mutant: the tail stays.
LinkedNoTail(taken) ==
  LET chain == (IF etrqhead = EMPTY THEN <<>> ELSE <<etrqtail>>) \o taken IN
  /\ etrqhead' = IF etrqhead = EMPTY /\ taken # <<>> THEN Head(taken) ELSE etrqhead
  /\ etrqtail' = IF etrqhead = EMPTY /\ taken # <<>> THEN Last(taken) ELSE etrqtail
  /\ etrqnext' = [i \in Ring |->
       IF Contains(taken, i) /\ i = Last(taken) THEN EMPTY
       ELSE IF \E k \in 1 .. Len(chain) - 1 : chain[k] = i
       THEN chain[1 + CHOOSE k \in 1 .. Len(chain) - 1 : chain[k] = i]
       ELSE etrqnext[i]]

\* Each is put at the end of the queue.
Linked(taken) ==
  LET chain == (IF etrqhead = EMPTY THEN <<>> ELSE <<etrqtail>>) \o taken IN
  /\ etrqhead' = IF etrqhead = EMPTY /\ taken # <<>> THEN Head(taken) ELSE etrqhead
  /\ etrqtail' = IF taken = <<>> THEN etrqtail ELSE Last(taken)
  /\ etrqnext' = [i \in Ring |->
       IF Contains(taken, i) /\ i = Last(taken) THEN EMPTY
       ELSE IF \E k \in 1 .. Len(chain) - 1 : chain[k] = i
       THEN chain[1 + CHOOSE k \in 1 .. Len(chain) - 1 : chain[k] = i]
       ELSE etrqnext[i]]

\* The receive half, with a look at nothing but the buffer it expects; the interrupt is
\* reset with each buffer examined, and the sleeping reader is made ready.
ReceiveInterrupt ==
  LET seen == Examined taken == Taken(seen) wakes == taken # <<>> /\ etrpid # Nobody IN
  /\ rint /\ rint' = (seen = <<>>)
  /\ Linked(taken)
  /\ flags' = [i \in Ring |-> flags[i] \/ Contains(taken, i)]
  /\ own' = [i \in Ring |-> own[i] \/ (taken # seen /\ i = seen[Len(taken) + 1])]
  /\ etnextbuf' = (etnextbuf + Len(taken)) % ENUMRCV
  /\ skewed' = (skewed \/ taken # seen)
  /\ IF wakes /\ At(etrpid, "asleep")
     THEN Goes(etrpid, "awake") /\ etrpid' = Nobody
     ELSE UNCHANGED <<cont, etrpid>>
  /\ UNCHANGED <<bad, frame, chipnext, tint, xmit, arrived, sendVars, etrsem, lastread>>

\* Mutant: a packet that was given up leaves the transmitter taken.
TransmitInterruptGivesUp ==
  /\ tint /\ tint' = FALSE
  /\ IF xmit = "done" THEN xmit' = "none" /\ etwsem' = Signaled(etwsem) /\ UNCHANGED etwtry
     ELSE /\ etwtry' = etwtry - 1
          /\ xmit' = IF etwtry > 0 THEN "own" ELSE "none"
          /\ etwsem' = etwsem
  /\ UNCHANGED <<ringVars, chipnext, rint, arrived, sends, etrsem, etrpid, cont, lastread, skewed>>

\* The transmit half: the transmitter is free again, or the packet is sent once more.
TransmitInterrupt ==
  /\ tint /\ tint' = FALSE
  /\ IF xmit = "done" THEN xmit' = "none" /\ etwsem' = Signaled(etwsem) /\ UNCHANGED etwtry
     ELSE /\ etwtry' = etwtry - 1
          /\ xmit' = IF etwtry > 0 THEN "own" ELSE "none"
          /\ etwsem' = IF etwtry > 0 THEN etwsem ELSE Signaled(etwsem)
  /\ UNCHANGED <<ringVars, chipnext, rint, arrived, sends, etrsem, etrpid, cont, lastread, skewed>>

------------------------------------------------------------------------------
(* The processes. *)

\* ethread up to the wait for its turn.
Ethread(p) ==
  /\ At(p, "user") /\ etrsem' = Waited(etrsem, p)
  /\ Goes(p, IF Blocks(etrsem) THEN "rcvturn" ELSE "read")
  /\ UNCHANGED <<ringVars, chipVars, sendVars, etrpid, lastread, skewed>>

\* With interrupts disabled: sleep while there is no packet, or take the first one.
EthreadOn(p) ==
  /\ At(p, "read") \/ At(p, "awake") \/ (At(p, "rcvturn") /\ ~Contains(etrsem.q, p))
  /\ IF etrqhead = EMPTY
     THEN /\ etrpid' = p /\ Goes(p, "asleep")
          /\ UNCHANGED <<own, flags, etrqhead, etrsem, lastread>>
     ELSE /\ etrpid' = IF At(p, "awake") THEN Nobody ELSE etrpid
          /\ lastread' = frame[etrqhead]
          /\ etrqhead' = etrqnext[etrqhead]
          /\ own' = [own EXCEPT ![etrqhead] = TRUE] /\ flags' = [flags EXCEPT ![etrqhead] = FALSE]
          /\ etrsem' = Signaled(etrsem) /\ Goes(p, "user")
  /\ UNCHANGED <<bad, frame, etnextbuf, etrqtail, etrqnext, chipVars, sendVars, skewed>>

\* Somebody else resumes the sleeping reader.
Resumed(p) ==
  /\ At(p, "asleep") /\ Goes(p, "awake")
  /\ UNCHANGED <<ringVars, chipVars, sendVars, etrsem, etrpid, lastread, skewed>>

\* ethwrite and ethwstrt, which copies the packet and frees it.
Ethwrite(p) ==
  /\ At(p, "user") /\ sends < MaxSends /\ sends' = sends + 1
  /\ etwsem' = Waited(etwsem, p)
  /\ IF Blocks(etwsem) THEN Goes(p, "xmtturn") /\ UNCHANGED <<xmit, etwtry>>
     ELSE xmit' = "own" /\ etwtry' = EXRETRY /\ UNCHANGED cont
  /\ UNCHANGED <<ringVars, chipnext, rint, tint, arrived, etrsem, etrpid, lastread, skewed>>

EthwriteOn(p) ==
  /\ At(p, "xmtturn") /\ ~Contains(etwsem.q, p)
  /\ xmit' = "own" /\ etwtry' = EXRETRY /\ Goes(p, "user")
  /\ UNCHANGED <<ringVars, chipnext, rint, tint, arrived, etwsem, sends, etrsem, etrpid, lastread, skewed>>

EtherNext ==
  \/ FrameArrives \/ PacketSent \/ ReceiveInterrupt \/ TransmitInterrupt
  \/ \E p \in Procs : Ethread(p) \/ EthreadOn(p) \/ Resumed(p) \/ Ethwrite(p) \/ EthwriteOn(p)

\* ethinit.
EtherInit ==
  /\ own = [i \in Ring |-> TRUE] /\ bad = [i \in Ring |-> FALSE] /\ frame = [i \in Ring |-> 0]
  /\ flags = [i \in Ring |-> FALSE] /\ etnextbuf = 0
  /\ etrqhead = EMPTY /\ etrqtail = EMPTY /\ etrqnext = [i \in Ring |-> EMPTY]
  /\ etrsem = Sem(1) /\ etrpid = Nobody /\ etwsem = Sem(1) /\ etwtry = 0
  /\ chipnext = 0 /\ rint = FALSE /\ tint = FALSE /\ xmit = "none"
  /\ arrived = 0 /\ lastread = 0 /\ sends = 0 /\ skewed = FALSE

------------------------------------------------------------------------------
(* Safety. *)

\* The packets to be read: those in the queue, and those in the ring not yet examined.
Received ==
  LET chain[k \in Nat] == IF k = 0 THEN etrqhead
                          ELSE IF chain[k - 1] = EMPTY THEN EMPTY ELSE etrqnext[chain[k - 1]]
      n == Cardinality({k \in 0 .. ENUMRCV - 1 : chain[k] # EMPTY})
  IN  [k \in 1 .. n |-> frame[chain[k - 1]]]
Unexamined == [i \in 1 .. Len(Examined) |-> frame[Examined[i]]]

\* As long as no frame came damaged, packets are read in the order they arrived, each
\* once and none left out, and chip and driver go round the ring in step.
FramesInOrder ==
  ~skewed =>
    /\ Received \o Unexamined = [i \in 1 .. arrived - lastread |-> lastread + i]
    /\ chipnext = (etnextbuf + Len(Unexamined)) % ENUMRCV

\* No packet lies in the queue while the reader sleeps, no frame in the ring without an
\* interrupt to come, and nobody waits for the transmitter but while it is taken.
EtherDue ==
  /\ \A p \in Procs : At(p, "asleep") => etrqhead = EMPTY /\ etrpid = p
  /\ ~skewed /\ Unexamined # <<>> => rint
  /\ etwsem.n < 1 => xmit # "none" \/ \E p \in Procs : At(p, "xmtturn") /\ ~Contains(etwsem.q, p)
  /\ xmit \in {"done", "error"} => tint

\* ethinter.c:71 "etnextbuf always points to the next buf after the last buffer we
\* examined": when every buffer was examined the next frame comes to that one.
NextBufIsNext == ~rint => etnextbuf = chipnext
==============================================================================
