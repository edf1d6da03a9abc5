---------------------------------- MODULE Tty ----------------------------------
(***************************************************************************)
(* A terminal line: the input half (ttyiin, ttyread, ttygetc, ttycntl) and *)
(* both halves together.  A character stands for itself or for one of the  *)
(* special ones; a transmission error only sets a bit and is left out.     *)
(***************************************************************************)
EXTENDS TtyOut

CONSTANTS
  MaxKeys,    (* bound: characters typed                                   *)
  Reads,      (* the counts of ttyread                                     *)
  Nobody      (* BADPID                                                    *)

ASSUME KeysAssumption == MaxKeys \in Nat /\ Reads \subseteq Nat

VARIABLES
  nkeys,
  over,       (* history: units isem has beyond the characters there are   *)
  interrupted (* whom ttyiin sent INTRMSG, perhaps to BADPID               *)

vars == <<tty, cont, calls, ncalls, bonus, nkeys, over, interrupted>>

Keys == {"x", "NL", "EOF", "ERASE", "KILL", "STOP", "START", "INTR"}

\* A ring that was written over, or read when empty: nothing is said of what follows.
Fits == tty.icnt >= 0 /\ tty.icnt + tty.icursor <= IBUFLEN /\ tty.ocnt <= OBUFLEN

------------------------------------------------------------------------------
(* The lower half: one character from the line. *)

Accept(t, ch) == [t EXCEPT !.ibuff[t.ihead] = ch, !.ihead = (@ + 1) % IBUFLEN]
Available(t, n) == [t EXCEPT !.icnt = @ + n, !.isem = SignaledBy(@, n)]

Control == Keys \ {"x"}                      \* all special characters are below BLANK

\* echoch: two characters for NEWLINE (ecrlf) and for control characters (evis), none without echo.
Echo(t, ch) == IF ~t.iecho THEN t ELSE Eputc(t, IF ch \in Control THEN 2 ELSE 1)

Raw(t, ch) == IF t.icnt >= IBUFLEN THEN t ELSE Available(Accept(t, ch), 1)

Cbreak(t, ch) ==
  IF t.icnt >= IBUFLEN THEN Eputc(t, 1)
  ELSE LET u == Echo(Accept(t, ch), ch) IN IF u.icnt < IBUFLEN THEN Available(u, 1) ELSE u

KillLine(t) == Eputc([t EXCEPT !.ihead = (@ - t.icursor) % IBUFLEN, !.icursor = 0], 2)

\* erase1, of a character that is echoed as itself or as two.
Erase(t) ==
  LET ihead == (t.ihead - 1) % IBUFLEN
      u == [t EXCEPT !.ihead = ihead, !.icursor = @ - 1]
  IN IF t.icursor = 0 THEN t
     ELSE IF ~t.iecho THEN Ttyostart(u)
     ELSE Eputc(u, IF t.ibuff[ihead] \in Control THEN 6 ELSE 3)

EndLine(t, ch) ==
  LET u == IF ch = "EOF" THEN Echo(Echo(t, ch), "NL") ELSE Echo(t, ch)
  IN  [Available(Accept(u, ch), t.icursor + 1) EXCEPT !.icursor = 0]

\* Mutant: no place is kept for the end of the line.
OrdinaryFull(t, ch) ==
  IF t.icnt + t.icursor > IBUFLEN THEN Eputc(t, 1)
  ELSE Accept([Echo(t, ch) EXCEPT !.icursor = @ + 1], ch)

Ordinary(t, ch) ==
  IF (IF t.icnt < 0 THEN 0 ELSE t.icnt) + t.icursor >= IBUFLEN - 1 THEN Eputc(t, 1)
  ELSE Accept([Echo(t, ch) EXCEPT !.icursor = @ + 1], ch)

\* Mutant: what is killed stays in the ring.
CookedKeep(t, ch) ==
  CASE ch = "KILL"  -> Eputc([t EXCEPT !.icursor = 0], 2)
    [] ch = "ERASE" -> Erase(t)
    [] ch \in {"NL", "EOF"} -> EndLine(t, ch)
    [] OTHER -> Ordinary(t, ch)

Cooked(t, ch) ==
  CASE ch = "KILL"  -> KillLine(t)
    [] ch = "ERASE" -> Erase(t)
    [] ch \in {"NL", "EOF"} -> EndLine(t, ch)
    [] OTHER -> Ordinary(t, ch)

\* Mutant: output that was held is not started again.
TypedNoStart(t, ch) ==
  CASE t.imode = "RAW" -> Raw(t, ch)
    [] OTHER ->
       CASE ch = "INTR" /\ t.iintr -> Eputc(t, 1)
         [] ch = "START" -> [t EXCEPT !.oheld = FALSE]
         [] ch = "STOP"  -> [t EXCEPT !.oheld = TRUE]
         [] OTHER -> IF t.imode = "CBREAK" THEN Cbreak(t, ch) ELSE Cooked(t, ch)

\* ttyiin, but for the message: the keys that mean something in each mode.
Typed(t, ch) ==
  CASE t.imode = "RAW" -> Raw(t, ch)
    [] OTHER ->
       CASE ch = "INTR" /\ t.iintr -> Eputc(t, 1)
         [] ch = "START" -> Ttyostart([t EXCEPT !.oheld = FALSE])
         [] ch = "STOP"  -> [t EXCEPT !.oheld = TRUE]
         [] OTHER -> IF t.imode = "CBREAK" THEN Cbreak(t, ch) ELSE Cooked(t, ch)

Ttyiin(ch) ==
  /\ nkeys < MaxKeys /\ nkeys' = nkeys + 1
  /\ tty' = Typed(tty, ch)
  /\ interrupted' = IF tty.imode # "RAW" /\ tty.iintr /\ ch = "INTR"
                    THEN interrupted \cup {tty.iintpid} ELSE interrupted
  /\ UNCHANGED <<cont, calls, ncalls, bonus, over>>

------------------------------------------------------------------------------
(* The upper half. *)

First(t) == t.ibuff[t.itail]
Consumed(t, n) == [t EXCEPT !.itail = (@ + n) % IBUFLEN, !.icnt = @ - n]

\* How many characters ttyread takes of those there are: it leaves an EOF for the next
\* read, and stops after a NEWLINE that is not the first.
TakenNow(t, donow) ==
  LET ch(i) == t.ibuff[(t.itail + i - 1) % IBUFLEN]
      ends == {i \in 2 .. donow : ch(i) \in {"NL", "EOF"}}
  IN IF ends = {} THEN donow
     ELSE IF ch(Min(ends)) = "EOF" THEN Min(ends) - 1 ELSE Min(ends)

Chars(t, n) == [i \in 1 .. n |-> t.ibuff[(t.itail + i - 1) % IBUFLEN]]

\* The loop that waits for characters, on a record: after its wait, and from it.
TakeOne(r) ==
  LET ch == First(r.t) IN
  IF ch = "EOF"
  THEN IF r.got = <<>> THEN [r EXCEPT !.t = Consumed(@, 1), !.op = "user"]
       ELSE [r EXCEPT !.t.isem = Signaled(@), !.op = "user"]
  ELSE [r EXCEPT !.t = Consumed(@, 1), !.got = Append(@, ch), !.n = @ - 1,
                 !.op = IF ch = "NL" \/ r.n = 1 THEN "user" ELSE "go"]

TakeNext(r, p) ==
  IF r.op # "go" THEN r
  ELSE IF Blocks(r.t.isem) THEN [r EXCEPT !.t.isem = Waited(@, p), !.op = "read"]
  ELSE TakeOne([r EXCEPT !.t.isem = Waited(@, p)])

TakeAll(r, p) ==
  LET s[i \in 0 .. r.n] == IF i = 0 THEN r ELSE TakeNext(s[i-1], p) IN s[r.n]

Takes(p, r) ==
  /\ tty' = r.t
  /\ Then(p, IF r.op = "user" THEN Idle
             ELSE [Idle EXCEPT !.op = r.op, !.n = r.n, !.got = r.got])

\* The processes with a unit of isem whose character is still in the ring.
Readers == (UNION {Released(op, tty.isem) : op \in {"read", "getc", "peek"}})
           \cup {p \in Procs : At(p, "peeked")}

\* ttyread up to its first wait or to the sreset that follows what it took at once, which
\* lets go of all who wait for characters and gives the processor away.
Ttyread(p, count) ==
  LET avail == tty.icnt
      wanted == IF count = 0 THEN avail ELSE count
      donow == Min({wanted, avail})
      atEof == First(tty) = "EOF"
      k == IF atEof THEN 1 ELSE TakenNow(tty, donow)
      got == Chars(tty, k)
      more == IF ~atEof /\ k = donow /\ (k = 1 \/ got[k] # "NL") THEN wanted - donow ELSE 0
  IN /\ Call(p, "read") /\ wanted > 0
     /\ IF donow = 0
        THEN /\ Takes(p, TakeAll([t |-> tty, n |-> wanted, got |-> <<>>, op |-> "go"], p))
             /\ UNCHANGED over
        ELSE /\ tty' = [Consumed(tty, k) EXCEPT !.isem = WasReset(@, avail - k)]
             /\ over' = Cardinality(Readers) + Len(tty.isem.q)
             /\ Then(p, [Idle EXCEPT !.op = "later", !.n = more, !.got = got])
  /\ UNCHANGED <<calls, ncalls, bonus, nkeys, interrupted>>

ReadLater(p) ==
  /\ At(p, "later")
  /\ LET r == [t |-> tty, n |-> cont[p].n, got |-> cont[p].got, op |-> "go"]
     IN Takes(p, IF r.n = 0 THEN [r EXCEPT !.op = "user"] ELSE TakeAll(r, p))
  /\ UNCHANGED <<calls, ncalls, bonus, nkeys, over, interrupted>>

FinishRead(p) ==
  /\ At(p, "read") /\ ~Contains(tty.isem.q, p)
  /\ Takes(p, TakeAll(TakeOne([t |-> tty, n |-> cont[p].n, got |-> cont[p].got, op |-> "go"]), p))
  /\ UNCHANGED <<calls, ncalls, bonus, nkeys, over, interrupted>>

Ttygetc(p) ==
  /\ Call(p, "getc")
  /\ LET t == [tty EXCEPT !.isem = Waited(@, p)] IN
     IF Blocks(tty.isem) THEN tty' = t /\ Then(p, Do("getc", <<>>))
     ELSE tty' = Consumed(t, 1) /\ UNCHANGED cont
  /\ UNCHANGED <<calls, ncalls, bonus, nkeys, over, interrupted>>

FinishGetc(p) ==
  /\ At(p, "getc") /\ ~Contains(tty.isem.q, p)
  /\ tty' = Consumed(tty, 1) /\ Then(p, Idle)
  /\ UNCHANGED <<calls, ncalls, bonus, nkeys, over, interrupted>>

\* TCNEXTC: wait, look, and, with interrupts as they were before, signal.
Peek(p) ==
  /\ Call(p, "next") /\ Counted
  /\ tty' = [tty EXCEPT !.isem = Waited(@, p)]
  /\ Then(p, Do(IF Blocks(tty.isem) THEN "peek" ELSE "peeked", <<>>))
  /\ UNCHANGED <<bonus, nkeys, over, interrupted>>

FinishPeek(p) ==
  /\ At(p, "peeked")
  /\ tty' = [tty EXCEPT !.isem = Signaled(@)] /\ Then(p, Idle)
  /\ UNCHANGED <<calls, ncalls, bonus, nkeys, over, interrupted>>

\* The wait of TCNEXTC returns: it looks, and restores the interrupts.
PeekLater(p) ==
  /\ At(p, "peek") /\ ~Contains(tty.isem.q, p)
  /\ Then(p, Do("peeked", <<>>))
  /\ UNCHANGED <<tty, calls, ncalls, bonus, nkeys, over, interrupted>>

\* The functions that only set a field, in a single assignment.
Ttycntl(p) ==
  /\ Counted
  /\ \/ Call(p, "mode") /\ \E mode \in {"RAW", "COOKED", "CBREAK"} : tty' = [tty EXCEPT !.imode = mode]
     \/ Call(p, "echo") /\ \E b \in BOOLEAN : tty' = [tty EXCEPT !.iecho = b]
     \/ Call(p, "intr") /\ tty' = [tty EXCEPT !.iintr = FALSE]
  /\ UNCHANGED <<cont, bonus, nkeys, over, interrupted>>

\* TCINT turns interruption on before it says of whom, with interrupts enabled.
Tcint(p) ==
  /\ Call(p, "intr") /\ Counted
  /\ tty' = [tty EXCEPT !.iintr = TRUE] /\ Then(p, Do("intr", <<>>))
  /\ UNCHANGED <<bonus, nkeys, over, interrupted>>

FinishTcint(p) ==
  /\ At(p, "intr")
  /\ tty' = [tty EXCEPT !.iintpid = p] /\ Then(p, Idle)
  /\ UNCHANGED <<calls, ncalls, bonus, nkeys, over, interrupted>>

ReaderStep(p) ==
  \/ \E count \in Reads : Ttyread(p, count)
  \/ ReadLater(p) \/ FinishRead(p) \/ Ttygetc(p) \/ FinishGetc(p)
  \/ Peek(p) \/ PeekLater(p) \/ FinishPeek(p)
  \/ Ttycntl(p) \/ Tcint(p) \/ FinishTcint(p)

InputAlone == UNCHANGED <<nkeys, over, interrupted>>

Next ==
  /\ Fits
  /\ \/ \E ch \in Keys \cap calls : Ttyiin(ch)
     \/ TxInterrupt /\ InputAlone
     \/ \E p \in Procs : ReaderStep(p) \/ (WriterStep(p) /\ InputAlone)

\* ttyinit, for the console.
Init ==
  /\ tty = [ibuff |-> [i \in 0 .. IBUFLEN - 1 |-> "x"], ihead |-> 0, itail |-> 0, icnt |-> 0,
            icursor |-> 0, isem |-> Sem(0), imode |-> "COOKED", iecho |-> TRUE,
            iintr |-> FALSE, iintpid |-> Nobody,
            obuff |-> [i \in 0 .. OBUFLEN - 1 |-> "x"], ohead |-> 0, otail |-> 0, ocnt |-> 0,
            osem |-> Sem(OBUFLEN), odsend |-> 0, oheld |-> FALSE, ecnt |-> 0, txint |-> FALSE]
  /\ cont = [p \in Procs |-> Idle] /\ calls \in Workloads /\ ncalls = 0 /\ bonus = 0
  /\ nkeys = 0 /\ over = 0 /\ interrupted = {}

Spec == Init /\ [][Next]_vars

------------------------------------------------------------------------------
(* Types. *)

\* The control block and the rest of each call hold values of their C types.
TypeOK ==
  /\ \A p \in Procs : cont[p] = Idle \/ cont[p].op \in
       {"put", "more", "wrote", "later", "read", "getc", "peek", "peeked", "intr"}
  /\ {tty.ihead, tty.itail} \subseteq 0 .. IBUFLEN - 1 /\ tty.icursor \in 0 .. IBUFLEN - 1
  /\ {tty.ohead, tty.otail} \subseteq 0 .. OBUFLEN - 1 /\ tty.odsend \in 0 .. OBMINSP - 1
  /\ tty.icnt \in Int /\ tty.ocnt \in Nat /\ tty.ecnt \in 0 .. EBUFLEN - 1
  /\ SemGood(tty.isem) /\ SemGood(tty.osem)
  /\ tty.imode \in {"RAW", "COOKED", "CBREAK"} /\ interrupted \subseteq Procs \cup {Nobody}

------------------------------------------------------------------------------
(* Safety. *)

\* Every unit of isem is a character that was finished and not read, beyond those that a
\* ttyread at once gave to readers it let go of; and the two ends of the ring are as far
\* apart as the finished characters and the line being typed, through erasing, killing,
\* changes of mode and looking ahead.
InputAccounted ==
  /\ tty.isem.n + Len(tty.isem.q) + Cardinality(Readers) = tty.icnt + over
  /\ Fits => (tty.ihead - tty.itail - tty.icnt - tty.icursor) % IBUFLEN = 0
  /\ over = 0 => tty.icnt >= 0

\* Every unit of osem is room, beyond those that writcopy's sreset created: it counts
\* the sends ttyoin still keeps back, and those it lets go of, a second time.  Without
\* them the queue never overflows, and a writer waits only while there is output or another
\* writer, let go before, is about to put some.
OutputAccounted ==
  /\ tty.osem.n + Len(tty.osem.q) + Cardinality(Released("put", tty.osem)) + tty.odsend + tty.ocnt
       = OBUFLEN + bonus
  /\ bonus = 0 => tty.ocnt <= OBUFLEN
  /\ tty.osem.q # <<>> /\ bonus = 0 => tty.ocnt > 0 \/ Released("put", tty.osem) # {}
  /\ Fits => (tty.ohead - tty.otail - tty.ocnt) % OBUFLEN = 0

\* Output and echo are on their way: the transmitter is going to interrupt, or a process
\* is about to start it, unless the terminal's user holds the output.
OutputDue ==
  (tty.ocnt > 0 /\ ~tty.oheld) \/ tty.ecnt > 0
    => tty.txint \/ (tty.ecnt = 0 /\ \E p \in Procs : At(p, "wrote"))

\* tty.4:54 "Write may block if the output exceeds the currently available buffer
\* space": output never exceeds the buffer.
OutputFits == tty.ocnt <= OBUFLEN

\* tty.4:43 "Reads up to one line": nothing is read beyond the end of a line.
ReadOneLine == \A p \in Procs : \A i \in 1 .. Len(cont[p].got) - 1 : cont[p].got[i] # "NL"

------------------------------------------------------------------------------
(* What the manual promises. *)

\* The rings and counters implement streams: every character is read once, in the order
\* typed, erase and kill reach no line that was finished, and what each process writes
\* comes out completely, in its order.
AbsLine == INSTANCE AbsTty WITH
  ready <- Chars(tty, tty.icnt),
  line <- [i \in 1 .. tty.icursor |-> tty.ibuff[(tty.itail + tty.icnt + i - 1) % IBUFLEN]],
  out <- Pending(tty),
  unsent <- [p \in Procs |-> cont[p].rest]
TtyRefinement == AbsLine!Init /\ [][Fits' => AbsLine!Next]_(AbsLine!vars)
==============================================================================
