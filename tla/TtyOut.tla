--------------------------------- MODULE TtyOut ---------------------------------
(***************************************************************************)
(* The output half of a terminal line: ttyputc, ttywrite and the           *)
(* transmitter's interrupts.  The line's control block is one record, with *)
(* the fields of struct tty; the options nothing changes are those ttyinit *)
(* gives the console.  Nobody is killed here.                              *)
(***************************************************************************)
EXTENDS SemOps, FiniteSetsExt

CONSTANTS
  Procs,
  IBUFLEN, OBUFLEN, EBUFLEN, OBMINSP,  (* lengths of the queues, and the   *)
              (* number of sends that are kept back                        *)
  Texts,      (* what processes write                                      *)
  Workloads,  (* sets of keys and calls: a boot sees those of one          *)
  MaxCalls    (* bound: calls of putc, write and control                   *)

ASSUME TtyAssumption ==
  IBUFLEN \in Nat \ {0} /\ EBUFLEN \in Nat \ {0} /\ OBMINSP \in Nat \ {0} /\ OBUFLEN \in Nat
  /\ OBMINSP < OBUFLEN /\ MaxCalls \in Nat
  /\ IsFiniteSet(Procs) /\ Texts \subseteq Seq(STRING) \ {<<>>}

VARIABLES
  tty,        (* the control block; ecnt, the length of the echo queue, is *)
              (* ehead - etail modulo EBUFLEN, and txint is fttyoint       *)
  cont,       (* what each process has left to do in its call              *)
  calls, ncalls,
  bonus       (* history: units osem has beyond the room there is          *)

Idle == [op |-> "user", rest |-> <<>>, n |-> 0, got |-> <<>>]   \* n: see GoesOn, Ttyread
Do(op, rest) == [Idle EXCEPT !.op = op, !.rest = rest]
At(p, op) == cont[p].op = op
Then(p, c) == cont' = [cont EXCEPT ![p] = c]
Call(p, c) == c \in calls /\ cont[p] = Idle
Counted == ncalls < MaxCalls /\ ncalls' = ncalls + 1 /\ UNCHANGED calls
Released(op, s) == {p \in Procs : At(p, op) /\ ~Contains(s.q, p)}

------------------------------------------------------------------------------
(* The lower half. *)

\* Mutant: the last sends of a full queue are never made up for.
TtyoinNoDelayed(t) ==
  IF t.ecnt # 0 THEN [t EXCEPT !.ecnt = @ - 1]
  ELSE IF t.oheld \/ t.ocnt = 0 THEN [t EXCEPT !.txint = FALSE]
  ELSE LET u == [t EXCEPT !.ocnt = @ - 1, !.otail = (@ + 1) % OBUFLEN] IN
       IF t.ocnt > OBMINSP THEN [u EXCEPT !.osem = Signaled(@)] ELSE u

\* Echo first, then output unless it is held; otherwise ttyostop.  The last OBMINSP
\* characters are not signalled one by one but all at once.
Ttyoin(t) ==
  IF t.ecnt # 0 THEN [t EXCEPT !.ecnt = @ - 1]
  ELSE IF t.oheld \/ t.ocnt = 0 THEN [t EXCEPT !.txint = FALSE]
  ELSE LET u == [t EXCEPT !.ocnt = @ - 1, !.otail = (@ + 1) % OBUFLEN] IN
       IF t.ocnt > OBMINSP THEN [u EXCEPT !.osem = Signaled(@)]
       ELSE IF t.odsend + 1 = OBMINSP THEN [u EXCEPT !.odsend = 0, !.osem = SignaledBy(@, OBMINSP)]
       ELSE [u EXCEPT !.odsend = @ + 1]

Ttyostart(t) == IF t.txint THEN t ELSE Ttyoin([t EXCEPT !.txint = TRUE])

\* n calls of eputc, which does not look whether the echo queue is full.
Eputc(t, n) ==
  LET e[i \in 0 .. n] ==
        IF i = 0 THEN t ELSE Ttyostart([e[i-1] EXCEPT !.ecnt = (@ + 1) % EBUFLEN])
  IN  e[n]

\* The transmitter took a character and is ready for the next one.
TxInterrupt ==
  /\ tty.txint /\ tty' = Ttyoin(tty)
  /\ UNCHANGED <<cont, calls, ncalls, bonus>>

------------------------------------------------------------------------------
(* The upper half. *)

\* NEWLINE is written as RETURN, NEWLINE (ocrlf).
Mapped(text) ==
  FlattenSeq([i \in 1 .. Len(text) |-> IF text[i] = "NL" THEN <<"CR", "NL">> ELSE <<text[i]>>])

Stored(t, ch) ==
  [t EXCEPT !.obuff[t.ohead] = ch, !.ohead = (@ + 1) % OBUFLEN, !.ocnt = @ + 1]

\* The copying loop of writcopy, for a text for which there is room.
Writcopied(t, text) ==
  LET from(i) == 1 + ((i - t.ohead) % OBUFLEN) IN
  [t EXCEPT !.obuff = [i \in DOMAIN @ |-> IF from(i) <= Len(text) THEN text[from(i)] ELSE @[i]],
            !.ohead = (@ + Len(text)) % OBUFLEN, !.ocnt = @ + Len(text)]

\* ttyputc after its wait, one of several characters that a process writes; op says
\* how it goes on.  A switch to a process that ttyostart let go can only come here if
\* this one had waited as well.
PutOne(w) ==
  LET t == Ttyostart(Stored(w.t, Head(w.rest)))
  IN  [t |-> t, rest |-> Tail(w.rest),
       op |-> IF Len(w.rest) = 1 THEN "user"
              ELSE IF t.osem.q # w.t.osem.q THEN "more" ELSE "go"]

Waiting(w, p) == [w EXCEPT !.t.osem = Waited(@, p)]

PutNext(w, p) ==
  IF w.op # "go" THEN w
  ELSE IF Blocks(w.t.osem) THEN [Waiting(w, p) EXCEPT !.op = "put"]
  ELSE PutOne(Waiting(w, p))

\* ttywrite's loop over what writcopy left, with interrupts disabled.
PutAll(w, p) ==
  LET v[i \in 0 .. Len(w.rest)] == IF i = 0 THEN w ELSE PutNext(v[i-1], p) IN v[Len(w.rest)]

\* putc's RETURN and NEWLINE are calls of their own, with interrupts enabled between.
GoesOn(p, w) == IF cont[p].n = 1 THEN w ELSE PutAll(w, p)
Writes(rest) == [t |-> tty, rest |-> rest, op |-> "go"]
Goes(p, w, c) ==
  /\ tty' = w.t
  /\ Then(p, IF w.op = "user" THEN Idle
             ELSE [c EXCEPT !.op = IF w.op = "put" THEN "put" ELSE "more", !.rest = w.rest])

Ttyputc(p, ch) ==
  /\ Call(p, "write") /\ Counted
  /\ Goes(p, PutNext(Writes(Mapped(<<ch>>)), p), [Idle EXCEPT !.n = 1])
  /\ UNCHANGED bonus

\* How many characters writcopy copies: each needs room for two.
Fitting(text, avail) ==
  Max({k \in 0 .. Len(text) : \A j \in 1 .. k : avail - Len(Mapped(SubSeq(text, 1, j - 1))) > 1})

\* Mutant: writcopy returns how many characters it stored, RETURNs included.
TtywriteCountStored(p, text) ==
  /\ Call(p, "write") /\ Counted
  /\ LET k == Fitting(text, OBUFLEN - tty.ocnt)
         t == Writcopied(tty, Mapped(SubSeq(text, 1, k)))
     IN /\ tty' = [t EXCEPT !.osem = WasReset(@, OBUFLEN - t.ocnt)]
        /\ Then(p, Do("wrote", Mapped(SubSeq(text, 1 + t.ocnt - tty.ocnt, Len(text)))))
  /\ bonus' = tty.odsend + Len(tty.osem.q) + Cardinality(Released("put", tty.osem))

\* ttywrite up to writcopy's sreset, which lets go of all who wait for room and gives the
\* processor away: the units are the room there is, whatever was promised before.
Ttywrite(p, text) ==
  /\ Call(p, "write") /\ Counted
  /\ LET k == Fitting(text, OBUFLEN - tty.ocnt)
         t == Writcopied(tty, Mapped(SubSeq(text, 1, k)))
     IN /\ tty' = [t EXCEPT !.osem = WasReset(@, OBUFLEN - t.ocnt)]
        /\ Then(p, Do("wrote", Mapped(SubSeq(text, k + 1, Len(text)))))
  /\ bonus' = tty.odsend + Len(tty.osem.q) + Cardinality(Released("put", tty.osem))

\* The rest of ttywrite.
FinishWrite(p) ==
  /\ At(p, "wrote")
  /\ LET w == [Writes(cont[p].rest) EXCEPT !.t = Ttyostart(tty)]
     IN Goes(p, IF w.rest = <<>> THEN [w EXCEPT !.op = "user"]
                ELSE IF w.t.osem.q # tty.osem.q THEN w ELSE PutAll(w, p), cont[p])
  /\ UNCHANGED <<calls, ncalls, bonus>>

\* The wait that a process was blocked in returns; or it goes on with the next character.
FinishPut(p) ==
  /\ At(p, "put") /\ ~Contains(tty.osem.q, p)
  /\ Goes(p, GoesOn(p, PutOne(Writes(cont[p].rest))), cont[p])
  /\ UNCHANGED <<calls, ncalls, bonus>>

PutMore(p) ==
  /\ At(p, "more")
  /\ Goes(p, GoesOn(p, PutNext(Writes(cont[p].rest), p)), cont[p])
  /\ UNCHANGED <<calls, ncalls, bonus>>

WriterStep(p) ==
  \/ \E text \in Texts : IF Len(text) = 1 THEN Ttyputc(p, text[1]) ELSE Ttywrite(p, text)
  \/ FinishWrite(p) \/ FinishPut(p) \/ PutMore(p)

\* The characters that wait to be sent, oldest first.
Pending(t) == [i \in 1 .. t.ocnt |-> t.obuff[(t.otail + i - 1) % OBUFLEN]]
==============================================================================
