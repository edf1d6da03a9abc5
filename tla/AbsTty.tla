--------------------------------- MODULE AbsTty ---------------------------------
(***************************************************************************)
(* What tty(4) promises of a terminal: a stream of finished characters, a  *)
(* line that is being typed and can be edited, and a stream of output.     *)
(***************************************************************************)
EXTENDS Integers, Sequences, SequencesExt

CONSTANTS Procs, Keys, Texts

VARIABLES
  ready,      (* typed, finished and not read                              *)
  line,       (* typed and not finished                                    *)
  out,        (* written and not sent                                      *)
  unsent      (* what each process's write still has to hand over          *)

input == <<ready, line>>
output == <<out, unsent>>
vars == <<input, output>>

\* In cooked mode characters go to the line, of which the last, or all, can be erased.
Extend(c) == line' = Append(line, c) /\ UNCHANGED ready
Shorten == \E k \in 0 .. Len(line) - 1 : line' = SubSeq(line, 1, k) /\ UNCHANGED ready
Finish(c) == ready' = ready \o Append(line, c) /\ line' = <<>>

\* In the other modes a character is finished; what a line began stays in its order.
Deliver(c) ==
  LET all == Append(ready \o line, c) IN
  /\ ready' = SubSeq(all, 1, Len(ready) + 1)
  /\ line' = SubSeq(all, Len(ready) + 2, Len(all))

Read == \E k \in 1 .. Len(ready) : ready' = SubSeq(ready, k + 1, Len(ready)) /\ UNCHANGED line

Input ==
  \/ \E c \in Keys : Extend(c) \/ Finish(c) \/ Deliver(c)
  \/ Shorten \/ Read

\* A newline is sent as return and newline.
Sent(text) ==
  FlattenSeq([i \in 1 .. Len(text) |-> IF text[i] = "NL" THEN <<"CR", "NL">> ELSE <<text[i]>>])

\* A process hands over the next characters of its text, or the first ones of a new one;
\* meanwhile a character may leave.
Write(p) ==
  \E text \in {unsent[p]} \cup (IF unsent[p] = <<>> THEN {Sent(t) : t \in Texts} ELSE {}) :
  \E k \in 0 .. Len(text), j \in 0 .. 1 :
    /\ unsent' = [unsent EXCEPT ![p] = SubSeq(text, k + 1, Len(text))]
    /\ LET all == out \o SubSeq(text, 1, k) IN out' = SubSeq(all, j + 1, Len(all))

Leave == out # <<>> /\ out' = Tail(out) /\ UNCHANGED unsent

Next ==
  /\ Input \/ UNCHANGED input
  /\ (\E p \in Procs : Write(p)) \/ Leave \/ UNCHANGED output

Init ==
  /\ ready = <<>> /\ line = <<>> /\ out = <<>> /\ unsent = [p \in Procs |-> <<>>]
==============================================================================
