------------------------------- MODULE Message -------------------------------
(***************************************************************************)
(* One-word messages: send, sendf, receive, recvclr and recvtim.  What a   *)
(* message says is left out; phasmsg is the byte the code counts in.       *)
(***************************************************************************)
EXTENDS KernelState

MsgUnchanged == UNCHANGED <<semVars, tableVars, clkVars>>

Take(p) == /\ phasmsg' = [phasmsg EXCEPT ![p] = 0]
           /\ pend' = [pend EXCEPT ![p] = FALSE]

Send(p) ==
  /\ Call("send")
  /\ pstate[p] # "free" /\ phasmsg[p] = 0
  /\ phasmsg' = [phasmsg EXCEPT ![p] = 1]
  /\ pend' = [pend EXCEPT ![p] = TRUE]
  /\ Commit(Deliver(Now, p))
  /\ UNCHANGED <<cont, owed>> /\ MsgUnchanged

\* sendf overwrites a waiting message; it does not look at PRTRECV.
Sendf(p) ==
  /\ Call("sendf")
  /\ pstate[p] # "free"
  /\ phasmsg' = [phasmsg EXCEPT ![p] = (@ + 1) % HasMsgMod]
  /\ pend' = [pend EXCEPT ![p] = TRUE]
  /\ Commit(IF pstate[p] = "recv" THEN Resched(Ready(Now, p)) ELSE Now)
  /\ UNCHANGED <<cont, owed>> /\ MsgUnchanged

\* receive: after resched it takes the message without looking whether there is one.
Receive ==
  /\ Call("receive")
  /\ IF phasmsg[currpid] # 0
     THEN Take(currpid) /\ UNCHANGED <<dispVars, cont>>
     ELSE /\ Commit(Resched([Now EXCEPT !.pstate[currpid] = "recv"]))
          /\ cont' = [cont EXCEPT ![currpid].op = "receive"]
          /\ UNCHANGED msgVars
  /\ UNCHANGED owed /\ MsgUnchanged

FinishReceive ==
  /\ cont[currpid].op = "receive"
  /\ Take(currpid)
  /\ cont' = [cont EXCEPT ![currpid] = UserCode]
  /\ UNCHANGED <<dispVars, owed>> /\ MsgUnchanged

Recvclr ==
  /\ Call("recvclr")
  /\ phasmsg[currpid] # 0
  /\ Take(currpid)
  /\ UNCHANGED <<dispVars, cont, owed>> /\ MsgUnchanged

Recvtim(maxwait) ==
  /\ Call("recvtim")
  /\ IF phasmsg[currpid] # 0
     THEN Take(currpid) /\ UNCHANGED <<dispVars, cont, owed>>
     ELSE /\ LET d == InsertSleep(Now, currpid, maxwait)
             IN  Commit(Resched([d EXCEPT !.pstate[currpid] = "trecv"]))
          /\ cont' = [cont EXCEPT ![currpid].op = "recvtim"]
          /\ owed' = [owed EXCEPT ![currpid] = maxwait]
          /\ UNCHANGED msgVars
  /\ MsgUnchanged

\* recvtim when it runs again: the message if there is one, TIMEOUT if not.
FinishRecvtim ==
  /\ cont[currpid].op = "recvtim"
  /\ IF phasmsg[currpid] # 0 THEN Take(currpid) ELSE UNCHANGED msgVars
  /\ cont' = [cont EXCEPT ![currpid] = UserCode]
  /\ UNCHANGED <<dispVars, owed>> /\ MsgUnchanged

MessageNext ==
  \/ \E p \in UserPids : Send(p) \/ Sendf(p)
  \/ Receive \/ FinishReceive \/ Recvclr
  \/ \E n \in Delays : Recvtim(n)
  \/ FinishRecvtim
==============================================================================
