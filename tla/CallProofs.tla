------------------------------ MODULE CallProofs ------------------------------
(***************************************************************************)
(* What the calls of the kernel do together, for all values of the         *)
(* constants: numproc counts who lives; the semaphore table implements     *)
(* AbsSemaphore and releases in order; a message that was waited for is    *)
(* there; a delay is never cut short.                                      *)
(***************************************************************************)
EXTENDS KernelProofs, FiniteSetTheorems

------------------------------------------------------------------------------
(* Who lives, and that numproc counts them: create and kill are the only   *)
(* calls that change it, and a kill that handed the processor over has     *)
(* already counted its victim as dead.                                     *)

\* The processes that are in a kill and have not freed their victims yet.
Killing == {q \in Pids : cont[q].op = "kill"}

\* No process has a next of kin that kill would send to.
Kinless == \A p \in Pids : pnxtkin[p] \notin UserPids

CountInv == /\ numproc + Cardinality(Killing) <= Cardinality(Living)
            /\ "setnok" \notin calls =>
                 numproc = Cardinality(Living) /\ Killing = {} /\ Kinless

------------------------------------------------------------------------------
LEMMA SetsFinite == IsFiniteSet(Killing) /\ IsFiniteSet(Living)
<1>1. IsFiniteSet(Pids)
  BY NProcAssumption, FS_Interval DEF Pids
<1>2. Killing \in SUBSET Pids /\ Living \in SUBSET Pids
  BY DEF Killing, Living, UserPids
<1>3. QED  BY <1>1, <1>2, FS_Subset

LEMMA Sizes ==
  ASSUME IInv
  PROVE  /\ Cardinality(Killing) \in Nat /\ Cardinality(Living) \in Nat /\ numproc \in Int
         /\ cont \in [Pids -> [op : Ops, arg : Pids]] /\ currpid \in Pids
         /\ pnxtkin \in [Pids -> Pids \cup {BADPID}]
BY SetsFinite, FS_CardinalityType, TypedNow DEF IInv, TableTyped, ContTyped

\* Nobody is born and nobody dies.
LEMMA LivingKept ==
  ASSUME SameFree
  PROVE  Living' = Living
BY DEF SameFree, Living, UserPids

\* Whatever a process notes but a kill, it does not add to the kills in progress.
Unkilling(p) == \/ cont' = cont
                \/ cont' = [cont EXCEPT ![p] = UserCode]
                \/ \E op \in Ops \ {"kill"} : cont' = [cont EXCEPT ![p].op = op]

LEMMA KillingShrinks ==
  ASSUME IInv, NEW p \in Pids, Unkilling(p)
  PROVE  /\ Killing' \in SUBSET Killing
         /\ cont' = [cont EXCEPT ![p] = UserCode] => Killing' = Killing \ {p}
<1>1. cont \in [Pids -> [op : Ops, arg : Pids]] /\ UserCode.op = "user"
  BY Sizes DEF UserCode
<1>2. ASSUME cont' = [cont EXCEPT ![p] = UserCode]
      PROVE  Killing' = Killing \ {p}
  <2>1. \A q \in Pids : cont'[q] = IF q = p THEN UserCode ELSE cont[q]
    BY <1>1, <1>2
  <2>2. QED  BY <1>1, <2>1 DEF Killing
<1>3. ASSUME NEW op \in Ops \ {"kill"}, cont' = [cont EXCEPT ![p].op = op]
      PROVE  Killing' \in SUBSET Killing
  <2>1. \A q \in Pids : cont'[q].op = IF q = p THEN op ELSE cont[q].op
    BY <1>1, <1>3
  <2>2. QED  BY <2>1 DEF Killing
<1>4. cont' = cont => Killing' = Killing
  BY DEF Killing
<1>5. QED  BY <1>2, <1>3, <1>4 DEF Unkilling

\* A step in which nobody is born or dies, and next of kin stay.
LEMMA OtherStep ==
  ASSUME IInv, CountInv, SameFree, numproc' = numproc, calls' = calls,
         NEW p \in Pids, Unkilling(p), pnxtkin' = pnxtkin \/ "setnok" \in calls
  PROVE  CountInv'
<1>1. Living' = Living /\ Killing' \in SUBSET Killing
  BY LivingKept, KillingShrinks
<1>2. Cardinality(Killing') \in Nat /\ Cardinality(Killing') <= Cardinality(Killing)
  BY <1>1, SetsFinite, FS_Subset, FS_CardinalityType
<1>3. numproc' + Cardinality(Killing') <= Cardinality(Living')
  BY <1>1, <1>2, Sizes DEF CountInv
<1>4. ASSUME "setnok" \notin calls PROVE Kinless'
  BY <1>4 DEF CountInv, Kinless
<1>5. QED  BY <1>1, <1>3, <1>4 DEF CountInv

\* create adds a process; a kill that this slot's last process left unfinished is forgotten.
LEMMA BornCounted ==
  ASSUME IInv, CountInv, Born, calls' = calls
  PROVE  CountInv'
<1>1. PICK p \in UserPids :
         /\ pstate[p] = "free" /\ numproc' = numproc + 1
         /\ \A q \in Pids : pstate'[q] = "free" <=> pstate[q] = "free" /\ q # p
         /\ cont' = [cont EXCEPT ![p] = UserCode] /\ pnxtkin' = [pnxtkin EXCEPT ![p] = BADPID]
  BY DEF Born
<1>2. p \in Pids
  BY UserFacts
<1>3. Living' = Living \cup {p} /\ p \notin Living
  BY <1>1 DEF Living, UserPids
<1>4. Cardinality(Living') = Cardinality(Living) + 1
  BY <1>3, SetsFinite, FS_AddElement
<1>5. Killing' = Killing \ {p}
  BY <1>1, <1>2, KillingShrinks DEF Unkilling
<1>6. Cardinality(Killing') \in Nat /\ Cardinality(Killing') <= Cardinality(Killing)
  BY <1>5, SetsFinite, FS_Subset, FS_CardinalityType
<1>7. numproc' + Cardinality(Killing') <= Cardinality(Living')
  BY <1>1, <1>4, <1>6, Sizes DEF CountInv
<1>8. ASSUME "setnok" \notin calls
      PROVE  numproc' = Cardinality(Living') /\ Killing' = {} /\ Kinless'
  <2>1. numproc = Cardinality(Living) /\ Killing = {} /\ Kinless
    BY <1>8 DEF CountInv
  <2>2. \A q \in Pids : pnxtkin'[q] = IF q = p THEN BADPID ELSE pnxtkin[q]
    BY <1>1, Sizes
  <2>3. BADPID \notin UserPids
    BY DEF BADPID, UserPids, Pids
  <2>4. QED  BY <1>1, <1>4, <1>5, <2>1, <2>2, <2>3 DEF Kinless
<1>9. QED  BY <1>7, <1>8 DEF CountInv

\* The slot of p is freed.
LEMMA DeathCounted ==
  ASSUME IInv, NEW p \in UserPids, Dies(p)
  PROVE  /\ pstate[p] # "free" => Cardinality(Living') = Cardinality(Living) - 1
         /\ Cardinality(Living') \in Nat /\ Cardinality(Living') >= Cardinality(Living) - 1
<1>1. Living' = Living \ {p}
  BY DEF Dies, Living, UserPids
<1>2. pstate[p] # "free" <=> p \in Living
  BY DEF Living
<1>3. /\ Cardinality(Living \ {p}) = IF p \in Living THEN Cardinality(Living) - 1
                                     ELSE Cardinality(Living)
      /\ Cardinality(Living \ {p}) \in Nat
  BY SetsFinite, FS_RemoveElement, FS_CardinalityType
<1>4. QED  BY <1>1, <1>2, <1>3, Sizes

LEMMA KillCounted ==
  ASSUME IInv, CountInv, NEW p \in UserPids, Kill(p), calls' = calls
  PROVE  CountInv'
<1>1. /\ numproc' = numproc - 1 /\ pnxtkin' = pnxtkin /\ pstate[p] # "free"
      /\ cont[currpid] = UserCode
  BY DEF Kill, Call, InUser
<1>2. CASE Dies(p) /\ cont' = cont
  <2>1. Cardinality(Living') = Cardinality(Living) - 1
    BY <1>1, <1>2, DeathCounted
  <2>2. Killing' = Killing /\ (Kinless => Kinless')
    BY <1>1, <1>2 DEF Killing, Kinless
  <2>3. QED  BY <1>1, <2>1, <2>2, Sizes DEF CountInv
<1>3. CASE SameFree /\ Noted(currpid, "kill", p) /\ pnxtkin[p] \in UserPids
  <2>1. Living' = Living
    BY <1>3, LivingKept
  <2>2. Killing' = Killing \cup {currpid} /\ currpid \notin Killing
    <3>1. \A q \in Pids : cont'[q] = IF q = currpid THEN [op |-> "kill", arg |-> p] ELSE cont[q]
      BY <1>3, Sizes DEF Noted
    <3>2. QED  BY <1>1, <3>1, Sizes DEF Killing, UserCode
  <2>3. Cardinality(Killing') = Cardinality(Killing) + 1
    BY <2>2, SetsFinite, FS_AddElement
  <2>4. numproc' + Cardinality(Killing') <= Cardinality(Living')
    BY <1>1, <2>1, <2>3, Sizes DEF CountInv
  <2>5. ~Kinless
    BY <1>3, UserFacts DEF Kinless
  <2>6. QED  BY <2>4, <2>5 DEF CountInv
<1>4. QED  BY <1>2, <1>3, KillStep

LEMMA FinishKillCounted ==
  ASSUME IInv, CountInv, FinishKill, calls' = calls
  PROVE  CountInv'
<1>1. /\ cont[currpid].op = "kill" /\ cont' = [cont EXCEPT ![currpid] = UserCode]
      /\ numproc' = numproc
  BY DEF FinishKill, tableVars
<1>2. currpid \in Killing /\ Killing' = Killing \ {currpid}
  BY <1>1, Sizes, KillingShrinks DEF Killing, Unkilling
<1>3. Cardinality(Killing') = Cardinality(Killing) - 1
  BY <1>2, SetsFinite, FS_RemoveElement
<1>4. Cardinality(Living') \in Nat /\ Cardinality(Living') >= Cardinality(Living) - 1
  BY FinishKillStep, DeathCounted
<1>5. "setnok" \in calls
  BY <1>2 DEF CountInv
<1>6. QED  BY <1>1, <1>3, <1>4, <1>5, Sizes DEF CountInv

------------------------------------------------------------------------------
(* The actions that neither create nor kill. *)

LEMMA OthersKeep ==
  ASSUME IInv, NEW p \in UserPids,
         \/ Resume(p) \/ Suspend(p) \/ \E x \in Prios : Chprio(p, x)
         \/ Setnok(BADPID, p) \/ Setnok(currpid, p)
  PROVE  SameFree
<1>1. BADPID \in Pids \cup {BADPID} /\ currpid \in Pids \cup {BADPID}
  BY Sizes
<1>2. QED  BY <1>1, ResumeStep, SuspendStep, ChprioStep, SetnokStep

LEMMA ProcessOthers ==
  ASSUME IInv, CountInv, calls' = calls, NEW p \in UserPids,
         \/ Resume(p) \/ Suspend(p) \/ \E x \in Prios : Chprio(p, x)
         \/ Setnok(BADPID, p) \/ Setnok(currpid, p)
  PROVE  CountInv'
<1>1. SameFree
  BY OthersKeep
<1>2. cont' = cont /\ numproc' = numproc /\ (pnxtkin' = pnxtkin \/ "setnok" \in calls)
  BY DEF Resume, Suspend, Chprio, Setnok, Call, tableVars
<1>3. QED  BY <1>1, <1>2, Sizes, OtherStep DEF Unkilling

LEMMA SemaphoreKeeps ==
  ASSUME IInv, SemaphoreNext
  PROVE  SameFree
<1>1. ASSUME NEW s \in Sems, Sdelete(s) \/ Wait(s) \/ Signal(s) PROVE SameFree
  BY <1>1, SdeleteStep, WaitStep, SignalStep
<1>2. ASSUME NEW s \in Sems, NEW count \in 0 .. MaxCount,
             Screate(count) \/ Sreset(s, count) \/ Signaln(s, count)
      PROVE  SameFree
  <2>1. count \in Nat
    BY <1>2
  <2>2. QED  BY <1>2, <2>1, ScreateStep, SresetStep, SignalnStep
<1>3. QED  BY <1>1, <1>2 DEF SemaphoreNext

LEMMA SemaphoreOthers ==
  ASSUME IInv, CountInv, calls' = calls, SemaphoreNext
  PROVE  CountInv'
<1>1. cont' = cont /\ numproc' = numproc /\ pnxtkin' = pnxtkin
  BY DEF SemaphoreNext, Screate, Sdelete, Sreset, Signal, Signaln, Wait, SemUnchanged
<1>2. SameFree
  BY SemaphoreKeeps
<1>3. QED  BY <1>1, <1>2, Sizes, OtherStep DEF Unkilling

LEMMA MessageKeeps ==
  ASSUME IInv, MessageNext
  PROVE  SameFree
<1>1. ASSUME NEW p \in UserPids, Send(p) \/ Sendf(p) PROVE SameFree
  BY <1>1, SendStep, SendfStep
<1>2. ASSUME NEW n \in Delays, Recvtim(n) PROVE SameFree
  BY <1>2, RecvtimStep
<1>3. CASE Receive \/ FinishReceive \/ Recvclr \/ FinishRecvtim
  BY <1>3, ReceiveStep, FinishReceiveStep, RecvclrStep, FinishRecvtimStep
<1>4. QED  BY <1>1, <1>2, <1>3 DEF MessageNext

LEMMA MessageOthers ==
  ASSUME IInv, CountInv, calls' = calls, MessageNext
  PROVE  CountInv'
<1>1. numproc' = numproc /\ pnxtkin' = pnxtkin
  BY DEF MessageNext, Send, Sendf, Receive, FinishReceive, Recvclr, Recvtim, FinishRecvtim,
     MsgUnchanged, tableVars
<1>2. Unkilling(currpid)
  <2>1. "receive" \in Ops \ {"kill"} /\ "recvtim" \in Ops \ {"kill"}
    BY DEF Ops
  <2>2. QED  BY <2>1 DEF MessageNext, Send, Sendf, Receive, FinishReceive, Recvclr, Recvtim,
                  FinishRecvtim, Unkilling
<1>3. SameFree
  BY MessageKeeps
<1>4. QED  BY <1>1, <1>2, <1>3, Sizes, OtherStep

LEMMA ClockKeeps ==
  ASSUME IInv, ClockNext
  PROVE  SameFree
<1>1. ASSUME NEW n \in Delays, Sleep10(n) PROVE SameFree
  BY <1>1, Sleep10Step
<1>2. CASE Clkint \/ FinishClkint \/ Stopclk \/ Strtclk \/ FinishStrtclk
  BY <1>2, ClkintStep, FinishClkintStep, StopclkStep, StrtclkStep, FinishStrtclkStep
<1>3. QED  BY <1>1, <1>2 DEF ClockNext

LEMMA ClockOthers ==
  ASSUME IInv, CountInv, calls' = calls, ClockNext
  PROVE  CountInv'
<1>1. numproc' = numproc /\ pnxtkin' = pnxtkin
  BY DEF ClockNext, Sleep10, Clkint, FinishClkint, Stopclk, Strtclk, FinishStrtclk,
     ClkUnchanged, tableVars
<1>2. Unkilling(currpid)
  <2>1. "clpreem" \in Ops \ {"kill"} /\ "strtclk" \in Ops \ {"kill"}
    BY DEF Ops
  <2>2. QED  BY <2>1 DEF ClockNext, Sleep10, Clkint, FinishClkint, Stopclk, Strtclk,
                  FinishStrtclk, Unkilling
<1>3. SameFree
  BY ClockKeeps
<1>4. QED  BY <1>1, <1>2, <1>3, Sizes, OtherStep

LEMMA CreateCounted ==
  ASSUME IInv, CountInv, Create, calls' = calls
  PROVE  CountInv'
<1>1. CASE Born
  BY <1>1, BornCounted
<1>2. CASE SameFree /\ UNCHANGED <<numproc, pnxtkin, cont>>
  BY <1>2, Sizes, OtherStep DEF Unkilling
<1>3. QED  BY <1>1, <1>2, CreateStep

------------------------------------------------------------------------------
(* The invariant and what follows from it. *)

LEMMA InitCounted ==
  ASSUME Init
  PROVE  CountInv
<1> DEFINE main == NProc - 1
<1>1. /\ pstate = [p \in Pids |-> IF p = main THEN "curr"
                                  ELSE IF p = NULLPROC THEN "ready" ELSE "free"]
      /\ pnxtkin = [p \in Pids |-> IF p = main THEN BADPID ELSE 0]
      /\ numproc = 1 /\ cont = [p \in Pids |-> UserCode]
  BY DEF Init
<1>2. main \in UserPids
  BY NProcAssumption DEF UserPids, Pids, NULLPROC
<1>3. Living = {main}
  BY <1>1, <1>2 DEF Living, UserPids
<1>4. Killing = {}
  BY <1>1 DEF Killing, UserCode
<1>5. Cardinality(Living) = 1 /\ Cardinality(Killing) = 0
  BY <1>3, <1>4, FS_EmptySet, FS_Singleton
<1>6. Kinless
  BY <1>1 DEF Kinless, UserPids, Pids, BADPID, NULLPROC
<1>7. QED  BY <1>1, <1>4, <1>5, <1>6 DEF CountInv

LEMMA NextCounted ==
  ASSUME IInv, CountInv, [Next]_vars
  PROVE  CountInv'
<1>1. CASE ProcessNext /\ calls' = calls
  <2>1. CASE Create
    BY <1>1, <2>1, CreateCounted
  <2>2. ASSUME NEW p \in UserPids, Resume(p) \/ Suspend(p) PROVE CountInv'
    BY <1>1, <2>2, ProcessOthers
  <2>3. ASSUME NEW p \in UserPids, Kill(p) PROVE CountInv'
    BY <1>1, <2>3, KillCounted
  <2>4. ASSUME NEW p \in UserPids, NEW x \in Prios, Chprio(p, x) PROVE CountInv'
    BY <1>1, <2>4, ProcessOthers
  <2>5. ASSUME NEW p \in UserPids, Setnok(BADPID, p) \/ Setnok(currpid, p) PROVE CountInv'
    BY <1>1, <2>5, ProcessOthers
  <2>6. CASE FinishKill
    BY <1>1, <2>6, FinishKillCounted
  <2>7. QED  BY <1>1, <2>1, <2>2, <2>3, <2>4, <2>5, <2>6 DEF ProcessNext
<1>2. CASE (SemaphoreNext \/ MessageNext \/ ClockNext) /\ calls' = calls
  BY <1>2, SemaphoreOthers, MessageOthers, ClockOthers
<1>3. CASE UNCHANGED vars
  BY <1>3 DEF vars, dispVars, tableVars, CountInv, Killing, Living, Kinless
<1>4. QED  BY <1>1, <1>2, <1>3 DEF Next

\* numproc is never more than the processes there are, and equals it as long as no
\* program names a next of kin (create, kill, xdone): two kills of one victim are the
\* only way to a count that is too low.
THEOREM NumprocCorrect == Spec => []NumprocCounts
<1>1. Init => IInv /\ CountInv
  BY InitIInv, InitCounted
<1>2. (IInv /\ CountInv) /\ [Next]_vars => (IInv /\ CountInv)'
  BY NextIInv, NextCounted
<1>3. IInv /\ CountInv => NumprocCounts
  BY Sizes DEF CountInv, NumprocCounts
<1>4. QED  BY <1>1, <1>2, <1>3, PTL DEF Spec

\* What a step does to who lives.
LEMMA BirthsAndDeaths ==
  ASSUME IInv, [Next]_vars
  PROVE  SameFree \/ Born \/ \E p \in UserPids : Dies(p)
<1> DEFINE Goal == SameFree \/ Born \/ \E p \in UserPids : Dies(p)
<1>1. CASE ProcessNext
  <2>1. ASSUME NEW p \in UserPids,
               \/ Resume(p) \/ Suspend(p) \/ \E x \in Prios : Chprio(p, x)
               \/ Setnok(BADPID, p) \/ Setnok(currpid, p)
        PROVE  SameFree
    BY <2>1, OthersKeep
  <2>2. ASSUME NEW p \in UserPids, Kill(p) PROVE Goal
    BY <2>2, KillStep
  <2>3. CASE Create
    BY <2>3, CreateStep
  <2>4. CASE FinishKill
    BY <2>4, FinishKillStep
  <2>5. QED  BY <1>1, <2>1, <2>2, <2>3, <2>4 DEF ProcessNext
<1>2. CASE SemaphoreNext \/ MessageNext \/ ClockNext
  BY <1>2, SemaphoreKeeps, MessageKeeps, ClockKeeps
<1>3. CASE UNCHANGED vars
  BY <1>3 DEF vars, dispVars, SameFree
<1>4. QED  BY <1>1, <1>2, <1>3 DEF Next

\* Only create fills a slot, and with a suspended process that runs its own code: nothing
\* a killed process left behind in the kernel (a message under way, a place on the delta
\* list, an unfinished kill or receive) brings it back to life.
THEOREM DeathCorrect == Spec => Death
<1> DEFINE Dead == \A p \in Pids : pstate[p] = "free" /\ pstate'[p] # "free" =>
                                     pstate'[p] = "susp" /\ cont'[p] = UserCode
<1>1. IInv /\ [Next]_vars => Dead
  <2>1. SUFFICES ASSUME IInv, [Next]_vars, NEW p \in Pids, pstate[p] = "free", pstate'[p] # "free"
                 PROVE  pstate'[p] = "susp" /\ cont'[p] = UserCode
    OBVIOUS
  <2>2. Born
    BY <2>1, BirthsAndDeaths DEF SameFree, Dies
  <2>3. QED  BY <2>1, <2>2, Sizes DEF Born
<1>2. QED  BY <1>1, InvariantHolds, PTL DEF Spec, Death

------------------------------------------------------------------------------
(* The semaphore table implements AbsSemaphore, and a waiting process is    *)
(* released in its turn.                                                   *)

\* What AbsSemaphore sees of the table.
Used == [s \in Sems |-> sstate[s] = "used"]
Perm == [s \in Sems |-> Permits(s)]

LEMMA SemFacts ==
  ASSUME IInv
  PROVE  /\ sstate \in [Sems -> {"free", "used"}] /\ semcnt \in [Sems -> Int]
         /\ semq \in [Sems -> Seq(Pids)]
         /\ \A s \in Sems : Permits(s) \in Nat
BY DEF IInv, SemTyped, Permits

\* A step that touches one semaphore only.
LEMMA OneSemaphore ==
  ASSUME IInv, NEW s \in Sems, NEW n, NEW u \in BOOLEAN, (sstate'[s] = "used") <=> u, Permits(s)' = n,
         \A t \in Sems \ {s} : sstate'[t] = sstate[t] /\ semcnt'[t] = semcnt[t]
  PROVE  Used' = [Used EXCEPT ![s] = u] /\ Perm' = [Perm EXCEPT ![s] = n]
<1>1. \A t \in Sems \ {s} : Permits(t)' = Permits(t)
  BY DEF Permits
<1>2. Perm' = [Perm EXCEPT ![s] = n]
  BY <1>1 DEF Perm
<1>3. Used' = [Used EXCEPT ![s] = u]
  BY DEF Used
<1>4. QED  BY <1>2, <1>3

\* And one that touches its count only.
LEMMA OneCount ==
  ASSUME IInv, NEW s \in Sems, sstate[s] = "used", sstate' = sstate, NEW n \in Int,
         semcnt' = [semcnt EXCEPT ![s] = n]
  PROVE  Used' = Used /\ Perm' = [Perm EXCEPT ![s] = IF n > 0 THEN n ELSE 0]
<1>1. sstate \in [Sems -> {"free", "used"}] /\ semcnt \in [Sems -> Int]
  BY SemFacts
<1>2. semcnt'[s] = n /\ \A t \in Sems \ {s} : semcnt'[t] = semcnt[t]
  BY <1>1
<1> DEFINE m == IF n > 0 THEN n ELSE 0
<1>3. Permits(s)' = m
  BY <1>2 DEF Permits
<1> HIDE DEF m
<1>4. Used' = [Used EXCEPT ![s] = TRUE] /\ Perm' = [Perm EXCEPT ![s] = m]
  BY <1>2, <1>3, OneSemaphore
<1>5. Used' = Used
  BY DEF Used
<1>6. QED  BY <1>4, <1>5 DEF m

\* The first m processes of the queue of s are released.
Frees(s, m) == semq' = [semq EXCEPT ![s] = SubSeq(semq[s], m + 1, Len(semq[s]))]

LEMMA NoneLeft ==
  ASSUME NEW l \in Seq(Pids)
  PROVE  SubSeq(l, Len(l) + 1, Len(l)) = <<>>
<1>1. Len(l) + 1 \in Int /\ Len(l) \in Int /\ Len(l) < Len(l) + 1
  OBVIOUS
<1>2. QED  BY <1>1, SubSeqEmpty

------------------------------------------------------------------------------
(* How each step that touches the table looks to AbsSemaphore. *)

\* screate makes a semaphore of a free slot.
LEMMA ScreateMaps ==
  ASSUME IInv, NEW count \in 0 .. MaxCount, Screate(count)
  PROVE  \E s \in Sems : AbsSem!Create(s, count) /\ semq' = semq
<1>1. /\ FreeSems # {} /\ semq' = semq
      /\ sstate' = [sstate EXCEPT ![SemSearch[Min(FreeSems)]] = "used"]
      /\ semcnt' = [semcnt EXCEPT ![SemSearch[Min(FreeSems)]] = count]
  BY DEF Screate
<1>2. PICK s \in Sems : /\ s = SemSearch[Min(FreeSems)] /\ sstate[s] = "free"
                       /\ sstate' = [sstate EXCEPT ![s] = "used"]
                       /\ semcnt' = [semcnt EXCEPT ![s] = count]
  BY <1>1, NewsemFree
<1>3. sstate \in [Sems -> {"free", "used"}] /\ semcnt \in [Sems -> Int] /\ count \in Nat
  BY SemFacts
<1>4. /\ sstate'[s] = "used" /\ semcnt'[s] = count
      /\ \A t \in Sems \ {s} : sstate'[t] = sstate[t] /\ semcnt'[t] = semcnt[t]
  BY <1>1, <1>2, <1>3
<1>5. Permits(s)' = count
  BY <1>3, <1>4 DEF Permits
<1>6. Used' = [Used EXCEPT ![s] = TRUE] /\ Perm' = [Perm EXCEPT ![s] = count]
  BY <1>2, <1>4, <1>5, OneSemaphore
<1>7. ~Used[s]
  BY <1>2 DEF Used
<1>8. AbsSem!Create(s, count)
  BY <1>1, <1>6, <1>7 DEF AbsSem!Create, Used, Perm
<1>9. QED  BY <1>1, <1>2, <1>8

\* sdelete and sreset let everybody go.
LEMMA SdeleteMaps ==
  ASSUME IInv, NEW s \in Sems, Sdelete(s)
  PROVE  AbsSem!Delete(s) /\ Frees(s, Len(semq[s])) /\ sstate'[s] = "free"
<1>1. /\ sstate[s] = "used" /\ sstate' = [sstate EXCEPT ![s] = "free"]
      /\ semcnt' = semcnt /\ semq' = [semq EXCEPT ![s] = <<>>]
  BY DEF Sdelete
<1>2. sstate \in [Sems -> {"free", "used"}] /\ semq[s] \in Seq(Pids)
  BY SemFacts
<1>3. /\ sstate'[s] = "free" /\ semcnt'[s] = semcnt[s]
      /\ \A t \in Sems \ {s} : sstate'[t] = sstate[t] /\ semcnt'[t] = semcnt[t]
  BY <1>1, <1>2
<1>4. Permits(s)' = 0
  BY <1>3 DEF Permits
<1>5. Used' = [Used EXCEPT ![s] = FALSE] /\ Perm' = [Perm EXCEPT ![s] = 0] /\ Used[s]
  BY <1>1, <1>3, <1>4, OneSemaphore DEF Used
<1>6. AbsSem!Delete(s)
  BY <1>1, <1>5 DEF AbsSem!Delete, Used, Perm
<1>7. QED  BY <1>1, <1>2, <1>3, <1>6, NoneLeft DEF Frees

LEMMA SresetMaps ==
  ASSUME IInv, NEW s \in Sems, NEW count \in 0 .. MaxCount, Sreset(s, count)
  PROVE  /\ AbsSem!Reset(s, count) /\ Frees(s, Len(semq[s]))
         /\ semq[s] # <<>> => semcnt'[s] > semcnt[s]
<1>1. /\ sstate[s] = "used" /\ sstate' = sstate
      /\ semcnt' = [semcnt EXCEPT ![s] = count] /\ semq' = [semq EXCEPT ![s] = <<>>]
  BY DEF Sreset
<1>2. semcnt \in [Sems -> Int] /\ semq[s] \in Seq(Pids) /\ count \in Nat
  BY SemFacts
<1>3. Used' = Used /\ Perm' = [Perm EXCEPT ![s] = count] /\ Used[s]
  <2>1. count \in Int /\ count = IF count > 0 THEN count ELSE 0
    BY <1>2
  <2>2. Used' = Used /\ Perm' = [Perm EXCEPT ![s] = IF count > 0 THEN count ELSE 0]
    BY <1>1, <2>1, OneCount
  <2>3. QED  BY <1>1, <2>1, <2>2 DEF Used
<1>4. AbsSem!Reset(s, count)
  BY <1>1, <1>3 DEF AbsSem!Reset, Used, Perm
<1>5. semq[s] # <<>> => semcnt'[s] > semcnt[s]
  <2>1. semcnt'[s] = count
    BY <1>1, <1>2
  <2>2. semq[s] # <<>> => semcnt[s] < 0
    BY <1>2, QueueFacts
  <2>3. QED  BY <1>2, <2>1, <2>2
<1>6. QED  BY <1>1, <1>2, <1>4, <1>5, NoneLeft DEF Frees

\* wait takes a permit, or its caller goes to the end of the queue.
LEMMA WaitMaps ==
  ASSUME IInv, NEW s \in Sems, Wait(s)
  PROVE  /\ AbsSem!P(s, currpid) /\ currpid \in Pids
         /\ semq' = semq \/ semq' = [semq EXCEPT ![s] = Append(semq[s], currpid)]
<1> DEFINE n == semcnt[s] - 1
           p == currpid
<1>1. /\ sstate[s] = "used" /\ sstate' = sstate /\ semcnt' = [semcnt EXCEPT ![s] = n]
      /\ semq' = IF n < 0 THEN [semq EXCEPT ![s] = Append(semq[s], p)] ELSE semq
  BY DEF Wait
<1>2. p \in Pids /\ pstate[p] = "curr" /\ semcnt[s] \in Int /\ n \in Int
  BY TypedNow, SemFacts
<1> HIDE DEF p
<1>3. /\ Perm[s] = IF semcnt[s] > 0 THEN semcnt[s] ELSE 0
      /\ Perm \in [Sems -> Nat] /\ Used[s]
  BY <1>1, SemFacts DEF Perm, Used, Permits
<1> DEFINE k == IF n > 0 THEN n ELSE 0
<1>4. Used' = Used /\ Perm' = [Perm EXCEPT ![s] = k]
  <2> HIDE DEF n
  <2>1. QED  BY <1>1, <1>2, OneCount
<1>5. \A t \in Sems : p \notin ToSet(semq[t])
  BY <1>2, QueueFacts
<1>6. p \notin AbsSem!Blocked
  BY <1>5 DEF AbsSem!Blocked, AbsSem!ToSet, ToSet
<1>7. \/ Perm[s] > 0 /\ Perm' = [Perm EXCEPT ![s] = Perm[s] - 1] /\ semq' = semq
      \/ Perm[s] = 0 /\ Perm' = Perm /\ semq' = [semq EXCEPT ![s] = Append(semq[s], p)]
  <2>1. CASE n < 0
    <3>1. Perm[s] = 0 /\ k = Perm[s]
      BY <1>2, <1>3, <2>1
    <3> HIDE DEF k, n
    <3>2. QED  BY <1>1, <1>3, <1>4, <2>1, <3>1
  <2>2. CASE ~(n < 0)
    <3>1. Perm[s] > 0 /\ Perm[s] - 1 = k
      BY <1>2, <1>3, <2>2
    <3> HIDE DEF k, n
    <3>2. QED  BY <1>1, <1>4, <2>2, <3>1
  <2>3. QED  BY <2>1, <2>2
<1>8. AbsSem!P(s, p)
  BY <1>3, <1>4, <1>6, <1>7 DEF AbsSem!P, Used, Perm
<1>9. QED  BY <1>1, <1>2, <1>8 DEF p

\* signal and signaln free the first processes of the queue; what is left are permits.
LEMMA VMaps ==
  ASSUME IInv, NEW s \in Sems, sstate[s] = "used", sstate' = sstate,
         NEW n \in Nat \ {0}, semcnt' = [semcnt EXCEPT ![s] = semcnt[s] + n],
         NEW m \in 0 .. Len(semq[s]), Frees(s, m), m = IF n <= Len(semq[s]) THEN n ELSE Len(semq[s])
  PROVE  AbsSem!V(s, n)
<1> DEFINE k == semcnt[s] + n
           l == semq[s]
<1>1. /\ l \in Seq(Pids) /\ semcnt[s] \in Int /\ semq \in [Sems -> Seq(Pids)]
      /\ Len(l) = IF semcnt[s] < 0 THEN -semcnt[s] ELSE 0
  BY QueueFacts, SemFacts
<1>2. Used' = Used /\ Perm' = [Perm EXCEPT ![s] = IF k > 0 THEN k ELSE 0]
  <2>1. k \in Int /\ semcnt' = [semcnt EXCEPT ![s] = k]
    BY <1>1
  <2> HIDE DEF k
  <2>2. QED  BY <2>1, OneCount
<1>3. /\ Perm[s] = IF semcnt[s] > 0 THEN semcnt[s] ELSE 0
      /\ Perm \in [Sems -> Nat] /\ Used[s]
  BY SemFacts DEF Perm, Used, Permits
<1>4. CASE n <= Len(l)
  <2>1. semq' = [semq EXCEPT ![s] = SubSeq(l, n + 1, Len(l))]
    BY <1>4 DEF Frees
  <2>2. Perm[s] = IF k > 0 THEN k ELSE 0
    BY <1>1, <1>3, <1>4
  <2>3. Perm' = Perm
    BY <1>2, <1>3, <2>2
  <2>4. QED  BY <1>2, <1>3, <1>4, <2>1, <2>3 DEF AbsSem!V, Used, Perm
<1>5. CASE ~(n <= Len(l))
  <2>1. semq' = [semq EXCEPT ![s] = <<>>]
    <3>1. m = Len(l)
      BY <1>5
    <3>2. QED  BY <1>1, <3>1, NoneLeft DEF Frees
  <2>2. Perm[s] + n - Len(l) = IF k > 0 THEN k ELSE 0
    BY <1>1, <1>3, <1>5
  <2>3. Perm' = [Perm EXCEPT ![s] = Perm[s] + n - Len(l)]
    BY <1>2, <2>2
  <2> HIDE DEF k
  <2>4. QED  BY <1>2, <1>3, <1>5, <2>1, <2>3 DEF AbsSem!V, Used, Perm
<1>6. QED  BY <1>4, <1>5

LEMMA SignalMaps ==
  ASSUME IInv, NEW s \in Sems, Signal(s)
  PROVE  /\ AbsSem!V(s, 1) /\ semcnt'[s] > semcnt[s]
         /\ \E m \in 0 .. Len(semq[s]) : Frees(s, m)
<1>1. /\ sstate[s] = "used" /\ sstate' = sstate /\ semcnt' = [semcnt EXCEPT ![s] = semcnt[s] + 1]
      /\ semq' = IF semcnt[s] < 0 THEN [semq EXCEPT ![s] = Tail(semq[s])] ELSE semq
  BY DEF Signal
<1>2. /\ semq[s] \in Seq(Pids) /\ semcnt \in [Sems -> Int] /\ semq \in [Sems -> Seq(Pids)]
      /\ Len(semq[s]) = IF semcnt[s] < 0 THEN -semcnt[s] ELSE 0
  BY <1>1, QueueFacts, SemFacts
<1> DEFINE m == IF semcnt[s] < 0 THEN 1 ELSE 0
<1>3. m \in 0 .. Len(semq[s]) /\ m = IF 1 <= Len(semq[s]) THEN 1 ELSE Len(semq[s])
  BY <1>2
<1>4. Frees(s, m)
  <2>1. CASE semcnt[s] < 0
    <3>1. semq[s] # <<>>
      BY <1>2, <2>1
    <3>2. Tail(semq[s]) = SubSeq(semq[s], 2, Len(semq[s]))
      BY <1>2, <3>1, TailIsSubSeq
    <3>3. m + 1 = 2
      BY <2>1
    <3> HIDE DEF m
    <3>4. QED  BY <1>1, <2>1, <3>2, <3>3 DEF Frees
  <2>2. CASE ~(semcnt[s] < 0)
    <3>1. SubSeq(semq[s], 1, Len(semq[s])) = semq[s]
      BY <1>2, SubSeqFull
    <3>2. QED  BY <1>1, <1>2, <2>2, <3>1 DEF Frees
  <2>3. QED  BY <2>1, <2>2
<1> HIDE DEF m
<1>5. AbsSem!V(s, 1)
  BY <1>1, <1>3, <1>4, VMaps, 1 \in Nat \ {0}
<1>6. semcnt'[s] > semcnt[s]
  BY <1>1, <1>2
<1>7. QED  BY <1>3, <1>4, <1>5, <1>6

LEMMA SignalnMaps ==
  ASSUME IInv, NEW s \in Sems, NEW count \in 0 .. MaxCount, Signaln(s, count)
  PROVE  /\ AbsSem!V(s, count) /\ count > 0 /\ semcnt'[s] > semcnt[s]
         /\ \E m \in 0 .. Len(semq[s]) : Frees(s, m)
<1> DEFINE m == IF semcnt[s] >= 0 THEN 0 ELSE IF count < -semcnt[s] THEN count ELSE -semcnt[s]
<1>1. /\ sstate[s] = "used" /\ sstate' = sstate /\ count > 0
      /\ semcnt' = [semcnt EXCEPT ![s] = semcnt[s] + count] /\ Frees(s, m)
  BY DEF Signaln, Frees
<1>2. /\ semcnt \in [Sems -> Int]
      /\ Len(semq[s]) = IF semcnt[s] < 0 THEN -semcnt[s] ELSE 0
  BY <1>1, QueueFacts, SemFacts
<1>3. /\ count \in Nat \ {0} /\ m \in 0 .. Len(semq[s])
      /\ m = IF count <= Len(semq[s]) THEN count ELSE Len(semq[s])
  BY <1>1, <1>2
<1> HIDE DEF m
<1>4. AbsSem!V(s, count)
  BY <1>1, <1>3, VMaps
<1>5. semcnt'[s] > semcnt[s]
  BY <1>1, <1>2, <1>3
<1>6. QED  BY <1>1, <1>3, <1>4, <1>5

\* kill takes its victim out of the queue it waits in.
LEMMA LeaveMaps ==
  ASSUME IInv, NEW p \in UserPids, LeaveSemaphore(p)
  PROVE  \/ UNCHANGED <<sstate, semcnt, semq>>
         \/ \E s \in Sems : /\ AbsSem!Leave(s, p) /\ semcnt'[s] > semcnt[s]
                            /\ \A t \in Sems : ToSet(semq[t]) \ {p} \subseteq ToSet(semq'[t])
                            /\ \A t \in Sems \ {s} : semq'[t] = semq[t]
<1>1. CASE pstate[p] # "wait"
  BY <1>1 DEF LeaveSemaphore, semVars
<1>2. CASE pstate[p] = "wait"
  <2>1. p \in Pids /\ psem[p] \in Sems
    BY UserFacts, PsemTyped
  <2>2. PICK s \in Sems :
          /\ s = psem[p] /\ semcnt' = [semcnt EXCEPT ![s] = semcnt[s] + 1]
          /\ semq' = [semq EXCEPT ![s] = Delete(semq[s], p)] /\ sstate' = sstate
    BY <1>2, <2>1 DEF LeaveSemaphore
  <2>3. /\ semq[s] \in Seq(Pids) /\ IsInjective(semq[s]) /\ p \in ToSet(semq[s])
        /\ semcnt \in [Sems -> Int] /\ semq \in [Sems -> Seq(Pids)] /\ Len(semq[s]) # 0
        /\ Len(semq[s]) = IF sstate[s] = "used" /\ semcnt[s] < 0 THEN -semcnt[s] ELSE 0
    <3>1. semq[s] \in Seq(Pids) /\ p \in ToSet(semq[s])
      BY <1>2, <2>1, <2>2, QueueFacts
    <3>2. Len(semq[s]) # 0
      BY <3>1, SetOfList
    <3>3. QED  BY <3>1, <3>2, QueueFacts, SemFacts
  <2>4. PICK k \in 1 .. Len(semq[s]) : semq[s][k] = p /\ Delete(semq[s], p) = RemoveAt(semq[s], k)
    <3>1. \E i \in 1 .. Len(semq[s]) : semq[s][i] = p
      BY <2>3, SetOfList
    <3>2. QED  BY <3>1 DEF Delete
  <2>5. sstate[s] = "used" /\ semcnt[s] < 0 /\ semcnt[s] + 1 \in Int
    BY <2>3
  <2>6. Used' = Used /\ Perm' = Perm
    <3>1. Used' = Used /\ Perm' = [Perm EXCEPT ![s] = IF semcnt[s] + 1 > 0 THEN semcnt[s] + 1 ELSE 0]
      BY <2>2, <2>5, OneCount
    <3>2. Perm[s] = IF semcnt[s] + 1 > 0 THEN semcnt[s] + 1 ELSE 0
      BY <2>3, <2>5 DEF Perm, Permits
    <3>3. [Perm EXCEPT ![s] = Perm[s]] = Perm
      BY DEF Perm
    <3>4. QED  BY <3>1, <3>2, <3>3
  <2>7. AbsSem!Leave(s, p)
    BY <2>2, <2>4, <2>6 DEF AbsSem!Leave, AbsSem!RemoveAt, RemoveAt, Used, Perm
  <2>8. semcnt'[s] > semcnt[s]
    BY <2>2, <2>3
  <2>9. /\ \A t \in Sems \ {s} : semq'[t] = semq[t]
        /\ semq'[s] = Delete(semq[s], p)
    BY <2>2, <2>3
  <2>10. ToSet(Delete(semq[s], p)) = ToSet(semq[s]) \ {p}
    BY <2>3, DeleteList
  <2>11. \A t \in Sems : ToSet(semq[t]) \ {p} \subseteq ToSet(semq'[t])
    BY <2>9, <2>10
  <2>12. QED  BY <2>7, <2>8, <2>9, <2>11
<1>3. QED  BY <1>1, <1>2

------------------------------------------------------------------------------
(* Every step is one of these, or leaves the table alone. *)

TableKept == UNCHANGED <<sstate, semcnt, semq>>

\* Every step that touches the table is a semaphore call or the end of a kill.
LEMMA TableSteps ==
  ASSUME IInv, [Next]_vars
  PROVE  \/ TableKept
         \/ \E s \in Sems, count \in 0 .. MaxCount :
              Sdelete(s) \/ Wait(s) \/ Signal(s) \/ Screate(count) \/ Sreset(s, count) \/ Signaln(s, count)
         \/ \E p \in UserPids : LeaveSemaphore(p) /\ Dies(p)
<1>1. CASE ProcessNext
  <2>1. ASSUME NEW p \in UserPids, Kill(p)
        PROVE  TableKept \/ (LeaveSemaphore(p) /\ Dies(p))
    <3> DEFINE nok == pnxtkin[p]
               notify == nok \in UserPids /\ pstate[nok] # "free" /\ phasmsg[nok] = 0
               d == IF notify THEN Deliver(Now, nok) ELSE Now
    <3>1. \/ LeaveSemaphore(p) /\ cont' = cont
          \/ UNCHANGED semVars
      BY <2>1 DEF Kill
    <3> HIDE DEF d, notify, nok
    <3>2. Dies(p) \/ (SameFree /\ Noted(currpid, "kill", p))
      BY <2>1, KillStep
    <3>3. cont' = cont => ~Noted(currpid, "kill", p)
      <4>1. currpid \in Pids /\ cont \in [Pids -> [op : Ops, arg : Pids]] /\ InUser
        BY <2>1, TypedNow DEF Kill, Call, IInv, ContTyped
      <4>2. cont[currpid].op = "user"
        BY <4>1 DEF InUser, UserCode
      <4>3. QED  BY <4>1, <4>2 DEF Noted
    <3>4. QED  BY <3>1, <3>2, <3>3 DEF semVars, TableKept
  <2>2. CASE FinishKill
    <3>1. LeaveSemaphore(cont[currpid].arg)
      BY <2>2 DEF FinishKill
    <3>2. QED  BY <2>2, <3>1, FinishKillStep
  <2>3. CASE Create
    BY <2>3 DEF Create, semVars, TableKept
  <2>4. ASSUME NEW p \in UserPids, Resume(p) \/ Suspend(p) PROVE TableKept
    BY <2>4 DEF Resume, Suspend, semVars, TableKept
  <2>5. ASSUME NEW p \in UserPids, NEW x \in Prios, Chprio(p, x) PROVE TableKept
    BY <2>5 DEF Chprio, semVars, TableKept
  <2>6. ASSUME NEW p \in UserPids, Setnok(BADPID, p) \/ Setnok(currpid, p) PROVE TableKept
    BY <2>6 DEF Setnok, semVars, TableKept
  <2>7. QED  BY <1>1, <2>1, <2>2, <2>3, <2>4, <2>5, <2>6 DEF ProcessNext
<1>2. CASE SemaphoreNext
  <2>1. 0 \in 0 .. MaxCount
    BY BoundsAssumption
  <2>2. QED  BY <1>2, <2>1 DEF SemaphoreNext
<1>3. CASE MessageNext
  BY <1>3 DEF MessageNext, Send, Sendf, Receive, FinishReceive, Recvclr, Recvtim, FinishRecvtim,
     MsgUnchanged, semVars, TableKept
<1>4. CASE ClockNext
  BY <1>4 DEF ClockNext, Sleep10, Clkint, FinishClkint, Stopclk, Strtclk, FinishStrtclk,
     ClkUnchanged, semVars, TableKept
<1>5. CASE UNCHANGED vars
  BY <1>5 DEF vars, semVars, TableKept
<1>6. QED  BY <1>1, <1>2, <1>3, <1>4, <1>5 DEF Next

\* So every step is one of AbsSemaphore's, or changes nothing that it sees.
LEMMA StepMaps ==
  ASSUME IInv, [Next]_vars
  PROVE  [AbsSem!Next]_AbsSem!vars
<1>0. Cardinality(Pids) \in Nat
  BY FS_Interval, FS_CardinalityType, NProcAssumption DEF Pids
<1>1. CASE TableKept
  <2>1. Used' = Used /\ Perm' = Perm /\ semq' = semq
    BY <1>1 DEF TableKept, Used, Perm, Permits
  <2>2. QED  BY <2>1 DEF AbsSem!vars, Used, Perm
<1>2. ASSUME NEW s \in Sems, NEW count \in 0 .. MaxCount,
             Sdelete(s) \/ Wait(s) \/ Signal(s) \/ Screate(count) \/ Sreset(s, count) \/ Signaln(s, count)
      PROVE  AbsSem!Next
  <2>1. CASE Sdelete(s)
    BY <2>1, SdeleteMaps DEF AbsSem!Next
  <2>2. CASE Wait(s)
    BY <2>2, WaitMaps DEF AbsSem!Next
  <2>3. CASE Signal(s)
    <3>1. AbsSem!V(s, 1)
      BY <2>3, SignalMaps
    <3>2. 1 \in 1 .. Cardinality(Pids) + MaxCount
      BY <1>0, BoundsAssumption
    <3>3. QED  BY <3>1, <3>2 DEF AbsSem!Next, AbsSem!Cardinality, Cardinality
  <2>4. CASE Screate(count)
    BY <2>4, ScreateMaps DEF AbsSem!Next
  <2>5. CASE Sreset(s, count)
    BY <2>5, SresetMaps DEF AbsSem!Next
  <2>6. CASE Signaln(s, count)
    <3>1. AbsSem!V(s, count) /\ count > 0
      BY <2>6, SignalnMaps
    <3>2. count \in 1 .. Cardinality(Pids) + MaxCount
      BY <1>0, <3>1, BoundsAssumption
    <3>3. QED  BY <3>1, <3>2 DEF AbsSem!Next, AbsSem!Cardinality, Cardinality
  <2>7. QED  BY <1>2, <2>1, <2>2, <2>3, <2>4, <2>5, <2>6
<1>3. ASSUME NEW p \in UserPids, LeaveSemaphore(p) PROVE TableKept \/ AbsSem!Next
  <2>1. p \in Pids
    BY UserFacts
  <2>2. QED  BY <1>3, <2>1, LeaveMaps DEF AbsSem!Next, TableKept
<1>4. QED  BY <1>1, <1>2, <1>3, TableSteps

\* The semaphore table with its negative counts, kill's correction of the count and
\* what sdelete leaves in a slot implements counting semaphores with fair queues.
THEOREM SemaphoresCorrect == Spec => SemaphoreRefinement
<1>1. Init => AbsSem!Init
  <2>1. SUFFICES ASSUME Init PROVE AbsSem!Init
    OBVIOUS
  <2>2. /\ semq = [s \in Sems |-> <<>>]
        /\ semcnt = [s \in Sems |-> IF s = NSem - 1 THEN 1 ELSE 0]
    BY <2>1 DEF Init
  <2>3. [s \in Sems |-> Permits(s)] \in [Sems -> 0 .. 1]
    BY <2>2 DEF Permits
  <2>4. [s \in Sems |-> sstate[s] = "used"] \in [Sems -> BOOLEAN]
    OBVIOUS
  <2>5. QED  BY <2>2, <2>3, <2>4 DEF AbsSem!Init
<1>2. IInv /\ [Next]_vars => [AbsSem!Next]_AbsSem!vars
  BY StepMaps
<1>3. QED  BY <1>1, <1>2, InvariantHolds, PTL DEF Spec, SemaphoreRefinement, AbsSem!Spec

------------------------------------------------------------------------------
(* Who is released, and in what order. *)

\* Nobody is released by a step that takes nobody out of the queue of s.
LEMMA NobodyReleased ==
  ASSUME NEW s, NEW p, ToSet(semq[s]) \subseteq ToSet(semq'[s])
  PROVE  ~Release(p, s)
BY DEF Release

\* Where the first m are released, whoever came before one of them is released as well.
LEMMA InTurn ==
  ASSUME IInv, NEW s \in Sems, NEW m \in 0 .. Len(semq[s]), Frees(s, m), NEW p, Release(p, s),
         NEW i \in 1 .. Len(semq[s]), NEW j \in 1 .. Len(semq[s]), semq[s][j] = p, i < j
  PROVE  Release(semq[s][i], s)
<1> DEFINE l == semq[s]
           a == SubSeq(l, 1, m)
           b == SubSeq(l, m + 1, Len(l))
<1>1. l \in Seq(Pids) /\ IsInjective(l) /\ semq'[s] = b
  BY SemFacts, QueueFacts DEF Frees
<1>2. a \in Seq(Pids) /\ Len(a) = m /\ ToSet(b) = ToSet(l) \ ToSet(a)
  BY <1>1, SplitDistinct
<1>3. \A k \in 1 .. m : a[k] = l[k]
  <2>1. 1 \in 1 .. Len(l) + 1 /\ m \in 0 .. Len(l) /\ \A k \in 1 .. m : k \in 1 .. m - 1 + 1 /\ 1 + k - 1 = k
    BY <1>1
  <2>2. \A k \in 1 .. m - 1 + 1 : a[k] = l[1 + k - 1]
    BY <1>1, <2>1, SubSeqList
  <2> HIDE DEF a, l
  <2>3. QED  BY <2>1, <2>2
<1> HIDE DEF a, b
<1>4. p \in ToSet(a)
  BY <1>1, <1>2 DEF Release
<1>5. PICK k \in 1 .. m : l[k] = p
  BY <1>2, <1>3, <1>4, SetOfList
<1>6. k = j
  BY <1>1, <1>5, DistinctEntries
<1>7. i \in 1 .. m
  BY <1>5, <1>6
<1>8. l[i] \in ToSet(a) /\ l[i] \in ToSet(l)
  BY <1>1, <1>2, <1>3, <1>7, SetOfList
<1>9. QED  BY <1>1, <1>2, <1>8 DEF Release

\* A step that touches only the queue of s releases nobody from another.
LEMMA ElsewhereNobody ==
  ASSUME IInv, NEW s \in Sems, NEW m, Frees(s, m), NEW t \in Sems \ {s}, NEW p
  PROVE  ~Release(p, t)
<1>1. semq'[t] = semq[t]
  BY SemFacts DEF Frees
<1>2. QED  BY <1>1 DEF Release

Justified(s, p) ==
  /\ semcnt'[s] > semcnt[s] \/ sstate'[s] = "free"
  /\ pstate'[p] # "free" =>
       \A i, j \in 1 .. Len(semq[s]) :
         semq[s][j] = p /\ i < j => Release(semq[s][i], s)

\* wait, signal, sreset, sdelete and kill: a waiting process is released by a signal,
\* by the reset or the end of its semaphore, or by its death, and otherwise in its turn.
THEOREM ReleaseCorrect == Spec => ReleaseOnlyBySignal
<1>1. ASSUME IInv, [Next]_vars, NEW s \in Sems, NEW p \in Pids, Release(p, s)
      PROVE  Justified(s, p)
  <2>1. CASE TableKept
    BY <1>1, <2>1 DEF TableKept, Release
  <2>2. ASSUME NEW t \in Sems, NEW m \in 0 .. Len(semq[t]), Frees(t, m),
               semq[t] # <<>> => semcnt'[t] > semcnt[t] \/ sstate'[t] = "free"
        PROVE  Justified(s, p)
    <3>1. t = s
      BY <1>1, <2>2, ElsewhereNobody
    <3>2. semq[s] # <<>>
      BY <1>1, EmptyList DEF Release, ToSet
    <3>3. QED  BY <1>1, <2>2, <3>1, <3>2, InTurn DEF Justified
  <2>3. ASSUME NEW t \in Sems, NEW count \in 0 .. MaxCount,
               Sdelete(t) \/ Wait(t) \/ Signal(t) \/ Screate(count) \/ Sreset(t, count) \/ Signaln(t, count)
        PROVE  Justified(s, p)
    <3>0. Len(semq[t]) \in 0 .. Len(semq[t])
      BY <1>1, QueueFacts
    <3>1. CASE Sdelete(t)
      BY <1>1, <2>2, <3>0, <3>1, SdeleteMaps
    <3>2. CASE Sreset(t, count)
      BY <1>1, <2>2, <3>0, <3>2, SresetMaps
    <3>3. CASE Signal(t)
      BY <1>1, <2>2, <3>3, SignalMaps
    <3>4. CASE Signaln(t, count)
      BY <1>1, <2>2, <3>4, SignalnMaps
    <3>5. CASE Screate(count)
      <4>1. semq' = semq
        BY <1>1, <3>5, ScreateMaps
      <4>2. QED  BY <1>1, <4>1, NobodyReleased
    <3>6. CASE Wait(t)
      <4>1. /\ currpid \in Pids
            /\ semq' = semq \/ semq' = [semq EXCEPT ![t] = Append(semq[t], currpid)]
        BY <1>1, <3>6, WaitMaps
      <4>2. currpid \notin ToSet(semq[t]) /\ semq[t] \in Seq(Pids) /\ IsInjective(semq[t])
        BY <1>1, QueueFacts, TypedNow
      <4>3. ToSet(Append(semq[t], currpid)) = ToSet(semq[t]) \cup {currpid}
        BY <4>1, <4>2, AppendDistinct
      <4>4. semq'[s] = semq[s] \/ (s = t /\ semq'[s] = Append(semq[s], currpid))
        BY <1>1, <4>1, SemFacts
      <4>5. QED  BY <1>1, <4>3, <4>4, NobodyReleased
    <3>7. QED  BY <2>3, <3>1, <3>2, <3>3, <3>4, <3>5, <3>6
  <2>4. ASSUME NEW q \in UserPids, LeaveSemaphore(q), Dies(q) PROVE Justified(s, p)
    <3>1. CASE TableKept
      BY <2>1, <3>1
    <3>2. ASSUME NEW t \in Sems, semcnt'[t] > semcnt[t],
                 ToSet(semq[s]) \ {q} \subseteq ToSet(semq'[s]), s # t => semq'[s] = semq[s]
          PROVE  Justified(s, p)
      <4>1. p = q /\ s = t
        BY <1>1, <3>2 DEF Release
      <4>2. pstate'[p] = "free"
        BY <2>4, <4>1 DEF Dies
      <4>3. QED  BY <3>2, <4>1, <4>2 DEF Justified
    <3>3. QED  BY <1>1, <2>4, <3>1, <3>2, LeaveMaps DEF TableKept
  <2>5. QED  BY <1>1, <2>1, <2>3, <2>4, TableSteps
<1>2. IInv /\ [Next]_vars =>
        [\A s \in Sems, p \in Pids : Release(p, s) => Justified(s, p)]_vars
  BY <1>1
<1>3. QED  BY <1>2, InvariantHolds, PTL DEF Spec, ReleaseOnlyBySignal, Justified

------------------------------------------------------------------------------
(* Who moves in a step: for a message or a delay most calls are quiet, in   *)
(* that they neither begin nor end anybody's wait for it.                   *)

Receiving == {"recv", "trecv"}

Quiet(q) == /\ pstate'[q] \in Receiving => pstate[q] \in Receiving
            /\ pstate'[q] \notin {"recv", "free"} => pstate[q] \notin {"recv", "free"}
            /\ pstate[q] \in Sleeping => pstate'[q] \in Sleeping \cup {"free"}

\* Everybody but X is quiet, and the delay list still says when whom to wake.
QuietBut(X) == DuesKept(Now, NextNow) /\ \A q \in Pids \ X : Quiet(q)

LEMMA QuietOthers ==
  ASSUME NEW e, Settled(e), Commit(e), NEW S, Moves(Now, e, S)
  PROVE  QuietBut(S) /\ pstate' = e.pstate
<1>1. NextNow = e /\ pstate' = e.pstate
  BY CommitNow
<1>2. ASSUME NEW q \in Pids \ S PROVE Quiet(q)
  <2>1. IF pstate[q] \in {"curr", "ready"}
        THEN pstate'[q] \in {"curr", "ready"} ELSE pstate'[q] = pstate[q]
    BY <1>1, NowFields DEF Moves, Others
  <2>2. QED  BY <2>1 DEF Quiet, Sleeping, Receiving
<1>3. QED  BY <1>1, <1>2 DEF QuietBut, Moves

LEMMA QuietKeep ==
  ASSUME UNCHANGED dispVars
  PROVE  QuietBut({})
<1>1. NextNow = Now /\ pstate' = pstate
  BY KeepNow, NowFields
<1>2. DuesKept(Now, Now)
  BY DEF DuesKept
<1>3. QED  BY <1>1, <1>2 DEF QuietBut, Quiet

\* A quiet exception is none.
LEMMA QuietToo ==
  ASSUME NEW S, QuietBut(S), \A q \in S : q \in Pids => Quiet(q)
  PROVE  QuietBut({})
BY DEF QuietBut

LEMMA ResumeQuiet ==
  ASSUME IInv, NEW p \in UserPids, Resume(p)
  PROVE  QuietBut({})
<1> DEFINE e == Resched(Ready(Now, p))
<1>1. pstate[p] = "susp" /\ Commit(e)
  BY DEF Resume
<1>2. Loose(Now, p) /\ {} \subseteq {p} /\ p \in Pids /\ Good(Now, {}) /\ SltopGood(Now)
  BY <1>1, TypedNow, NowFields, UserFacts DEF Good, Matches, Loose, Sleeping
<1>3. Settled(e) /\ Moves(Now, e, {p}) /\ e.pstate[p] \in {"curr", "ready"}
  BY <1>2, ReadySettled
<1> HIDE DEF e
<1>4. QuietBut({p}) /\ pstate' = e.pstate
  BY <1>1, <1>3, QuietOthers
<1>5. QED  BY <1>1, <1>3, <1>4, QuietToo DEF Quiet, Sleeping, Receiving

LEMMA SuspendQuiet ==
  ASSUME IInv, NEW p \in UserPids, Suspend(p)
  PROVE  QuietBut({})
<1>1. /\ Settled(Now) /\ p \in Pids \ {NULLPROC}
      /\ "susp" \in States \ {"curr", "ready", "sleep", "trecv"}
  BY TypedNow, UserFacts DEF States
<1>2. PICK e : /\ Settled(e) /\ Moves(Now, e, {p}) /\ e.pstate[p] = "susp" /\ Commit(e)
               /\ pstate[p] \in {"curr", "ready"}
  <2>1. CASE /\ pstate[p] = "ready"
             /\ Commit([Now EXCEPT !.pstate[p] = "susp", !.rdy = Delete(@, p)])
    <3> DEFINE f == OffReady(Now, p, "susp")
    <3>1. Commit(f)
      BY <2>1 DEF OffReady
    <3>2. Settled(f) /\ Moves(Now, f, {p}) /\ f.pstate[p] = "susp"
      BY <1>1, <2>1, NowFields, OffReadySettled
    <3> HIDE DEF f
    <3>3. QED  BY <2>1, <3>1, <3>2
  <2>2. CASE /\ pstate[p] = "curr"
             /\ Commit(Resched([Now EXCEPT !.pstate[p] = "susp"]))
    <3> DEFINE f == Resched([Now EXCEPT !.pstate[p] = "susp"])
    <3>1. Settled(f) /\ Moves(Now, f, {p}) /\ f.pstate[p] = "susp"
      BY <1>1, <2>2, NowFields, LeaveSettled
    <3>2. Commit(f)
      BY <2>2
    <3> HIDE DEF f
    <3>3. QED  BY <2>2, <3>1, <3>2
  <2>3. QED  BY <2>1, <2>2 DEF Suspend
<1>3. QuietBut({p}) /\ pstate' = e.pstate
  BY <1>2, QuietOthers
<1>4. QED  BY <1>2, <1>3, QuietToo DEF Quiet, Sleeping, Receiving

LEMMA ChprioQuiet ==
  ASSUME IInv, NEW p \in UserPids, NEW newprio \in Prios, Chprio(p, newprio)
  PROVE  QuietBut({})
<1> DEFINE c == [Now EXCEPT !.pprio[p] = newprio]
           f == Resched(InsertReady([c EXCEPT !.rdy = Delete(@, p)], p))
           e == CASE pstate[p] = "ready" -> f
                  [] pstate[p] = "curr" -> Resched(c)
                  [] OTHER -> c
<1>1. /\ newprio \in 0 .. MAXINT /\ Commit(e)
      /\ Settled(Now) /\ p \in Pids \ {NULLPROC} /\ p \in Pids
  BY KeysAssumption, TypedNow, UserFacts DEF Chprio
<1>2. Settled(e) /\ Moves(Now, e, {})
  <2>1. CASE pstate[p] = "ready"
    <3>1. Settled(f) /\ Moves(Now, f, {})
      BY <1>1, <2>1, RequeueSettled, NowFields
    <3> HIDE DEF f, c
    <3>2. QED  BY <2>1, <3>1
  <2>2. CASE pstate[p] # "ready"
    <3>1. /\ Good(c, {}) /\ SltopGood(c) /\ Moves(Now, c, {})
          /\ pstate[p] # "curr" => Settled(c)
      BY <1>1, <2>2, SetPrioSettled, NowFields
    <3> HIDE DEF c, f
    <3>2. Settled(Resched(c)) /\ Moves(c, Resched(c), {})
      BY <3>1, ReschedSettled
    <3>3. Moves(Now, Resched(c), {} \cup {}) /\ {} \cup {} = {}
      BY <3>1, <3>2, MovesTransitive
    <3>4. Moves(Now, Resched(c), {})
      BY <3>3
    <3>5. QED  BY <2>2, <3>1, <3>2, <3>4
  <2>3. QED  BY <2>1, <2>2
<1> HIDE DEF e
<1>3. QED  BY <1>1, <1>2, QuietOthers

\* The victim of a kill; nobody else ends or begins a wait.
LEMMA BuryQuiet ==
  ASSUME NEW p \in UserPids, NEW d, Settled(d), NEW S, Moves(Now, d, S), Commit(Bury(d, p))
  PROVE  /\ QuietBut(S) /\ pstate'[p] = "free"
         /\ \A q \in Pids \ {p} : IF d.pstate[q] \in {"curr", "ready"}
                                  THEN pstate'[q] \in {"curr", "ready"} ELSE pstate'[q] = d.pstate[q]
<1> DEFINE e == Bury(d, p)
<1>1. Settled(e) /\ Moves(d, e, {p}) /\ e.pstate[p] = "free"
  BY UserFacts, BurySettled
<1>2. Commit(e)
  OBVIOUS
<1> HIDE DEF e
<1>3. Moves(Now, e, S \cup {p})
  BY <1>1, MovesTransitive
<1>4. QuietBut(S \cup {p}) /\ pstate' = e.pstate
  BY <1>1, <1>2, <1>3, QuietOthers
<1>5. Quiet(p)
  BY <1>1, <1>4 DEF Quiet, Receiving
<1>6. QuietBut(S)
  BY <1>4, <1>5 DEF QuietBut
<1>7. QED  BY <1>1, <1>4, <1>6 DEF Moves, Others

------------------------------------------------------------------------------
LEMMA ReleaseQuiet ==
  ASSUME IInv, NEW s \in Sems, NEW l \in Seq(Pids), IsInjective(l),
         ToSet(l) \subseteq ToSet(semq[s]), Commit(Resched(ReadyAll(Now, l)))
  PROVE  QuietBut({})
<1> DEFINE e == Resched(ReadyAll(Now, l))
           S == ToSet(l)
<1>1. Settled(e) /\ Moves(Now, e, S) /\ \A p \in S : e.pstate[p] \in {"curr", "ready"}
  BY ReleasedSettled
<1>2. Commit(e)
  OBVIOUS
<1> HIDE DEF e
<1>3. \A p \in S : p \in Pids => pstate[p] = "wait"
  BY DEF IInv, Queues
<1> HIDE DEF S
<1>4. QuietBut(S) /\ pstate' = e.pstate
  BY <1>1, <1>2, QuietOthers
<1>5. \A p \in S : p \in Pids => Quiet(p)
  BY <1>1, <1>3, <1>4 DEF Quiet, Sleeping, Receiving
<1>6. QED  BY <1>4, <1>5, QuietToo

LEMMA SignalQuiet ==
  ASSUME IInv, NEW s \in Sems, Signal(s)
  PROVE  QuietBut({})
<1>1. CASE semcnt[s] < 0
  <2> DEFINE p == Head(semq[s])
             e == Resched(Ready(Now, p))
  <2>1. Commit(e) /\ sstate[s] = "used"
    BY <1>1 DEF Signal
  <2>2. semq[s] \in Seq(Pids) /\ semq[s] # <<>> /\ IsInjective(semq[s])
    BY <1>1, <2>1, QueueFacts
  <2>3. p \in Pids /\ p \in ToSet(semq[s])
    BY <2>2, HeadTailDistinct
  <2> HIDE DEF p
  <2>4. pstate[p] = "wait"
    BY <2>3 DEF IInv, Queues
  <2>5. Loose(Now, p) /\ {} \subseteq {p} /\ Good(Now, {}) /\ SltopGood(Now)
    BY <2>3, <2>4, TypedNow, NowFields DEF Good, Matches, Loose, Sleeping
  <2>6. Settled(e) /\ Moves(Now, e, {p}) /\ e.pstate[p] \in {"curr", "ready"}
    BY <2>3, <2>5, ReadySettled
  <2> HIDE DEF e
  <2>7. QuietBut({p}) /\ pstate' = e.pstate
    BY <2>1, <2>6, QuietOthers
  <2>8. QED  BY <2>4, <2>6, <2>7, QuietToo DEF Quiet, Sleeping, Receiving
<1>2. CASE ~(semcnt[s] < 0)
  BY <1>2, QuietKeep DEF Signal
<1>3. QED  BY <1>1, <1>2

\* The current process gives the processor up for a state that is on no delay list.
LEMMA LeaveQuiet ==
  ASSUME IInv, currpid # NULLPROC, NEW st \in States \ {"curr", "ready", "sleep", "trecv"},
         Commit(Resched([Now EXCEPT !.pstate[currpid] = st]))
  PROVE  QuietBut({currpid}) /\ pstate'[currpid] = st
<1> DEFINE p == currpid
           e == Resched([Now EXCEPT !.pstate[p] = st])
<1>1. p \in Pids \ {NULLPROC} /\ Now.pstate[p] = "curr" /\ Settled(Now)
  BY TypedNow, NowFields
<1>2. Commit(e)
  OBVIOUS
<1> HIDE DEF p
<1>3. Settled(e) /\ Moves(Now, e, {p}) /\ e.pstate[p] = st
  BY <1>1, LeaveSettled
<1> HIDE DEF e
<1>4. QED  BY <1>2, <1>3, QuietOthers DEF p

LEMMA SemaphoreQuiet ==
  ASSUME IInv, SemaphoreNext
  PROVE  QuietBut({})
<1>1. ASSUME NEW s \in Sems, Sdelete(s) PROVE QuietBut({})
  <2>1. semq[s] \in Seq(Pids) /\ IsInjective(semq[s])
    BY QueueFacts
  <2>2. CASE semq[s] = <<>>
    <3>1. Commit(Now)
      BY <1>1, <2>2 DEF Sdelete
    <3>2. UNCHANGED dispVars
      BY <3>1 DEF Commit, Now, dispVars
    <3>3. QED  BY <3>2, QuietKeep
  <2>3. CASE semq[s] # <<>>
    BY <1>1, <2>1, <2>3, ReleaseQuiet DEF Sdelete
  <2>4. QED  BY <2>2, <2>3
<1>2. ASSUME NEW s \in Sems, NEW count \in 0 .. MaxCount, Sreset(s, count) PROVE QuietBut({})
  BY <1>2, QueueFacts, ReleaseQuiet DEF Sreset
<1>3. ASSUME NEW s \in Sems, NEW count \in 0 .. MaxCount, Signaln(s, count) PROVE QuietBut({})
  <2> DEFINE m == IF semcnt[s] >= 0 THEN 0 ELSE IF count < -semcnt[s] THEN count ELSE -semcnt[s]
             freed == SubSeq(semq[s], 1, m)
  <2>1. sstate[s] = "used" /\ Commit(Resched(ReadyAll(Now, freed)))
    BY <1>3 DEF Signaln
  <2>2. /\ semq[s] \in Seq(Pids) /\ IsInjective(semq[s]) /\ semcnt[s] \in Int
        /\ Len(semq[s]) = IF semcnt[s] < 0 THEN -semcnt[s] ELSE 0
    BY <2>1, QueueFacts
  <2>3. m \in 0 .. Len(semq[s])
    BY <2>2
  <2> HIDE DEF m
  <2>4. /\ freed \in Seq(Pids) /\ IsInjective(freed) /\ ToSet(freed) \subseteq ToSet(semq[s])
    BY <2>2, <2>3, SplitDistinct
  <2> HIDE DEF freed
  <2>5. QED  BY <2>1, <2>4, ReleaseQuiet
<1>4. ASSUME NEW s \in Sems, Wait(s) PROVE QuietBut({})
  <2>1. CASE semcnt[s] - 1 < 0
    <3>1. /\ currpid # NULLPROC /\ Commit(Resched([Now EXCEPT !.pstate[currpid] = "wait"]))
          /\ "wait" \in States \ {"curr", "ready", "sleep", "trecv"}
      BY <1>4, <2>1 DEF Wait, Call, States
    <3>2. QuietBut({currpid}) /\ pstate'[currpid] = "wait" /\ pstate[currpid] = "curr"
      BY <3>1, LeaveQuiet, TypedNow
    <3>3. QED  BY <3>2, QuietToo DEF Quiet, Sleeping, Receiving
  <2>2. CASE ~(semcnt[s] - 1 < 0)
    BY <1>4, <2>2, QuietKeep DEF Wait
  <2>3. QED  BY <2>1, <2>2
<1>5. ASSUME NEW count \in 0 .. MaxCount, Screate(count) PROVE QuietBut({})
  BY <1>5, QuietKeep DEF Screate
<1>6. QED  BY <1>1, <1>2, <1>3, <1>4, <1>5, SignalQuiet DEF SemaphoreNext

------------------------------------------------------------------------------
(* Messages.  receive relies on a message being there when it goes on: one  *)
(* that has left its wait alive has one.  It waits only with phasmsg zero,  *)
(* which without sendf, whose count wraps around, says that there is none.  *)

MsgOk(q) == /\ cont[q].op = "receive" /\ pstate[q] \notin {"recv", "free"} => pend[q]
            /\ pstate[q] \in Receiving /\ pend[q] => "sendf" \in calls
            /\ "sendf" \in calls \/ (pend[q] => phasmsg[q] # 0)
MsgInv == \A q \in Pids : MsgOk(q)

\* What a process is due stays so, and nobody's delay ends.
Undue == DuesKept(Now, NextNow) /\ \A q \in Pids : ~TimesOut(q)

SameMsg(q) == pend'[q] = pend[q] /\ phasmsg'[q] = phasmsg[q]

\* The messages of a process that neither begins nor ends a wait for one.
LEMMA MsgSame ==
  ASSUME NEW q \in Pids, MsgOk(q), calls' = calls, SameMsg(q),
         pstate'[q] \in Receiving => pstate[q] \in Receiving,
         pstate'[q] \notin {"recv", "free"} => pstate[q] \notin {"recv", "free"},
         cont'[q].op = "receive" => cont[q].op = "receive"
  PROVE  MsgOk(q)'
BY DEF MsgOk, SameMsg

\* All of them after a step that is quiet except for X.
LEMMA MsgQuiet ==
  ASSUME MsgInv, NEW X, QuietBut(X), calls' = calls,
         \A q \in Pids \ X : SameMsg(q) /\ (cont'[q].op = "receive" => cont[q].op = "receive"),
         \A q \in X : q \in Pids => MsgOk(q)' /\ ~TimesOut(q)
  PROVE  MsgInv' /\ Undue
<1>1. ASSUME NEW q \in Pids PROVE MsgOk(q)' /\ ~TimesOut(q)
  <2>1. CASE q \in X
    BY <2>1
  <2>2. CASE q \notin X
    <3>1. Quiet(q) /\ MsgOk(q) /\ SameMsg(q) /\ (cont'[q].op = "receive" => cont[q].op = "receive")
      BY <2>2 DEF QuietBut, MsgInv
    <3>2. MsgOk(q)'
      BY <3>1, MsgSame DEF Quiet
    <3>3. ~TimesOut(q)
      BY <3>1 DEF Quiet, TimesOut, Sleeping
    <3>4. QED  BY <3>2, <3>3
  <2>3. QED  BY <2>1, <2>2
<1>2. QED  BY <1>1 DEF MsgInv, Undue, QuietBut

\* No message comes or goes and nobody moves: most calls.
LEMMA MsgPlain ==
  ASSUME IInv, MsgInv, QuietBut({}), UNCHANGED msgVars, UNCHANGED calls,
         cont' = cont \/ cont' = [cont EXCEPT ![currpid] = UserCode]
  PROVE  MsgInv' /\ Undue
<1>1. \A q \in Pids : SameMsg(q)
  BY DEF msgVars, SameMsg
<1>2. \A q \in Pids : cont'[q].op = "receive" => cont[q].op = "receive"
  BY DEF IInv, ContTyped, UserCode
<1>3. QED  BY <1>1, <1>2, MsgQuiet

\* The current process takes its message.
LEMMA MsgTaken ==
  ASSUME IInv, MsgInv, Take(currpid), UNCHANGED dispVars, UNCHANGED calls,
         \/ cont' = cont /\ InUser
         \/ cont' = [cont EXCEPT ![currpid] = UserCode]
  PROVE  MsgInv' /\ Undue
<1>1. PICK p \in Pids : p = currpid
  BY TypedNow
<1>2. pend' = [pend EXCEPT ![p] = FALSE] /\ phasmsg' = [phasmsg EXCEPT ![p] = 0]
  BY <1>1 DEF Take
<1>3. \A q \in Pids \ {p} : SameMsg(q) /\ (cont'[q].op = "receive" => cont[q].op = "receive")
  BY <1>1, <1>2 DEF IInv, MsgTyped, ContTyped, SameMsg
<1>4. MsgOk(p)'
  <2>1. pend'[p] = FALSE
    BY <1>2 DEF IInv, MsgTyped
  <2>2. cont'[p].op # "receive"
    BY <1>1 DEF IInv, ContTyped, UserCode, InUser
  <2>3. QED  BY <2>1, <2>2 DEF MsgOk
<1>5. QuietBut({p}) /\ ~TimesOut(p)
  <2>1. QuietBut({}) /\ pstate'[p] = pstate[p]
    BY QuietKeep, KeepNow, NowFields
  <2>2. QED  BY <2>1 DEF QuietBut, TimesOut
<1>6. QED  BY <1>3, <1>4, <1>5, MsgQuiet

\* p is sent a message that it finds when it looks.
LEMMA MsgSent ==
  ASSUME IInv, MsgInv, NEW p \in Pids, QuietBut({p}), UNCHANGED calls,
         pend' = [pend EXCEPT ![p] = TRUE],
         \A q \in Pids \ {p} : phasmsg'[q] = phasmsg[q],
         "sendf" \in calls \/ (phasmsg'[p] # 0 /\ pstate'[p] \notin Receiving),
         \A q \in Pids \ {p} : cont'[q].op = "receive" => cont[q].op = "receive"
  PROVE  MsgInv' /\ Undue
<1>1. pend'[p] = TRUE /\ \A q \in Pids \ {p} : SameMsg(q)
  BY DEF IInv, MsgTyped, SameMsg
<1>2. MsgOk(p)' /\ ~TimesOut(p)
  BY <1>1 DEF MsgOk, TimesOut
<1>3. QED  BY <1>1, <1>2, MsgQuiet

LEMMA SendMsg ==
  ASSUME IInv, MsgInv, NEW p \in UserPids, Send(p), UNCHANGED calls
  PROVE  MsgInv' /\ Undue
<1> DEFINE e == Deliver(Now, p)
<1>1. /\ phasmsg' = [phasmsg EXCEPT ![p] = 1] /\ pend' = [pend EXCEPT ![p] = TRUE]
      /\ Commit(e) /\ UNCHANGED cont
  BY DEF Send
<1>2. Settled(e) /\ Moves(Now, e, {p}) /\ e.pstate[p] \notin {"recv", "trecv"}
  BY TypedNow, UserFacts, DeliverSettled
<1> HIDE DEF e
<1>3. QuietBut({p}) /\ pstate' = e.pstate
  BY <1>1, <1>2, QuietOthers
<1>4. phasmsg'[p] # 0 /\ \A q \in Pids \ {p} : phasmsg'[q] = phasmsg[q]
  BY <1>1, UserFacts DEF IInv, MsgTyped
<1>5. QED  BY <1>1, <1>2, <1>3, <1>4, UserFacts, MsgSent DEF Receiving

LEMMA SendfMsg ==
  ASSUME IInv, MsgInv, NEW p \in UserPids, Sendf(p), UNCHANGED calls
  PROVE  MsgInv' /\ Undue
<1> DEFINE e == Resched(Ready(Now, p))
<1>1. /\ phasmsg' = [phasmsg EXCEPT ![p] = (phasmsg[p] + 1) % HasMsgMod]
      /\ pend' = [pend EXCEPT ![p] = TRUE]
      /\ Commit(IF pstate[p] = "recv" THEN e ELSE Now) /\ UNCHANGED cont /\ "sendf" \in calls
  BY DEF Sendf, Call
<1>2. p \in Pids /\ Settled(Now) /\ Good(Now, {}) /\ SltopGood(Now)
  BY TypedNow, UserFacts
<1>3. QuietBut({p})
  <2>1. CASE pstate[p] = "recv"
    <3>1. Loose(Now, p) /\ {} \subseteq {p}
      BY <1>2, <2>1, NowFields DEF Good, Matches, Loose, Sleeping
    <3>2. Settled(e) /\ Moves(Now, e, {p})
      BY <1>2, <3>1, ReadySettled
    <3> HIDE DEF e
    <3>3. QED  BY <1>1, <2>1, <3>2, QuietOthers
  <2>2. CASE pstate[p] # "recv"
    <3>1. Commit(Now)
      BY <1>1, <2>2
    <3>2. UNCHANGED dispVars
      BY <3>1 DEF Commit, Now, dispVars
    <3>3. QED  BY <3>2, QuietKeep DEF QuietBut
  <2>3. QED  BY <2>1, <2>2
<1>4. \A q \in Pids \ {p} : phasmsg'[q] = phasmsg[q]
  BY <1>1 DEF IInv, MsgTyped
<1>5. QED  BY <1>1, <1>2, <1>3, <1>4, MsgSent

\* A process that goes to wait for a message has none, as far as phasmsg can tell.
LEMMA MsgAwaited ==
  ASSUME NEW p \in Pids, MsgOk(p), phasmsg[p] = 0, SameMsg(p), UNCHANGED calls,
         pstate'[p] = "recv" \/ cont'[p].op # "receive"
  PROVE  MsgOk(p)'
BY DEF MsgOk, SameMsg

LEMMA ReceiveMsg ==
  ASSUME IInv, MsgInv, Receive, UNCHANGED calls
  PROVE  MsgInv' /\ Undue
<1>1. CASE phasmsg[currpid] # 0
  BY <1>1, MsgTaken DEF Receive, Call
<1>2. CASE phasmsg[currpid] = 0
  <2>1. /\ Commit(Resched([Now EXCEPT !.pstate[currpid] = "recv"])) /\ currpid # NULLPROC
        /\ cont' = [cont EXCEPT ![currpid].op = "receive"] /\ UNCHANGED msgVars
        /\ "recv" \in States \ {"curr", "ready", "sleep", "trecv"}
    BY <1>2 DEF Receive, Call, States
  <2>2. QuietBut({currpid}) /\ pstate'[currpid] = "recv"
    BY <2>1, LeaveQuiet
  <2>3. PICK p \in Pids : p = currpid
    BY TypedNow
  <2>4. \A q \in Pids : SameMsg(q)
    BY <2>1 DEF msgVars, SameMsg
  <2>5. \A q \in Pids \ {p} : cont'[q].op = "receive" => cont[q].op = "receive"
    BY <2>1, <2>3 DEF IInv, ContTyped
  <2>6. pstate'[p] = "recv" /\ QuietBut({p})
    BY <2>2, <2>3
  <2>7. MsgOk(p)' /\ ~TimesOut(p)
    <3>1. MsgOk(p) /\ phasmsg[p] = 0
      BY <1>2, <2>3 DEF MsgInv
    <3>2. QED  BY <2>4, <2>6, <3>1, MsgAwaited DEF TimesOut
  <2>8. QED  BY <2>4, <2>5, <2>6, <2>7, MsgQuiet
<1>3. QED  BY <1>1, <1>2

LEMMA FinishReceiveMsg ==
  ASSUME IInv, MsgInv, FinishReceive \/ FinishRecvtim \/ Recvclr, UNCHANGED calls
  PROVE  MsgInv' /\ Undue
<1>1. UNCHANGED dispVars /\ QuietBut({})
  BY QuietKeep DEF FinishReceive, FinishRecvtim, Recvclr
<1>2. CASE FinishReceive
  BY <1>1, <1>2, MsgTaken DEF FinishReceive
<1>3. CASE FinishRecvtim
  BY <1>1, <1>3, MsgTaken, MsgPlain DEF FinishRecvtim
<1>4. CASE Recvclr
  BY <1>1, <1>4, MsgTaken DEF Recvclr, Call
<1>5. QED  BY <1>2, <1>3, <1>4

\* A process asks to be woken after n ticks, in recvtim or sleep10.
SleepsFor(n) == \E st \in Sleeping : /\ pstate'[currpid] = st
                                     /\ Joins(Now, NextNow, currpid, n)
                                     /\ owed' = [owed EXCEPT ![currpid] = n]

LEMMA SleepQuiet ==
  ASSUME IInv, currpid # NULLPROC, NEW n \in Nat, NEW st \in Sleeping,
         Commit(Resched([InsertSleep(Now, currpid, n) EXCEPT !.pstate[currpid] = st]))
  PROVE  /\ \A q \in Pids \ {currpid} : Quiet(q)
         /\ pstate'[currpid] = st /\ Joins(Now, NextNow, currpid, n)
<1> DEFINE e == Resched([InsertSleep(Now, Now.currpid, n) EXCEPT !.pstate[Now.currpid] = st])
<1>1. Commit(e) /\ Settled(Now) /\ Now.currpid # NULLPROC
  BY TypedNow, NowFields
<1>2. /\ Settled(e) /\ Others(Now, e, {Now.currpid})
      /\ e.pstate[Now.currpid] = st /\ Joins(Now, e, Now.currpid, n)
  BY <1>1, SleepSettled
<1> HIDE DEF e
<1>3. NextNow = e /\ pstate' = e.pstate
  BY <1>1, <1>2, CommitNow
<1>4. ASSUME NEW q \in Pids \ {currpid} PROVE Quiet(q)
  <2>1. IF pstate[q] \in {"curr", "ready"}
        THEN pstate'[q] \in {"curr", "ready"} ELSE pstate'[q] = pstate[q]
    BY <1>2, <1>3, NowFields DEF Others
  <2>2. QED  BY <2>1 DEF Quiet, Sleeping, Receiving
<1>5. QED  BY <1>2, <1>3, <1>4, NowFields

LEMMA SleepMsg ==
  ASSUME IInv, MsgInv, UNCHANGED calls, UNCHANGED msgVars,
         \A q \in Pids \ {currpid} : Quiet(q), pstate'[currpid] \in Sleeping,
         cont' = [cont EXCEPT ![currpid].op = "recvtim"] \/ cont' = cont,
         pstate'[currpid] = "trecv" => phasmsg[currpid] = 0,
         cont'[currpid].op # "receive"
  PROVE  MsgInv' /\ \A q \in Pids : ~TimesOut(q)
<1>1. PICK p \in Pids : p = currpid
  BY TypedNow
<1>2. \A q \in Pids : SameMsg(q)
  BY DEF msgVars, SameMsg
<1>3. \A q \in Pids \ {p} : cont'[q].op = "receive" => cont[q].op = "receive"
  BY <1>1 DEF IInv, ContTyped
<1>4. ASSUME NEW q \in Pids \ {p} PROVE MsgOk(q)' /\ ~TimesOut(q)
  <2>1. Quiet(q) /\ MsgOk(q) /\ SameMsg(q)
    BY <1>1, <1>2 DEF MsgInv
  <2>2. QED  BY <1>3, <2>1, MsgSame DEF Quiet, TimesOut, Sleeping
<1>5. MsgOk(p)' /\ ~TimesOut(p)
  <2>1. MsgOk(p) /\ SameMsg(p) /\ cont'[p].op # "receive" /\ pstate'[p] \in Sleeping
    BY <1>1, <1>2 DEF MsgInv
  <2>2. pstate'[p] = "trecv" => phasmsg[p] = 0
    BY <1>1
  <2>3. QED  BY <2>1, <2>2 DEF MsgOk, SameMsg, TimesOut, Sleeping, Receiving
<1>6. QED  BY <1>4, <1>5 DEF MsgInv

LEMMA RecvtimMsg ==
  ASSUME IInv, MsgInv, NEW n \in Delays, Recvtim(n), UNCHANGED calls
  PROVE  MsgInv' /\ (\A q \in Pids : ~TimesOut(q)) /\ ((Undue /\ owed' = owed) \/ SleepsFor(n))
<1>1. CASE phasmsg[currpid] # 0
  BY <1>1, MsgTaken DEF Recvtim, Call, Undue
<1>2. CASE phasmsg[currpid] = 0
  <2>1. /\ Commit(Resched([InsertSleep(Now, currpid, n) EXCEPT !.pstate[currpid] = "trecv"]))
        /\ currpid # NULLPROC /\ "trecv" \in Sleeping /\ n \in Nat
        /\ cont' = [cont EXCEPT ![currpid].op = "recvtim"] /\ UNCHANGED msgVars
        /\ owed' = [owed EXCEPT ![currpid] = n]
    BY <1>2, KeysAssumption DEF Recvtim, Call, Sleeping
  <2>2. /\ \A q \in Pids \ {currpid} : Quiet(q)
        /\ pstate'[currpid] = "trecv" /\ Joins(Now, NextNow, currpid, n)
    BY <2>1, SleepQuiet
  <2>3. cont'[currpid].op # "receive"
    BY <2>1, TypedNow DEF IInv, ContTyped
  <2>4. MsgInv' /\ \A q \in Pids : ~TimesOut(q)
    BY <1>2, <2>1, <2>2, <2>3, SleepMsg
  <2>5. QED  BY <2>1, <2>2, <2>4 DEF SleepsFor
<1>3. QED  BY <1>1, <1>2

LEMMA Sleep10Msg ==
  ASSUME IInv, MsgInv, NEW n \in Delays, Sleep10(n), UNCHANGED calls
  PROVE  /\ MsgInv' /\ (\A q \in Pids : ~TimesOut(q))
         /\ (Undue /\ owed' = [owed EXCEPT ![currpid] = 0]) \/ SleepsFor(n)
<1>1. /\ owed' = [owed EXCEPT ![currpid] = n] /\ cont' = cont /\ InUser
      /\ UNCHANGED msgVars /\ currpid # NULLPROC
  BY DEF Sleep10, Call, ClkUnchanged
<1>2. CASE n = 0
  <2> DEFINE e == Resched(Now)
  <2>1. Commit(e)
    BY <1>2 DEF Sleep10
  <2>2. Settled(e) /\ Moves(Now, e, {})
    BY TypedNow, ReschedSettled
  <2> HIDE DEF e
  <2>3. QuietBut({})
    BY <2>1, <2>2, QuietOthers
  <2>4. QED  BY <1>1, <1>2, <2>3, MsgPlain DEF Undue
<1>3. CASE n # 0
  <2>1. /\ Commit(Resched([InsertSleep(Now, currpid, n) EXCEPT !.pstate[currpid] = "sleep"]))
        /\ "sleep" \in Sleeping /\ n \in Nat
    BY <1>3, KeysAssumption DEF Sleep10, Sleeping
  <2>2. /\ \A q \in Pids \ {currpid} : Quiet(q)
        /\ pstate'[currpid] = "sleep" /\ Joins(Now, NextNow, currpid, n)
    BY <1>1, <2>1, SleepQuiet
  <2>3. cont'[currpid].op # "receive"
    BY <1>1 DEF InUser, UserCode
  <2>4. MsgInv' /\ \A q \in Pids : ~TimesOut(q)
    BY <1>1, <2>1, <2>2, <2>3, SleepMsg
  <2>5. QED  BY <1>1, <2>1, <2>2, <2>4 DEF SleepsFor
<1>4. QED  BY <1>2, <1>3

LEMMA KillMsg ==
  ASSUME IInv, MsgInv, NEW p \in UserPids, Kill(p), UNCHANGED calls
  PROVE  MsgInv' /\ Undue
<1> DEFINE nok == pnxtkin[p]
           notify == nok \in UserPids /\ pstate[nok] # "free" /\ phasmsg[nok] = 0
           d == IF notify THEN Deliver(Now, nok) ELSE Now
<1>1. /\ phasmsg' = IF notify THEN [phasmsg EXCEPT ![nok] = 1] ELSE phasmsg
      /\ pend' = IF notify THEN [pend EXCEPT ![nok] = TRUE] ELSE pend
      /\ IF d.currpid = currpid
         THEN Commit(Bury(d, p)) /\ LeaveSemaphore(p) /\ UNCHANGED cont
         ELSE /\ Commit(d) /\ UNCHANGED semVars
              /\ cont' = [cont EXCEPT ![currpid] = [op |-> "kill", arg |-> p]]
  BY DEF Kill
<1>2. \A q \in Pids : cont'[q].op = "receive" => cont[q].op = "receive"
  <2> HIDE DEF d
  <2>1. cont' = cont \/ cont' = [cont EXCEPT ![currpid] = [op |-> "kill", arg |-> p]]
    BY <1>1
  <2>2. QED  BY <2>1 DEF IInv, ContTyped
<1>3. CASE notify
  <2>1. PICK k \in UserPids : k = nok
    BY <1>3
  <2>2. Settled(d) /\ Moves(Now, d, {k}) /\ d.pstate[k] \notin {"recv", "trecv"}
    <3>1. d = Deliver(Now, k)
      BY <1>3, <2>1
    <3> HIDE DEF d
    <3>2. QED  BY <3>1, TypedNow, UserFacts, DeliverSettled
  <2> HIDE DEF d
  <2>3. QuietBut({k}) /\ pstate'[k] \notin Receiving
    <3>1. CASE d.currpid = currpid
      <4>1. Commit(Bury(d, p))
        BY <1>1, <3>1
      <4>2. /\ QuietBut({k}) /\ pstate'[p] = "free"
            /\ \A q \in Pids \ {p} : IF d.pstate[q] \in {"curr", "ready"}
                                     THEN pstate'[q] \in {"curr", "ready"} ELSE pstate'[q] = d.pstate[q]
        BY <2>2, <4>1, BuryQuiet
      <4>3. QED  BY <2>2, <4>2, UserFacts DEF Receiving
    <3>2. CASE d.currpid # currpid
      <4>1. Commit(d)
        BY <1>1, <3>2
      <4>2. QED  BY <2>2, <4>1, QuietOthers DEF Receiving
    <3>3. QED  BY <3>1, <3>2
  <2>4. phasmsg' = [phasmsg EXCEPT ![k] = 1] /\ pend' = [pend EXCEPT ![k] = TRUE]
    BY <1>1, <1>3, <2>1
  <2>5. phasmsg'[k] # 0 /\ \A q \in Pids \ {k} : phasmsg'[q] = phasmsg[q]
    BY <2>4, UserFacts DEF IInv, MsgTyped
  <2>6. QED  BY <1>2, <2>3, <2>4, <2>5, UserFacts, MsgSent
<1>4. CASE ~notify
  <2>1. d = Now /\ UNCHANGED msgVars
    BY <1>1, <1>4 DEF msgVars
  <2>2. Commit(Bury(Now, p))
    BY <1>1, <2>1, NowFields
  <2>3. Settled(Now) /\ Moves(Now, Now, {})
    BY TypedNow DEF Moves, Others, DuesKept
  <2>4. QuietBut({})
    BY <2>2, <2>3, BuryQuiet
  <2>5. \A q \in Pids : SameMsg(q)
    BY <2>1 DEF msgVars, SameMsg
  <2>6. QED  BY <1>2, <2>4, <2>5, MsgQuiet
<1>5. QED  BY <1>3, <1>4

LEMMA FinishKillMsg ==
  ASSUME IInv, MsgInv, FinishKill, UNCHANGED calls
  PROVE  MsgInv' /\ Undue
<1>1. PICK p \in UserPids : p = cont[currpid].arg
  BY TypedNow DEF FinishKill, IInv, ContTyped, UserPids
<1>2. /\ Commit(Bury(Now, p)) /\ cont' = [cont EXCEPT ![currpid] = UserCode] /\ UNCHANGED msgVars
  BY <1>1 DEF FinishKill
<1>3. Settled(Now) /\ Moves(Now, Now, {})
  BY TypedNow DEF Moves, Others, DuesKept
<1>4. QuietBut({})
  BY <1>2, <1>3, BuryQuiet
<1>5. QED  BY <1>2, <1>4, MsgPlain

LEMMA CreateMsg ==
  ASSUME IInv, MsgInv, Create, UNCHANGED calls
  PROVE  MsgInv' /\ Undue
<1>1. PICK prio \in Prios :
       IF prio < 1 THEN UNCHANGED <<dispVars, psem, pnxtkin, numproc, msgVars, cont>>
       ELSE /\ Commit([Now EXCEPT !.pstate[Newpid] = "susp", !.pprio[Newpid] = prio])
            /\ numproc' = numproc + 1
            /\ psem' = [psem EXCEPT ![Newpid] = 0]
            /\ pnxtkin' = [pnxtkin EXCEPT ![Newpid] = BADPID]
            /\ phasmsg' = [phasmsg EXCEPT ![Newpid] = 0]
            /\ pend' = [pend EXCEPT ![Newpid] = FALSE]
            /\ cont' = [cont EXCEPT ![Newpid] = UserCode]
  BY DEF Create
<1>2. FreeSlots # {}
  BY DEF Create
<1>3. PICK p \in Pids \ {NULLPROC} : p = Newpid /\ pstate[p] = "free"
  BY <1>2, NewpidFree
<1>4. CASE prio < 1
  BY <1>1, <1>4, QuietKeep, MsgPlain
<1>5. CASE ~(prio < 1)
  <2>1. /\ Commit([Now EXCEPT !.pstate[p] = "susp", !.pprio[p] = prio])
        /\ phasmsg' = [phasmsg EXCEPT ![p] = 0] /\ pend' = [pend EXCEPT ![p] = FALSE]
        /\ cont' = [cont EXCEPT ![p] = UserCode]
    BY <1>1, <1>3, <1>5
  <2>2. pstate' = [pstate EXCEPT ![p] = "susp"] /\ slp' = slp /\ qkey' = qkey
    BY <2>1 DEF Commit, Now
  <2>3. QuietBut({p})
    <3>1. DuesKept(Now, NextNow)
      BY <2>2 DEF DuesKept, Now, NextNow
    <3>2. \A q \in Pids \ {p} : pstate'[q] = pstate[q]
      BY <2>2, TypedNow
    <3>3. QED  BY <3>1, <3>2 DEF QuietBut, Quiet
  <2>4. /\ \A q \in Pids \ {p} : SameMsg(q) /\ (cont'[q].op = "receive" => cont[q].op = "receive")
        /\ pend'[p] = FALSE /\ cont'[p].op = "user"
    BY <2>1 DEF IInv, MsgTyped, ContTyped, SameMsg, UserCode
  <2>5. MsgOk(p)' /\ ~TimesOut(p)
    BY <1>3, <2>4 DEF MsgOk, TimesOut
  <2>6. QED  BY <2>3, <2>4, <2>5, MsgQuiet
<1>6. QED  BY <1>4, <1>5

LEMMA ProcessMsg ==
  ASSUME IInv, MsgInv, ProcessNext, UNCHANGED calls
  PROVE  MsgInv' /\ Undue
<1>1. ASSUME NEW p \in UserPids, Resume(p) PROVE MsgInv' /\ Undue
  BY <1>1, ResumeQuiet, MsgPlain DEF Resume
<1>2. ASSUME NEW p \in UserPids, Suspend(p) PROVE MsgInv' /\ Undue
  BY <1>2, SuspendQuiet, MsgPlain DEF Suspend
<1>3. ASSUME NEW p \in UserPids, NEW x \in Prios, Chprio(p, x) PROVE MsgInv' /\ Undue
  BY <1>3, ChprioQuiet, MsgPlain DEF Chprio
<1>4. ASSUME NEW p \in UserPids, NEW nok, Setnok(nok, p) PROVE MsgInv' /\ Undue
  BY <1>4, QuietKeep, MsgPlain DEF Setnok
<1>5. QED  BY <1>1, <1>2, <1>3, <1>4, CreateMsg, KillMsg, FinishKillMsg DEF ProcessNext

------------------------------------------------------------------------------
(* The clock: a tick, or the ticks strtclk makes up for, wakes the processes *)
(* of S and leaves the others asleep.                                        *)

Wakens(S) == /\ \A q \in Pids \ S : Quiet(q)
             /\ \A q \in S : /\ q \in Pids /\ pstate[q] \in Sleeping
                             /\ pstate'[q] \in {"curr", "ready"}

LEMMA WakensMsg ==
  ASSUME MsgInv, NEW S, Wakens(S), UNCHANGED calls, UNCHANGED msgVars,
         \A q \in Pids : cont'[q].op = "receive" => cont[q].op = "receive"
  PROVE  MsgInv'
<1>1. ASSUME NEW q \in Pids PROVE MsgOk(q)'
  <2>1. SameMsg(q) /\ MsgOk(q)
    BY DEF MsgInv, SameMsg, msgVars
  <2>2. /\ pstate'[q] \in Receiving => pstate[q] \in Receiving
        /\ pstate'[q] \notin {"recv", "free"} => pstate[q] \notin {"recv", "free"}
    BY DEF Wakens, Quiet, Sleeping, Receiving
  <2>3. QED  BY <2>1, <2>2, MsgSame
<1>2. QED  BY <1>1 DEF MsgInv

\* The same of a record the step will commit.
Woken(e, S) == /\ S \subseteq ToSet(slp) /\ S \subseteq Pids /\ Others(Now, e, S)
               /\ \A p \in S : e.pstate[p] \in {"curr", "ready"}

LEMMA WokenThen ==
  ASSUME NEW e, NEW S, Woken(e, S), NEW f, Moves(e, f, {})
  PROVE  Woken(f, S)
<1>1. \A p \in Pids : IF e.pstate[p] \in {"curr", "ready"}
                      THEN f.pstate[p] \in {"curr", "ready"} ELSE f.pstate[p] = e.pstate[p]
  BY DEF Moves, Others
<1>2. ASSUME NEW p \in Pids \ S
      PROVE  IF Now.pstate[p] \in {"curr", "ready"}
             THEN f.pstate[p] \in {"curr", "ready"} ELSE f.pstate[p] = Now.pstate[p]
  <2>1. CASE Now.pstate[p] \in {"curr", "ready"}
    BY <1>1, <2>1 DEF Woken, Others
  <2>2. CASE Now.pstate[p] \notin {"curr", "ready"}
    BY <1>1, <2>2 DEF Woken, Others
  <2>3. QED  BY <2>1, <2>2
<1>3. Others(Now, f, S)
  BY <1>2 DEF Others
<1>4. QED  BY <1>1, <1>3 DEF Woken

LEMMA WokenWakens ==
  ASSUME IInv, NEW e, NEW S, Woken(e, S), Settled(e), Commit(e)
  PROVE  Wakens(S)
<1>1. pstate' = e.pstate
  BY CommitNow
<1>2. ASSUME NEW q \in Pids \ S PROVE Quiet(q)
  <2>1. IF pstate[q] \in {"curr", "ready"}
        THEN pstate'[q] \in {"curr", "ready"} ELSE pstate'[q] = pstate[q]
    BY <1>1, NowFields DEF Woken, Others
  <2>2. QED  BY <2>1 DEF Quiet, Sleeping, Receiving
<1>3. ASSUME NEW q \in S
      PROVE  q \in Pids /\ pstate[q] \in Sleeping /\ pstate'[q] \in {"curr", "ready"}
  <2>1. q \in ToSet(slp) /\ ToSet(slp) \subseteq Pids
    BY TypedNow, SetOfList DEF Woken
  <2>2. pstate[q] \in Sleeping
    BY <2>1, TypedNow, NowFields DEF Good, Matches
  <2>3. QED  BY <1>1, <2>1, <2>2 DEF Woken
<1>4. QED  BY <1>2, <1>3 DEF Wakens


LEMMA WakeupWoken ==
  ASSUME IInv, NEW d, Good(d, {}), Others(Now, d, {}), d.slp = slp,
         \A i \in 2 .. Len(d.slp) : d.qkey[d.slp[i]] >= 0
  PROVE  /\ Settled(Wakeup(d))
         /\ \E S : Woken(Wakeup(d), S) /\ Wakes(d, Wakeup(d), S)
<1> DEFINE e == Wakeup(d)
<1>1. PICK S : Wakes(d, e, S)
  BY WakeupSettled
<1>2. Settled(e)
  BY WakeupSettled
<1> HIDE DEF e
<1>3. ToSet(slp) \subseteq Pids
  BY TypedNow, SetOfList
<1>4. S \subseteq Pids /\ S \subseteq ToSet(slp) /\ \A p \in S : e.pstate[p] \in {"curr", "ready"}
  BY <1>1, <1>3 DEF Wakes
<1>5. Others(Now, e, S)
  <2>1. ASSUME NEW p \in Pids \ S
        PROVE  IF Now.pstate[p] \in {"curr", "ready"}
               THEN e.pstate[p] \in {"curr", "ready"} ELSE e.pstate[p] = Now.pstate[p]
    <3>1. /\ IF Now.pstate[p] \in {"curr", "ready"}
             THEN d.pstate[p] \in {"curr", "ready"} ELSE d.pstate[p] = Now.pstate[p]
          /\ IF d.pstate[p] \in {"curr", "ready"}
             THEN e.pstate[p] \in {"curr", "ready"} ELSE e.pstate[p] = d.pstate[p]
      BY <1>1 DEF Others, Wakes
    <3>2. CASE Now.pstate[p] \in {"curr", "ready"}
      BY <3>1, <3>2
    <3>3. CASE Now.pstate[p] \notin {"curr", "ready"}
      BY <3>1, <3>3
    <3>4. QED  BY <3>2, <3>3
  <2>2. QED  BY <2>1 DEF Others
<1>6. Woken(e, S)
  BY <1>4, <1>5 DEF Woken
<1>7. QED  BY <1>1, <1>2, <1>6 DEF e

LEMMA StrtclkMsg ==
  ASSUME IInv, MsgInv, Strtclk, UNCHANGED calls
  PROVE  MsgInv' /\ defclk > 0
<1> DEFINE e == MakeUp(Now, clkdiff)
           w == Wakeup(e)
           d == IF slnempty THEN w ELSE e
<1>1. /\ defclk > 0
      /\ IF defclk > 1 THEN UNCHANGED <<clkdiff, dispVars, cont>>
         ELSE /\ clkdiff' = 0
              /\ IF d.currpid # currpid
                 THEN Commit(d) /\ cont' = [cont EXCEPT ![currpid].op = "strtclk"]
                 ELSE Commit(Settle(d)) /\ UNCHANGED cont
      /\ UNCHANGED msgVars
  BY DEF Strtclk, ClkUnchanged
<1>2. Settled(e) /\ Others(Now, e, {}) /\ e.slp = slp
  <2>1. e.slp = slp
    BY DEF MakeUp, Now
  <2>2. Settled(Now) /\ clkdiff \in Nat
    BY TypedNow DEF IInv, ClkTyped
  <2>3. QED  BY <2>1, <2>2, MakeUpSettled
<1> HIDE DEF e
<1>3. \E S : Woken(d, S) /\ Settled(d)
  <2>1. CASE slnempty
    <3>1. e.slp \in Seq(Pids)
      BY <1>2, DispFields DEF Settled, Good
    <3>2. \A i \in 2 .. Len(e.slp) : e.slp[i] \in ToSet(e.slp)
      BY <3>1, SetOfList
    <3>3. Good(e, {}) /\ \A i \in 2 .. Len(e.slp) : e.qkey[e.slp[i]] >= 0
      BY <1>2, <3>2 DEF Settled, SltopGood, DelaysGood
    <3>4. Settled(w) /\ \E S : Woken(w, S)
      BY <1>2, <3>3, WakeupWoken
    <3>5. QED  BY <2>1, <3>4
  <2>2. CASE ~slnempty
    <3>1. Woken(e, {})
      BY <1>2 DEF Woken
    <3>2. QED  BY <1>2, <2>2, <3>1
  <2>3. QED  BY <2>1, <2>2
<1> HIDE DEF d
<1>4. CASE defclk > 1
  <2>1. UNCHANGED dispVars /\ UNCHANGED cont
    BY <1>1, <1>4
  <2>2. QED  BY <1>1, <2>1, QuietKeep, MsgPlain
<1>5. CASE ~(defclk > 1)
  <2>1. PICK S : Woken(d, S) /\ Settled(d)
    BY <1>3
  <2>2. Wakens(S)
    <3>1. CASE d.currpid # currpid
      <4>1. Commit(d)
        BY <1>1, <1>5, <3>1
      <4>2. QED  BY <2>1, <4>1, WokenWakens
    <3>2. CASE d.currpid = currpid
      <4> DEFINE f == Settle(d)
      <4>1. Commit(f)
        BY <1>1, <1>5, <3>2
      <4>2. Settled(f) /\ Moves(d, f, {})
        BY <2>1, SettleSettled
      <4> HIDE DEF f
      <4>3. QED  BY <2>1, <4>1, <4>2, WokenThen, WokenWakens
    <3>3. QED  BY <3>1, <3>2
  <2>3. cont' = cont \/ cont' = [cont EXCEPT ![currpid].op = "strtclk"]
    BY <1>1, <1>5
  <2>4. \A q \in Pids : cont'[q].op = "receive" => cont[q].op = "receive"
    BY <2>3 DEF IInv, ContTyped
  <2>5. QED  BY <1>1, <2>2, <2>4, WakensMsg
<1>6. QED  BY <1>4, <1>5

\* One tick of what was due has gone: S was due then, and the others are not due sooner.
Elapsed(e, S) ==
  /\ ToSet(e.slp) \subseteq ToSet(slp)
  /\ \A due \in [Pids -> Int] : Sums(slp, qkey, due) =>
       /\ \A p \in S : due[p] < 1
       /\ \E due2 \in [Pids -> Int] :
            Sums(e.slp, e.qkey, due2) /\ \A p \in Pids : due[p] - 1 <= due2[p]

LEMMA ElapsedThen ==
  ASSUME NEW e, NEW S, Elapsed(e, S), NEW f, DuesKept(e, f)
  PROVE  Elapsed(f, S)
<1>1. ToSet(f.slp) \subseteq ToSet(slp)
  BY DEF Elapsed, DuesKept
<1>2. ASSUME NEW due \in [Pids -> Int], Sums(slp, qkey, due)
      PROVE  /\ \A p \in S : due[p] < 1
             /\ \E due2 \in [Pids -> Int] :
                  Sums(f.slp, f.qkey, due2) /\ \A p \in Pids : due[p] - 1 <= due2[p]
  <2>1. PICK due2 \in [Pids -> Int] :
          Sums(e.slp, e.qkey, due2) /\ \A p \in Pids : due[p] - 1 <= due2[p]
    BY <1>2 DEF Elapsed
  <2>2. Sums(f.slp, f.qkey, due2)
    BY <2>1 DEF DuesKept
  <2>3. QED  BY <1>2, <2>1, <2>2 DEF Elapsed
<1>3. QED  BY <1>1, <1>2 DEF Elapsed

LEMMA TopTicked ==
  ASSUME IInv, slnempty
  PROVE  LET top == [Now EXCEPT !.qkey[sltop] = @ - 1] IN
         /\ top.slp = slp /\ Others(Now, top, {}) /\ slp # <<>> /\ slp[1] = sltop
         /\ \A due \in [Pids -> Int] :
              Sums(slp, qkey, due) => Sums(slp, top.qkey, [p \in Pids |-> due[p] - 1])
<1> DEFINE top == [Now EXCEPT !.qkey[sltop] = @ - 1]
<1>1. top.slp = slp /\ top.pstate = pstate /\ top.qkey = [qkey EXCEPT ![sltop] = @ - 1]
  BY DEF Now
<1>2. Others(Now, top, {})
  BY <1>1, NowFields DEF Others
<1> HIDE DEF top
<1>3. /\ slp \in Seq(Pids) /\ slp # <<>> /\ IsInjective(slp) /\ slp[1] = sltop
      /\ ToSet(slp) \subseteq Pids /\ qkey \in [Pids -> Int] /\ sltop \in Pids
  BY HeadTailDistinct, SetOfList, TypedNow, NowFields DEF SltopGood, Good
<1>4. \A q \in ToSet(slp) : top.qkey[q] = IF q = slp[1] THEN qkey[q] - 1 ELSE qkey[q]
  BY <1>1, <1>3
<1>5. ASSUME NEW due \in [Pids -> Int], Sums(slp, qkey, due)
      PROVE  Sums(slp, top.qkey, [p \in Pids |-> due[p] - 1])
  BY <1>3, <1>4, <1>5, TickSums
<1>6. QED  BY <1>1, <1>2, <1>3, <1>5 DEF top

LEMMA TickWoken ==
  ASSUME IInv
  PROVE  LET top == [Now EXCEPT !.qkey[sltop] = @ - 1]
             wakes == slnempty /\ top.qkey[sltop] < 0
             d == IF wakes THEN Wakeup(top) ELSE IF slnempty THEN top ELSE Now
         IN  Settled(d) /\ \E S : Woken(d, S) /\ Elapsed(d, S)
<1> DEFINE top == [Now EXCEPT !.qkey[sltop] = @ - 1]
           wakes == slnempty /\ top.qkey[sltop] < 0
           w == Wakeup(top)
           d == IF wakes THEN w ELSE IF slnempty THEN top ELSE Now
<1> SUFFICES \E S : Settled(d) /\ Woken(d, S) /\ Elapsed(d, S)
  OBVIOUS
<1>1. CASE ~slnempty
  <2>1. d = Now /\ Settled(Now) /\ slp = <<>>
    BY <1>1, TypedNow, NowFields DEF SltopGood
  <2> HIDE DEF d
  <2>2. Woken(Now, {})
    BY DEF Woken, Others
  <2>3. Elapsed(Now, {})
    <3>1. ASSUME NEW due \in [Pids -> Int], Sums(slp, qkey, due)
          PROVE  \E due2 \in [Pids -> Int] :
                   Sums(slp, qkey, due2) /\ \A p \in Pids : due[p] - 1 <= due2[p]
      BY <3>1
    <3>2. QED  BY <3>1, NowFields DEF Elapsed
  <2>4. QED  BY <2>1, <2>2, <2>3
<1>2. CASE slnempty
  <2>1. /\ top.slp = slp /\ Others(Now, top, {}) /\ slp # <<>> /\ slp[1] = sltop
        /\ \A due \in [Pids -> Int] :
             Sums(slp, qkey, due) => Sums(slp, top.qkey, [p \in Pids |-> due[p] - 1])
    BY <1>2, TopTicked
  <2>2. /\ Good(top, {}) /\ \A i \in 2 .. Len(top.slp) : top.qkey[top.slp[i]] >= 0
        /\ top.qkey[sltop] >= 0 => Settled(top)
    BY <1>2, TopGood
  <2>3. top.qkey[sltop] \in Int
    BY TypedNow DEF Now
  <2> HIDE DEF top
  <2>4. CASE top.qkey[sltop] < 0
    <3>1. PICK S : Settled(w) /\ Woken(w, S) /\ Wakes(top, w, S)
      BY <2>1, <2>2, WakeupWoken
    <3> HIDE DEF w
    <3>2. ToSet(w.slp) \subseteq ToSet(slp) /\ S \subseteq Pids
      BY <2>1, <3>1 DEF Wakes, Woken
    <3>3. ASSUME NEW due \in [Pids -> Int], Sums(slp, qkey, due)
          PROVE  /\ \A p \in S : due[p] < 1
                 /\ \E due2 \in [Pids -> Int] :
                      Sums(w.slp, w.qkey, due2) /\ \A p \in Pids : due[p] - 1 <= due2[p]
      <4> DEFINE less == [p \in Pids |-> due[p] - 1]
      <4>1. less \in [Pids -> Int] /\ \A p \in Pids : less[p] = due[p] - 1
        OBVIOUS
      <4>2. Sums(top.slp, top.qkey, less) /\ top.slp # <<>> /\ top.qkey[top.slp[1]] < 0
        BY <2>1, <2>4, <3>3
      <4> HIDE DEF less
      <4>3. PICK due2 \in [Pids -> Int] :
              /\ \A p \in S : less[p] < 0
              /\ Sums(w.slp, w.qkey, due2) /\ \A p \in Pids : less[p] <= due2[p]
        BY <3>1, <4>1, <4>2 DEF Wakes
      <4>4. \A p \in S : due[p] < 1
        BY <3>2, <4>1, <4>3
      <4>5. QED  BY <4>1, <4>3, <4>4
    <3>4. Elapsed(w, S)
      BY <3>2, <3>3 DEF Elapsed
    <3>5. d = w
      BY <1>2, <2>4
    <3> HIDE DEF d
    <3>6. QED  BY <3>1, <3>4, <3>5
  <2>5. CASE ~(top.qkey[sltop] < 0)
    <3>1. d = top /\ top.qkey[sltop] >= 0
      BY <1>2, <2>3, <2>5
    <3> HIDE DEF d
    <3>2. Settled(d) /\ Woken(d, {})
      BY <2>1, <2>2, <3>1 DEF Woken
    <3>3. ASSUME NEW due \in [Pids -> Int], Sums(slp, qkey, due)
          PROVE  \E due2 \in [Pids -> Int] :
                   Sums(d.slp, d.qkey, due2) /\ \A p \in Pids : due[p] - 1 <= due2[p]
      <4>1. Sums(d.slp, d.qkey, [p \in Pids |-> due[p] - 1])
        BY <2>1, <3>1, <3>3
      <4>2. /\ [p \in Pids |-> due[p] - 1] \in [Pids -> Int]
            /\ \A p \in Pids : due[p] - 1 <= [q \in Pids |-> due[q] - 1][p]
        OBVIOUS
      <4>3. QED  BY <4>1, <4>2
    <3>4. Elapsed(d, {})
      BY <2>1, <3>1, <3>3 DEF Elapsed
    <3>5. QED  BY <3>2, <3>4
  <2>6. QED  BY <2>4, <2>5
<1>3. QED  BY <1>1, <1>2

LEMMA ClkintMsg ==
  ASSUME IInv, MsgInv, Clkint, UNCHANGED calls
  PROVE  MsgInv' /\ (defclk # 0 \/ \E S : Wakens(S) /\ Elapsed(NextNow, S))
<1> DEFINE top == [Now EXCEPT !.qkey[sltop] = @ - 1]
           wakes == slnempty /\ top.qkey[sltop] < 0
           d == IF wakes THEN Wakeup(top) ELSE IF slnempty THEN top ELSE Now
<1>1. /\ IF defclk # 0
         THEN clkdiff < MaxDefer /\ clkdiff' = clkdiff + 1 /\ UNCHANGED <<dispVars, cont>>
         ELSE /\ UNCHANGED clkdiff
              /\ IF wakes /\ d.currpid # currpid
                 THEN Commit(d) /\ cont' = [cont EXCEPT ![currpid].op = "clpreem"]
                 ELSE Commit(Preempt(d)) /\ UNCHANGED cont
      /\ UNCHANGED msgVars
  BY DEF Clkint, ClkUnchanged
<1>2. PICK S : Settled(d) /\ Woken(d, S) /\ Elapsed(d, S)
  BY TickWoken
<1> HIDE DEF d, wakes
<1>3. CASE defclk # 0
  <2>1. UNCHANGED dispVars /\ UNCHANGED cont
    BY <1>1, <1>3
  <2>2. QED  BY <1>1, <1>3, <2>1, QuietKeep, MsgPlain
<1>4. CASE defclk = 0
  <2>1. Wakens(S) /\ Elapsed(NextNow, S)
    <3>1. CASE wakes /\ d.currpid # currpid
      <4>1. Commit(d)
        BY <1>1, <1>4, <3>1
      <4>2. QED  BY <1>2, <4>1, WokenWakens, CommitNow
    <3>2. CASE ~(wakes /\ d.currpid # currpid)
      <4> DEFINE f == Preempt(d)
      <4>1. Commit(f)
        BY <1>1, <1>4, <3>2
      <4>2. Settled(f) /\ Moves(d, f, {})
        BY <1>2, PreemptSettled
      <4> HIDE DEF f
      <4>3. Woken(f, S) /\ Elapsed(f, S)
        BY <1>2, <4>2, WokenThen, ElapsedThen DEF Moves
      <4>4. QED  BY <4>1, <4>2, <4>3, WokenWakens, CommitNow
    <3>3. QED  BY <3>1, <3>2
  <2>2. cont' = cont \/ cont' = [cont EXCEPT ![currpid].op = "clpreem"]
    BY <1>1, <1>4
  <2>3. \A q \in Pids : cont'[q].op = "receive" => cont[q].op = "receive"
    BY <2>2 DEF IInv, ContTyped
  <2>4. QED  BY <1>1, <2>1, <2>3, WakensMsg
<1>5. QED  BY <1>3, <1>4

------------------------------------------------------------------------------
LEMMA SemaphoreMsg ==
  ASSUME IInv, MsgInv, SemaphoreNext, UNCHANGED calls
  PROVE  MsgInv' /\ Undue /\ owed' = owed /\ defclk' = defclk
<1>1. UNCHANGED msgVars /\ cont' = cont /\ owed' = owed /\ defclk' = defclk
  BY DEF SemaphoreNext, Screate, Sdelete, Sreset, Wait, Signal, Signaln, SemUnchanged, clkVars
<1>2. QED  BY <1>1, SemaphoreQuiet, MsgPlain

LEMMA FinishClockMsg ==
  ASSUME IInv, MsgInv, FinishClkint \/ FinishStrtclk, UNCHANGED calls
  PROVE  MsgInv' /\ Undue
<1>1. cont' = [cont EXCEPT ![currpid] = UserCode] /\ UNCHANGED msgVars
  BY DEF FinishClkint, FinishStrtclk, ClkUnchanged
<1>2. PICK e : Commit(e) /\ Settled(e) /\ Moves(Now, e, {})
  <2>1. CASE FinishClkint
    <3>1. Commit(Preempt(Now)) /\ Settled(Preempt(Now)) /\ Moves(Now, Preempt(Now), {})
      BY <2>1, TypedNow, PreemptSettled DEF FinishClkint
    <3>2. QED  BY <3>1
  <2>2. CASE FinishStrtclk
    <3>1. Commit(Settle(Now)) /\ Settled(Settle(Now)) /\ Moves(Now, Settle(Now), {})
      BY <2>2, TypedNow, SettleSettled DEF FinishStrtclk
    <3>2. QED  BY <3>1
  <2>3. QED  BY <2>1, <2>2
<1>3. QuietBut({})
  BY <1>2, QuietOthers
<1>4. QED  BY <1>1, <1>3, MsgPlain

LEMMA StopclkMsg ==
  ASSUME IInv, MsgInv, Stopclk, UNCHANGED calls
  PROVE  MsgInv' /\ Undue /\ "stopclk" \in calls
BY QuietKeep, MsgPlain DEF Stopclk, Call, ClkUnchanged

LEMMA StutterMsg ==
  ASSUME IInv, MsgInv, UNCHANGED vars
  PROVE  MsgInv' /\ Undue /\ owed' = owed /\ defclk' = defclk
<1>1. /\ UNCHANGED dispVars /\ UNCHANGED msgVars /\ UNCHANGED calls /\ cont' = cont
      /\ owed' = owed /\ defclk' = defclk
  BY DEF vars, clkVars
<1>2. QED  BY <1>1, QuietKeep, MsgPlain

\* What becomes of the delays in a step: nobody's ends, or it is a tick, or ticks are made up.
LEMMA NextMsg ==
  ASSUME IInv, MsgInv, [Next]_vars
  PROVE  /\ MsgInv'
         /\ \/ Undue /\ owed' = owed /\ defclk' = defclk
            \/ Undue /\ owed' = [owed EXCEPT ![currpid] = 0] /\ defclk' = defclk
            \/ (\E n \in Delays : SleepsFor(n)) /\ (\A q \in Pids : ~TimesOut(q)) /\ defclk' = defclk
            \/ Clkint /\ (defclk # 0 \/ \E S : Wakens(S) /\ Elapsed(NextNow, S))
            \/ "stopclk" \in calls \/ defclk > 0
<1>1. CASE UNCHANGED vars
  BY <1>1, StutterMsg
<1>2. CASE Next
  <2>1. UNCHANGED calls
    BY <1>2 DEF Next
  <2>2. CASE ProcessNext
    <3>1. owed' = owed /\ defclk' = defclk
      BY <2>2 DEF ProcessNext, Create, Resume, Suspend, Kill, Chprio, Setnok, FinishKill, clkVars
    <3>2. QED  BY <2>1, <2>2, <3>1, ProcessMsg
  <2>3. CASE SemaphoreNext
    BY <2>1, <2>3, SemaphoreMsg
  <2>4. CASE MessageNext
    <3>1. defclk' = defclk
      BY <2>4 DEF MessageNext, Send, Sendf, Receive, FinishReceive, Recvclr, Recvtim,
         FinishRecvtim, MsgUnchanged, clkVars
    <3>2. ASSUME NEW p \in UserPids, Send(p) \/ Sendf(p) PROVE MsgInv' /\ Undue /\ owed' = owed
      BY <2>1, <3>2, SendMsg, SendfMsg DEF Send, Sendf
    <3>3. CASE Receive \/ FinishReceive \/ FinishRecvtim \/ Recvclr
      BY <2>1, <3>1, <3>3, ReceiveMsg, FinishReceiveMsg
         DEF Receive, FinishReceive, FinishRecvtim, Recvclr
    <3>4. QED  BY <2>1, <2>4, <3>1, <3>2, <3>3, RecvtimMsg DEF MessageNext
  <2>5. CASE ClockNext
    <3>1. ASSUME NEW n \in Delays, Sleep10(n) PROVE defclk' = defclk
      BY <3>1 DEF Sleep10, clkVars
    <3>2. CASE FinishClkint \/ FinishStrtclk
      <4>1. owed' = owed /\ defclk' = defclk
        BY <3>2 DEF FinishClkint, FinishStrtclk, clkVars
      <4>2. QED  BY <2>1, <3>2, <4>1, FinishClockMsg
    <3>3. QED  BY <2>1, <2>5, <3>1, <3>2, Sleep10Msg, ClkintMsg, StopclkMsg, StrtclkMsg DEF ClockNext
  <2>6. QED  BY <1>2, <2>2, <2>3, <2>4, <2>5 DEF Next
<1>3. QED  BY <1>1, <1>2

LEMMA InitMsg == Init => MsgInv
BY DEF Init, UserCode, MsgInv, MsgOk, Receiving

\* A process that goes on after receive's wait has a message, and without sendf nobody
\* waits who has one (send, kill's send, receive, recvtim, recvclr).
THEOREM MessagesCorrect == Spec => []MessagesDelivered
<1>1. Init => IInv /\ MsgInv
  BY InitIInv, InitMsg
<1>2. IInv /\ MsgInv /\ [Next]_vars => IInv' /\ MsgInv'
  BY NextIInv, NextMsg
<1>3. MsgInv => MessagesDelivered
  BY DEF MsgInv, MsgOk, MessagesDelivered, Receiving
<1>4. QED  BY <1>1, <1>2, <1>3, PTL DEF Spec

------------------------------------------------------------------------------
(* Delays.  While nobody defers ticks, the keys of clockq come, for every    *)
(* sleeper, to at least what it is still owed.                               *)

Owing == \E due \in [Pids -> Int] :
           Sums(slp, qkey, due) /\ \A p \in ToSet(slp) : owed[p] <= due[p]
OnTime == "stopclk" \notin calls => defclk = 0 /\ Owing

\* With keys that are not negative nobody is overdue.
LEMMA NotOverdue ==
  ASSUME NEW l \in Seq(Pids), NEW key \in [Pids -> Int], NEW due \in [Pids -> Int],
         Sums(l, key, due), \A p \in ToSet(l) : key[p] >= 0
  PROVE  \A p \in ToSet(l) : due[p] >= 0
<1> DEFINE U == {i \in 1 .. Len(l) : due[l[i]] < 0}
<1>1. U = {}
  <2>1. SUFFICES ASSUME U # {} PROVE FALSE
    OBVIOUS
  <2>2. U \subseteq Nat
    OBVIOUS
  <2>3. PICK m \in U : \A i \in U : m <= i
    <3> HIDE DEF U
    <3>1. QED  BY <2>1, <2>2, MinNat
  <2>4. m \in 1 .. Len(l) /\ due[l[m]] < 0 /\ l[m] \in ToSet(l) /\ l[m] \in Pids
    BY <2>3, SetOfList
  <2>5. key[l[m]] = due[l[m]] - Before(l, due, m) /\ key[l[m]] >= 0
    BY <2>4 DEF Sums
  <2>6. Before(l, due, m) >= 0 /\ Before(l, due, m) \in Int
    <3>1. CASE m = 1
      BY <3>1 DEF Before
    <3>2. CASE m # 1
      <4>1. m - 1 \in 1 .. Len(l) /\ ~(m <= m - 1) /\ l[m-1] \in Pids
        BY <2>4, <3>2
      <4>2. m - 1 \notin U
        <5> HIDE DEF U
        <5>1. QED  BY <2>3, <4>1
      <4>3. due[l[m-1]] \in Int /\ ~(due[l[m-1]] < 0)
        BY <4>1, <4>2
      <4>4. QED  BY <3>2, <4>3 DEF Before
    <3>3. QED  BY <3>1, <3>2
  <2> DEFINE x == due[l[m]]
             y == Before(l, due, m)
  <2>7. x \in Int /\ y \in Int /\ x < 0 /\ y >= 0 /\ x - y >= 0
    BY <2>4, <2>5, <2>6
  <2> HIDE DEF x, y
  <2>8. QED  BY <2>7
<1>2. ASSUME NEW p \in ToSet(l) PROVE due[p] >= 0
  <2>1. PICK i \in 1 .. Len(l) : l[i] = p
    BY SetOfList
  <2>2. ~(due[p] < 0) /\ due[p] \in Int
    BY <1>1, <2>1
  <2>3. QED  BY <2>2
<1>3. QED  BY <1>2

LEMMA OwingKept ==
  ASSUME IInv, Owing, DuesKept(Now, NextNow),
         \A p \in ToSet(slp') : owed'[p] = owed[p]
  PROVE  Owing'
<1>1. PICK due \in [Pids -> Int] :
        Sums(slp, qkey, due) /\ \A p \in ToSet(slp) : owed[p] <= due[p]
  BY DEF Owing
<1>2. Sums(slp', qkey', due) /\ ToSet(slp') \subseteq ToSet(slp)
  BY <1>1 DEF DuesKept, Now, NextNow
<1>3. \A p \in ToSet(slp') : owed'[p] <= due[p]
  BY <1>1, <1>2
<1>4. QED  BY <1>2, <1>3 DEF Owing

LEMMA OwingSleep ==
  ASSUME IInv, Owing, NEW n \in Nat, SleepsFor(n)
  PROVE  Owing'
<1>1. PICK due \in [Pids -> Int] :
        Sums(slp, qkey, due) /\ \A p \in ToSet(slp) : owed[p] <= due[p]
  BY DEF Owing
<1>2. PICK c \in Pids : c = currpid
  BY TypedNow
<1> DEFINE due2 == [due EXCEPT ![c] = n]
<1>3. /\ ToSet(slp') = ToSet(slp) \cup {c} /\ owed' = [owed EXCEPT ![c] = n]
      /\ Sums(slp', qkey', due2)
  BY <1>1, <1>2 DEF SleepsFor, Joins, Now, NextNow
<1>4. due2 \in [Pids -> Int]
  OBVIOUS
<1>5. ASSUME NEW p \in ToSet(slp') PROVE owed'[p] <= due2[p]
  <2>1. owed \in [Pids -> Int] /\ ToSet(slp) \subseteq Pids
    BY TypedNow, SetOfList DEF IInv, OwedTyped
  <2>2. CASE p = c
    BY <1>3, <2>1, <2>2
  <2>3. CASE p # c
    <3>1. p \in ToSet(slp) /\ p \in Pids
      BY <1>3, <2>1, <2>3
    <3>2. owed'[p] = owed[p] /\ due2[p] = due[p]
      BY <1>3, <2>1, <2>3, <3>1
    <3>3. QED  BY <1>1, <3>1, <3>2
  <2>4. QED  BY <2>2, <2>3
<1> HIDE DEF due2
<1>6. QED  BY <1>3, <1>4, <1>5 DEF Owing

LEMMA OwingTick ==
  ASSUME IInv, IInv', Owing, Clkint, NEW S, Wakens(S), Elapsed(NextNow, S)
  PROVE  Owing' /\ (MaxLate > 0 => \A p \in Pids : TimesOut(p) => owed'[p] < 0)
<1>1. PICK due \in [Pids -> Int] :
        Sums(slp, qkey, due) /\ \A p \in ToSet(slp) : owed[p] <= due[p]
  BY DEF Owing
<1>2. PICK due2 \in [Pids -> Int] :
        /\ ToSet(slp') \subseteq ToSet(slp) /\ \A p \in S : due[p] < 1
        /\ Sums(slp', qkey', due2) /\ \A p \in Pids : due[p] - 1 <= due2[p]
  BY <1>1 DEF Elapsed, NextNow
<1>3. owed' = [p \in Pids |-> IF pstate[p] \notin {"sleep", "trecv"} THEN 0
                              ELSE IF owed[p] > -MaxLate THEN owed[p] - 1 ELSE owed[p]]
  BY DEF Clkint
<1>4. ASSUME NEW p \in ToSet(slp)
      PROVE  /\ p \in Pids /\ owed[p] \in Int /\ owed[p] <= due[p]
             /\ owed'[p] = IF owed[p] > -MaxLate THEN owed[p] - 1 ELSE owed[p]
  <2>1. p \in Pids /\ pstate[p] \in Sleeping
    BY TypedNow, SetOfList, NowFields DEF Good, Matches
  <2>2. owed[p] \in Int
    BY <2>1 DEF IInv, OwedTyped
  <2>3. QED  BY <1>1, <1>3, <2>1, <2>2 DEF Sleeping
<1>5. \A p \in ToSet(slp') : due2[p] >= 0
  <2>1. Settled(Now)'
    BY DEF IInv
  <2>2. slp' \in Seq(Pids) /\ qkey' \in [Pids -> Int] /\ \A p \in ToSet(slp') : qkey'[p] >= 0
    BY <2>1 DEF Settled, Good, DispType, SltopGood, DelaysGood, Now
  <2>3. QED  BY <1>2, <2>2, NotOverdue
<1>6. ASSUME NEW p \in ToSet(slp') PROVE owed'[p] <= due2[p]
  <2>1. /\ p \in Pids /\ owed[p] \in Int /\ owed[p] <= due[p] /\ due[p] \in Int /\ due2[p] \in Int
        /\ owed'[p] = IF owed[p] > -MaxLate THEN owed[p] - 1 ELSE owed[p]
        /\ due[p] - 1 <= due2[p] /\ due2[p] >= 0 /\ MaxLate \in Nat
    BY <1>2, <1>4, <1>5, BoundsAssumption
  <2>2. QED  BY ONLY <2>1
<1>7. Owing'
  BY <1>2, <1>6 DEF Owing
<1>8. ASSUME MaxLate > 0, NEW p \in Pids, TimesOut(p) PROVE owed'[p] < 0
  <2>1. p \in S
    BY <1>8 DEF Wakens, Quiet, TimesOut, Sleeping
  <2>2. p \in ToSet(slp)
    BY <2>1, TypedNow, NowFields DEF Wakens, Good, Matches
  <2>3. /\ owed[p] \in Int /\ owed[p] <= due[p] /\ due[p] \in Int /\ due[p] < 1
        /\ owed'[p] = IF owed[p] > -MaxLate THEN owed[p] - 1 ELSE owed[p]
        /\ MaxLate \in Nat /\ MaxLate > 0
    BY <1>2, <1>4, <1>8, <2>1, <2>2, BoundsAssumption
  <2>4. QED  BY ONLY <2>3
<1>9. QED  BY <1>7, <1>8

LEMMA OnTimeNext ==
  ASSUME IInv, MsgInv, OnTime, [Next]_vars
  PROVE  /\ OnTime'
         /\ MaxLate > 0 => \A p \in Pids : TimesOut(p) /\ "stopclk" \notin calls => owed'[p] < 0
<1>1. calls' = calls
  BY DEF Next, vars
<1>2. CASE "stopclk" \in calls
  BY <1>1, <1>2 DEF OnTime
<1>3. CASE "stopclk" \notin calls
  <2>1. defclk = 0 /\ Owing
    BY <1>3 DEF OnTime
  <2>2. CASE Undue /\ owed' = owed /\ defclk' = defclk
    BY <1>1, <2>1, <2>2, OwingKept DEF Undue, OnTime
  <2>3. CASE Undue /\ owed' = [owed EXCEPT ![currpid] = 0] /\ defclk' = defclk
    <3>1. ASSUME NEW p \in ToSet(slp') PROVE owed'[p] = owed[p]
      <4>1. p \in ToSet(slp)
        BY <2>3, <3>1 DEF Undue, DuesKept, Now, NextNow
      <4>2. p \in Pids /\ pstate[p] \in Sleeping
        BY <4>1, TypedNow, SetOfList, NowFields DEF Good, Matches
      <4>3. p # currpid /\ owed \in [Pids -> Int]
        BY <4>2, TypedNow DEF Sleeping, IInv, OwedTyped
      <4>4. QED  BY <2>3, <4>2, <4>3
    <3>2. QED  BY <1>1, <2>1, <2>3, <3>1, OwingKept DEF Undue, OnTime
  <2>4. CASE (\E n \in Delays : SleepsFor(n)) /\ (\A q \in Pids : ~TimesOut(q)) /\ defclk' = defclk
    <3>1. PICK n \in Delays : SleepsFor(n)
      BY <2>4
    <3>2. n \in Nat
      BY KeysAssumption
    <3>3. QED  BY <1>1, <2>1, <2>4, <3>1, <3>2, OwingSleep DEF OnTime
  <2>5. CASE Clkint /\ (defclk # 0 \/ \E S : Wakens(S) /\ Elapsed(NextNow, S))
    <3>1. PICK S : Wakens(S) /\ Elapsed(NextNow, S)
      BY <2>1, <2>5
    <3>2. IInv' /\ defclk' = defclk
      BY <2>5, NextIInv DEF Clkint
    <3>3. QED  BY <1>1, <2>1, <2>5, <3>1, <3>2, OwingTick DEF OnTime
  <2>6. QED  BY <1>3, <2>1, <2>2, <2>3, <2>4, <2>5, NextMsg
<1>4. QED  BY <1>2, <1>3

LEMMA InitOnTime == Init => OnTime
<1>1. SUFFICES ASSUME Init PROVE defclk = 0 /\ Owing
  BY DEF OnTime
<1>2. slp = <<>> /\ defclk = 0
  BY <1>1 DEF Init
<1>3. ToSet(slp) = {} /\ Len(slp) = 0
  BY <1>2, EmptyList
<1>4. Sums(slp, qkey, [p \in Pids |-> 0])
  BY <1>3 DEF Sums
<1>5. [p \in Pids |-> 0] \in [Pids -> Int]
  OBVIOUS
<1>6. QED  BY <1>2, <1>3, <1>4, <1>5 DEF Owing

\* A delay that runs out was fully waited for, as long as nobody defers ticks, whatever
\* else comes to and goes from the delta list (sleep10, recvtim, unsleep, clkint, wakeup).
\* MaxLate must leave room to see that a sleeper is late.
THEOREM DelaysCorrect == MaxLate > 0 => (Spec => NeverEarly)
<1> SUFFICES ASSUME MaxLate > 0 PROVE Spec => NeverEarly
  OBVIOUS
<1>1. Init => IInv /\ MsgInv /\ OnTime
  BY InitIInv, InitMsg, InitOnTime
<1>2. IInv /\ MsgInv /\ OnTime /\ [Next]_vars => IInv' /\ MsgInv' /\ OnTime'
  BY NextIInv, NextMsg, OnTimeNext
<1>3. IInv /\ MsgInv /\ OnTime /\ [Next]_vars =>
        [\A p \in Pids : TimesOut(p) /\ "stopclk" \notin calls => owed'[p] < 0]_vars
  BY OnTimeNext
<1>4. QED  BY <1>1, <1>2, <1>3, PTL DEF Spec, NeverEarly

==============================================================================
