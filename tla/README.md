# Xinu for the Sun-3: a TLA+ verification project

This directory holds TLA+ models of the Xinu kernel in `src/SUN/src/sys`, the TLC
configurations that check them, and theorems about them proved with TLAPS. Paths
below without a directory are in `src/SUN/src/sys/sys`; headers are in
`src/SUN/src/sys/h`, manual pages in `src/SUN/man`.

Contents: [the system](#the-system), [the modules](#the-modules),
[how the model corresponds to the code](#correspondence), [runs](#runs),
[where the code and its documents differ](#differences), [proofs](#proofs),
[what is not modelled](#not-modelled), [plan](#plan).

## The system

Xinu is a small multiprogramming kernel: one processor, one address space, up to
NPROC (30) processes, NSEM (50) semaphores, messages, ports, devices and a UDP/IP
stack. The repository holds the kernel for the Sun-3 (`SUN/`), an older copy for the
MECB 68000 board (`MECB/`), a configuration generator, a C library, a shell, and
tools that run on a Unix host.

**Interaction.** A system call disables interrupts and so runs alone, until it calls
`resched`, which gives the processor to the last process of the ready list. The
caller's call then continues whenever it is dispatched again, and everything it read
before may have changed. Interrupt handlers run in whatever process they interrupt,
the null process included, and may themselves call `resched` in the middle.

| component | state | operations | what is hard, and what makes it correct |
|---|---|---|---|
| scheduler (`ready.c`, `resched.c`, `insert.c`, `insertd.c`, `queue.c`, `getitem.c`) | the queue array `q`, `currpid`, `preempt` | ready, resched, insert, insertd, enqueue, dequeue, getfirst, getlast | a process is on exactly one list, the one its state names; the running process is one of highest priority; equals take turns; the ready list never runs empty |
| process manager (`create.c`, `resume.c`, `suspend.c`, `chprio.c`, `setnok.c`, `kill.c`) | `proctab`, `numproc`, `nextproc` | create, resume, suspend, chprio, setnok, kill, userret | `kill` reschedules half-way; slots are reused; the count of processes decides when the system is done |
| semaphores (`screate.c` … `signaln.c`) | `semaph`, `nextsem` | screate, sdelete, sreset, wait, signal, signaln | the count's sign says whether somebody waits; kill takes waiters away; interrupts signal; fair queues |
| messages (`send.c` … `recvtim.c`) | `pmsg`, `phasmsg` | send, sendf, receive, recvclr, recvtim | a message against a timeout; a receiver suspended between send and return; overwriting |
| clock (`clkint.s`, `sleep10.c`, `unsleep.c`, `wakeup.c`, `ssclock.c`) | `clockq`, `slnempty`, `sltop`, `defclk`, `clkdiff` | clkint, sleep, sleep10, unsleep, wakeup, stopclk, strtclk | relative delays survive insertions and removals; nobody wakes early, everybody wakes; ticks deferred and made up |
| queue array (`newqueue.c`, `q.h`) | links of `q` | as the scheduler's | the doubly linked lists really are lists; the sentinel keys stop every walk |
| memory (`getmem.c`, `freemem.c`, `getstk.c`) | `memlist` | getmem, freemem, getstk | the free blocks are ordered, disjoint, never adjacent; nothing is lost |
| buffer pools (`getbuf.c`, `freebuf.c`, `mkpool.c`) | `bptab` | mkpool, getbuf, freebuf | count and list agree although they change in different critical sections |
| marks (`mark.c`) | `marks`, `nmarks` | mark | the test is outside the mutex |
| ports (`pinit.c` … `pcount.c`) | `ports`, `ptfree` | pcreate, psend, preceive, pdelete, preset, pcount | a port deleted, reset or created anew while processes wait on it; a node pool shared by all ports |
| tty driver (`tty*.c`) | buffers, counts, `isem`, `osem`, `odsend` | read, write, getc, putc, control; input and output interrupts | semaphore counts follow buffer counts through resets and delayed signals |
| ethernet driver (`eth*.c`) | receive ring, `etrpid`, write semaphore | read, write; interrupt | the reader is not left suspended; a ring slot is not given back twice |
| ARP, IP, UDP, datagrams (`arp*.c`, `getpath.c`, `netin.c`, `ip_in.c`, `dg*.c`) | ARP table, network queues | netin, getpath, route, dgread, dgwrite | timeouts against replies; the one input process must not block |
| remote files (`rf*.c`) | file blocks, the server device | open, read, write, seek, close | lost, late and repeated replies |
| name space (`nam*.c`, `mount.c`) | prefix table | mount, unmount, map | repeated replacement ends; first match wins |

`PROJECT.json` lists every component with its files, the ones not modelled with the
reason, and under `hazards` the places where this code can go wrong in ways a test
hardly reaches.

## The modules

| module | what it is |
|---|---|
| `KernelState` | the state of the kernel, `Init`, and the routines every call is built from (ready, resched, unsleep, wakeup) |
| `Process` | create, resume, suspend, chprio, setnok, kill |
| `Semaphore` | screate, sdelete, sreset, wait, signal, signaln |
| `Message` | send, sendf, receive, recvclr, recvtim |
| `Clock` | sleep10, the clock interrupt, stopclk, strtclk |
| `Kernel` | the four together: `Next`, `Spec`, `LiveSpec`, the properties, the refinement mapping |
| `AbsSemaphore` | what the manual promises of semaphores, without a process table |
| `MCKernel` | workloads and the view for TLC |
| `SemOps` | a semaphore as one value (count and queue), with what wait, signal, signaln, sreset and kill make of it; the modules below use it for their semaphores |
| `Clients` | the processes as ports and pools see them: where each one is in its call |
| `BufferPool`, `Ports` | mkpool, getbuf, freebuf; pcreate, psend, preceive, preset, pdelete, `_ptclear`, mark, and kill in the middle of each |
| `AbsPort` | what the manual promises of ports: bounded queues with generations |
| `Memory` | getmem, getstk, freemem and freestk on the list of free blocks |
| `Storage`, `MCStorage` | ports, pools and heap in one system; its workloads |
| `TtyOut`, `Tty` | the tty driver: output (write, putc, the transmit interrupt, echo); input (read, getc, control, the receive interrupt) and both together |
| `AbsTty`, `MCTty` | the streams that tty(4) promises; the driver's workloads |
| `NetProcs` | the processes as the network code sees them |
| `Ether` | the Ethernet driver with its chip: receive ring, queue, reader, writer, both halves of the interrupt |
| `Route` | network buffers, ARP and RARP tables, getpath, route, netin's share |
| `Datagram` | datagram devices, UDP queues, ip_in, ICMP and netout; uses `Route` |
| `RemoteFile` | the remote file system over a network that loses and reorders |
| `NameSpace` | mount, unmount, namrepl, nammap |
| `Net`, `MCNet` | the four parts of the network in one specification; symmetry |
| `QueueOps` | where insert and insertd put an entry, what dequeue leaves, on lists as sequences; used by `KernelState` and `AbsQueue` |
| `LinkedQueue` | the queue array: links, sentinel keys, every routine that changes them |
| `AbsQueue` | what the queue array promises: sequences and one key per process |
| `MCQueue` | keys, a bound on them and the view for TLC |
| `ListLemmas` | proved: what inserting, deleting and cutting does to a list without repetitions |
| `KernelProofs` | proved: what the routines of `KernelState` do to the lists and states; the inductive invariant, action by action, and the theorems |
| `CallProofs` | proved: what the system calls promise: numproc and death, the semaphores' refinement, releases, messages, delays |
| `QueueProofs` | proved: the links of the queue array form lists, every search of it ends, and it implements `AbsQueue` |
| `MemoryProofs` | proved: the heap's free list is sound and every word is free or handed out once |
| `PortProofs` | proved: the accounts of pools and ports, nodes, the place of each buffer, that nobody is forgotten, and the ports' refinement |
| `NetProofs` | proved: order in the Ethernet ring, sleepers and the transmitter, the right host, devices apart, answers that reach, where the network buffers are, remote file operations, names |
| `TtyProofs` | proved: the accounts of both semaphores of the line, its rings, that output is always on its way, and that the line implements `AbsTty` |

## Correspondence

**State.** `pstate`, `pprio`, `psem`, `phasmsg` and `pnxtkin` are the fields of `proctab`, each a
function of the process id; `sstate`, `semcnt` of `semaph`; `currpid`, `numproc`, `nextproc`,
`nextsem`, `preempt`, `slnempty`, `defclk`, `clkdiff` are the variables of those names. `rdy`,
`slp` and `semq[s]` are the lists of the queue array as sequences, head first; `qkey[p]` is the
`qkey` field of entry `p`, one for each process as in the code, so a key left over from one
list is there when the entry goes to another. `sltop` is a pointer in the code and the process
whose key it points to here. `owed` and `pend` are history variables: the clock ticks a
sleeper is still to wait, and whether a message was sent and not taken. No step reads them.

That sequences are the right picture of the array is checked separately: `LinkedQueue` has `qnext`,
`qprev` and `qkey` for the entries of processes, heads and tails, `insert`'s and `insertd`'s searches
follow the links (`Walk`) until a key stops them, and `dequeue` leaves the links of the entry it takes
out as they were. It implements `AbsQueue`, whose actions use the same operators (`QueueOps`) as
`KernelState`. `home` is a history variable: callers know the list of a process from its state and
never insert one that is on a list, nor dequeue one that is on none. `newqueue` only runs
during initialization (`initialize.c:169-172`, `clkinit.c:58`); the model lets it run at any time. `SetKey` stands
for all who change the key of an entry on a list (`unsleep.c:32`, `clkint.s:81`, `ssclock.c:42,46`).


**Steps.** A system call is one action: everything from `disable` to `restore`. If it reschedules
and the processor goes to another process, the action ends at `resched`, and what the call still
has to do is recorded in `cont[p]` and is an action of its own (`FinishKill`, `FinishReceive`,
`FinishRecvtim`, `FinishClkint`, `FinishStrtclk`), taken when `p` is dispatched again and before
anything else `p` does. Calls after whose `resched` only `restore` and `return` are left need no
continuation. A call of a program needs `InUser`: the current process is not inside the kernel.
The null process only pauses (`initialize.c:122-124`): it makes no calls, but is interrupted.

**Errors.** A call that returns SYSERR without changing anything is a step that changes nothing,
and has no action. `create` with a bad priority has one: it has moved `nextproc`.

**Interrupts.** The clock interrupt comes whenever a process runs with interrupts enabled. (It is
a level 7 interrupt and also comes when they are disabled, but then only counts down the
watchdog, `clkint.s:48-51`.) Device interrupts appear as `signal` and `signaln` in any process.

**Start.** `Init` is the state in which the user's main program starts, in a configuration without
the network daemon (`NETDAEMON`) and devices: the null process is ready, `main` runs in slot
NPROC-1, the last semaphore is `clmutex` of `clkinit`. With the daemon one more process and some
semaphores exist from the start; both are states the model reaches by `create` and `screate`.

**Inputs.** Any process may be the argument of any call, as in a system without protection, with
one exception: `setnok` is called as the shell does (`shell/shell.c:164-171`), by the parent for a
suspended child, and with BADPID for anybody. Signals that would push a count above `MaxCount`
are not made. `kill` of the last process but null is made, none after it.

**The modules over `SemOps`.** Above the kernel the models leave out which process has the processor:
any process that is not in a semaphore's queue may take its next step, which covers every choice
the scheduler can make under any priorities. A step goes to the next point at which the code can lose the
processor: a `wait` that blocks, a `signal` or `sreset` that frees somebody, the end of a critical section.
A process that was let go is out of the queue and its `cont` still says where it waited (`Released`).

**Ports and pools.** A message is a buffer of a pool and the function that disposes of messages is `freebuf`, as where
the network calls `preset` (`dgcntl.c:31`, the only caller in the kernel; nothing in the kernel calls `pdelete`, programs may).
A port's list of nodes is the sequence of the messages in them and `ptfree` the number of free nodes.
`Pcreate` contains `mark` and `pinit`; other marks (`login.c:32`, `getdmem.c:32`) share the mutex (`MarkOther`).
Semaphores may run out (`FreeSems`): with one left `pcreate` makes a port nobody can receive from.

**Heap.** Lengths are in words of four bytes, as `roundmb` rounds to two of them; the heap may have an odd number of words,
as `initialize.c:144-148` computes it from the end of the program. `FreeWrong` is a program that gives back what it does not have: any address that `freemem` lets pass
(`freemem.c:19-20`), which is up to `maxaddr`, the end of the null process's stack and `NullStk` words above the heap, and any length, which `freemem` does not look at. So the free list may grow beyond
the heap; `FreeListSound` says only what `freemem` does promise, and `WordsPartitioned` that the list stays in the heap as long as programs give back what they were given.
Addresses are multiples of a word and a block does not wrap around the address space; what is in a block (`freemem` writes its header there) is not modelled.

**Tty.** `tty` is the control block. Options are those `ttyinit` gives the console. A character is one of the classes the driver tells
apart. `txint` says whether the transmitter is going to interrupt. `ttycntl` runs with interrupts enabled: TCINT turns interruption on (`Tcint`) and only then says for whom
(`FinishTcint`), and a key that comes between sends its message to BADPID or to the process of an earlier TCINT (`interrupted`). A special character is echoed as two (`ttyiin.c:204-206`).

**Network.** `netin` has a priority above all programs (NETIPRI) and is not preempted between two packets, so what it does with a packet is one
step, unless `psend` blocks it. Everybody else may lose the processor to it where interrupts are enabled, and `getpath`'s `arpfind` is such a place: `Insert`, `Advance`, `Rewind`, `MarkAlloc`, `CopyIad` and `ClearEad` are its
assignments to `atabsiz` and `atabnxt` and to the entry, and netin's own `arpfind` may run between any two. When that one finds `atabnxt` behind the table (`EntersBeyond`) the model stops (`beyond`), because
what it overwrites there are `atabsiz`, `atabnxt`, `arpsem` and `arppid`. An entry that is resolved without an address (host `Nobody`, `arp_dev` -1) takes the packets written to it with their buffers (`lost`). `Route` takes the driver's write as a step that frees the buffer (`Ether` has the driver itself). Only who holds `nmutex` waits
for `arpsem`, which is therefore left out. One program uses a datagram device at a time. `netout` is a process of its own; the
time and name it asks for before its loop (`netout.c:24-25`) are ordinary datagram traffic and left out. 
A queue's `queued` (and `icmpq`) holds the messages of its port and, when netin waits in `psend` for room, netin's (`NetinBlocked`): the list is then one longer than the port may be. `pcount` is the count of the receivers' semaphore,
which leaves out the messages owed to receivers that were released and have not run (`Pcount`, `EchoAwaited`). A receiver that takes one lets netin go on at once (`Preceived`, `NetoutTakes`).
DG_CLEAR keeps the port in limbo (`Limbo`) from its first `freebuf` to the end of its second `sreset`, both of which may reschedule; `pcount` and `psend` fail meanwhile.
In `RemoteFile` the server's device is closed, open, or failed: after one `open` that fails it is SYSERR, which is not RCLOSED, and stays so. The server is the program in
`SUN/src/cmd/fs`, of which `Serves` is one turn of its loop and `Reply` what its handlers make of a request; that it runs and what the network does is external. A datagram in `flying` may be
lost, overtaken, executed and answered at any time, after any number of retries.

## Runs

| run | shows | size |
|---|---|---|
| `core` | nine invariants, three action properties, and that the semaphore table refines `AbsSemaphore` | 1.8 million states, about 160 s |
| `queue` | `LinksInverse`, `SearchStops`, and that the queue array refines `AbsQueue` | 3700 states, 10 s |
| `live` | `SleepersWake`, `RoundRobin` under fairness | 254 000 states, about 40 s |
| `storage` | seven invariants of ports, pools and heap, and that ports refine `AbsPort` | 1.1 million states, about 80 s |
| `tty` | types, three invariants, and that the driver refines `AbsTty` | 2.2 million states, about 60 s |
| `net` | six invariants and two action properties of driver, routing, datagrams, files and names | 2.5 million states, about 95 s |
| `kin`, `starve`, `defer`, `line`, `timed`, `block` | each a disagreement of the code with what a page or comment says, see below | seconds; `timed` 40 s |

**Bounds of `core`.** NProc = 4 gives the null process and three others: a killer, a victim and a
third who acts between the halves of a call; a queue with an order to get wrong. NSem = 2: waiting
at the wrong semaphore is distinguishable and the circular search wraps. Two priorities tell equal from
different; Quantum = 1 makes every second tick preempt; delays 1 and 2 make both relative
keys and keys of zero; MaxCount = 1 has counts of both signs; HasMsgMod = 3 instead of 256 lets
`sendf` wrap; MaxDefer = 2 has nested `stopclk`; MaxLate = 2 tells a tick late from two.

**Bounds of `queue`.** Three processes give a list a first, a middle and a last entry, two lists let an
entry move with stale links, and keys 1 and MAXINT, with what subtraction makes of
them (0 and MAXINT - 1: `KeysNearEnds`, states further on are checked but not continued), have equal keys,
a key equal to that of the tail, and deltas that reach zero.

**Bounds of `storage`.** Three processes are two that wait at one port and a third that clears it, or one killed between two others; two ports compete for
two nodes with bounds 1 and 2, so that nodes can run out; `FreeSems` 3 and 4 make the second port with and without its semaphores; two pools of three
buffers tell a buffer from one of another pool; `MaxSeq` 3 creates or clears a port twice with somebody waiting since the first time; one kill (`MaxKills`)
at any point. A heap of 7 or 8 words with requests of 1 to 3 has splitting, exact fits, blocks of one word, joining before, behind and on both sides; `NullStk` 2 lets blocks that nobody had lie above the heap.

**Bounds of `tty`.** Buffers of 3 (input), 4 (output) and 3 (echo) characters and a margin of 2 sends held back wrap within a few
keys; four keys and three calls fill each of them. Texts contain the newline that becomes two characters; reads ask for 0, 1 and 3.

**Bounds of `net`.** A ring of 3 buffers with 5 frames goes round with one damaged; one retry (`EXRETRY`). Two addresses in a table of two
entries fill it, a request for the broadcast address goes around it; two tries (`AR_RTRY`) tell the last from another; three network buffers are
one for netin and two for writers, or one of them for the ARP request; six packets and calls (`MaxInputs`) open a device, read it and fill its queue, or evict an entry that is being made. Two datagram devices with queues of
one and two ports can clash. One remote file of two processes, two tries and two datagrams under way give a late reply that crosses the next
request. Names of up to 4 letters over two letters and a table of three entries have every order of a prefix, its extension and the default.

**Workloads.** A boot chooses one of the sets of calls in `SafetyWorkloads`, and its programs make
only those. Each set puts together calls that touch the same state: kill with suspend and
messages; timeouts with sends; sleeping with kill and chprio; sleeping with deferral; every
semaphore call with kill and interrupts; next of kin. All of them have create, resume and the
clock. Interference between calls of two sets that share none is not explored by TLC; the
theorems below hold for every workload. `StorageWorkloads` and `TtyWorkloads` do the same for their runs, and `net` starts in one of its four parts,
which share no state: the modules' comments say at which calls one stands in for another.

**View.** `View` leaves out values that are overwritten before they are read: the key of an entry
on no list, `psem` of a process that does not wait, the fields of a free slot that `create` sets. TLC
therefore identifies states that differ only there. `live` uses no view.

**Deadlock** is not checked in `core` and `defer`: when all processes sleep while the clock is deferred
nobody can call `strtclk`, and at the bound `MaxDefer` of deferred ticks the model stops. Nor is it in the runs of the other modules:
their bounds on calls, frames and kills end a behaviour, and processes may all wait for a message nobody sends.

**Beyond a flaw.** Where one of the differences below destroys the state for good the model stops instead of inventing what the machine does next:
`Next` of `Tty` needs `Fits` (input, output and echo within their buffers), `FinishGetbuf` and `Preceive` need an entry in the list they take from, and `InternetNext` an ARP table that is not written beyond (`beyond`). The invariants say how far
one gets before: `InputAccounted` and `OutputAccounted` count the extra units (`over`, `bonus`) that lead there.

**Fairness** (`LiveSpec`). Programs are not obliged to do anything. The clock is strongly fair: an
interrupt is lost while a process has interrupts disabled, so only ticks that find them enabled
count, and the watchdog (`clkint.s:96-104`) stops a system that keeps them disabled for 150 ticks in a
row. What a call does after `resched` is weakly fair: nothing can take the processor from a
process inside the kernel (`WF_cont(Return)`: a process inside the kernel takes no other step). The
clock's fairness is written out with `TickDue` in place of ENABLED, which is cheaper for TLC: where
`TickDue` is false a tick changes nothing but `preempt` of a process that nobody competes with.
`live` has one priority, as a process of higher
priority may starve others by design, and positive delays, for the reason `starve` shows.

**Properties.** `TypeOK`; `ListsMatchStates`, `CountIsQueue`, `SltopIsHead`, `ReadySorted` (the
tables agree with one another); `CurrentIsHighest` and `NullEligible` (scheduling policy);
`NumprocCounts` (never too high, and exact as long as nobody has a next of kin);
`MessagesDelivered` (who left receive's wait finds a message, and nobody waits beside one); `ReleaseOnlyBySignal` (fair release), `Death` (a
killed process does not come back), `NeverEarly` (delays); `SemaphoreRefinement`; for the array
`LinksInverse` (links on and back agree and stay within the list), `SearchStops` (every search stops at the
tail at the latest, whose key never changes) and `QueueRefinement`. Each has a
mutant in `PROJECT.json`, a plausible bug that the run finds.

For storage: `RoomAccounted` and `PoolAccounted` (a list and the semaphore that counts it agree although they change in different
critical sections, through resets and kills, with the units on their way counted by process), `NodesSuffice` (nodes are conserved; psend panics only
where the bounds promise too much), `NobodyForgotten`, `BuffersInOnePlace`, `FreeListSound`, `WordsPartitioned`, `PortRefinement`.
For the tty: `InputAccounted`, `OutputAccounted`, `OutputDue` (output is never left without an interrupt to come), `TtyRefinement`.
For the network: `FramesInOrder`, `EtherDue` (no packet without a reader or an interrupt to come, no transmitter without either), `RightHost`, `AnswerReaches` (who waits for an
answer is still the one that will be woken), `PacketBuffers`, `DevicesApart`, `AcknowledgedDone` (an operation reported as done was executed as
asked), `NamesSound` (mounting changes no other name's meaning, and `nammap` ends).

Seven properties are stated in the modules and checked by no run, because the code violates them for a reason given under Differences. Each gives its counterexample
when it is added as an INVARIANT: `HasMsgIffPending` to `KernelCore.cfg`, `MarkedOnce` and `HeadersFit` to `Storage.cfg`, `OutputFits` to `Tty.cfg`, `NextBufIsNext`,
`ResolvedHasAddress` and `NextInTable` to `Net.cfg`.

`SemaphoreRefinement` maps a semaphore to its permits (its count where positive) and its queue.
Negative counts, the correction by `kill` (`kill.c:43`), the count `sdelete` leaves behind, the
process table and the scheduler are invisible in `AbsSemaphore`; what is left is that permits and
waiters never coexist, that waiters are released in order, and that a killed waiter leaves no trace.

## Differences

Found while modelling; 1, 2, 4, 8, 9 and 19 have a run.

1. **A process counted as dead twice** (`kin`). `kill` decrements `numproc` (`kill.c:26`), sends to the next of kin (`kill.c:35`), and
   only then frees the slot. If the next of kin waits for the message and has a high enough priority it runs first, and
   may kill the victim again, or the killer, so that the victim is never freed. `xdone` ("print system completion message as last
   process exits", `xdone.c:5`) is then called while processes remain. In the same way
   the stack is freed twice (`kill.c:37`), which `freemem` refuses as long as nobody was given the memory in between; `FreeListSound` holds in either case.
2. **Sleepers that never wake** (`starve`). A process that calls `recvtim(0)` in a loop is put at the head of `clockq` with
   key 0 each time, and the interrupt decrements the head's key only (`clkint.s:80-82`). The
   others' keys stand still. `sleep.2:14-15`: "causes the current process to delay for a specified time
   and then resume".
3. **A message that is not seen** (`HasMsgIffPending`). `sendf` increments the byte `phasmsg` (`sendf.c:24`); 256 times make it zero.
   `proc.h:45`: "nonzero iff pmsg is valid".
4. **Waking early** (`defer`). `strtclk` charges the deferred ticks to everybody on `clockq`, also to a process
   that went to sleep after most of them. `sleep.2:32`: "Sleep guarantees a lower bound on delay".
5. `setnok.2:23` says both arguments must be valid process ids; `setnok.c` checks only the second.
   The shell relies on that when it passes BADPID.
6. `chprio.2:31-35` warns that the ready list is not rearranged; `chprio.c` does rearrange it,
   and `ReadySorted` holds.
7. `sendf` does not wake a process in a timed receive; it sees the message only when the time is up.
8. **A read of two lines** (`line`). `ttyread` takes the first of the characters that are there without asking whether it is a NEWLINE (`ttyread.c:53`), and
   goes on to wait for more. `tty.4:43`: "Reads up to one line".
9. **A timed read without a limit** (`timed`). An ARP reply between the last timeout and the line that forgets the asker (`getpath.c:43-46`) leaves a
   message behind that ends the next timed `dgread` at once; it then waits in `preceive`. `dgram.h:36`: "timeout all reads".
10. **Ports initialized twice** (`MarkedOnce`). `mark` tests outside its mutex (`mark.c:33`); a second process that found the ports unmarked runs `pinit` over
    ports in use. `mark.2` promises 0 "if the location is already marked".
11. **A free block without room for its link** (`HeadersFit`). With an odd heap a block of one word is left; `freemem.2:18` says space is kept for the list.
12. **Output overwritten** (`OutputFits`). `writcopy`'s `sreset` counts the sends that `ttyoin` holds back (`odsend`) a second time, and frees
    waiting writers without giving them room; the ring overflows. `tty.4:54`.
13. `ttyread` resets `isem` to what it leaves; a reader that a signal had already let go then takes a character it was not due, and `icnt` becomes negative.
    NEWLINE and end-of-file are accepted into a full input buffer; a change of mode with a partial line lets typed characters overwrite it; the echo
    queue is not checked (`ttyiin.c:221`). Output held by the user stays held after a switch to raw mode.
14. **A ring out of step** (`NextBufIsNext`). The error branch of the receive interrupt (`ethinter.c:117-125`) gives the buffer back and leaves the loop without
    advancing, nor resetting the interrupt: chip and driver go on at different places.
15. A write to a host whose entry another host has displaced: `arpfind` gives the next entry to a new address whatever is in it, and a process that waited in `getpath` sends to
    the address it finds there (`RightHost` holds until the table has wrapped). `route.c:36-37` overwrites an entry that was resolved
    after the test; a late resolution of the gateway ends in a panic. A RARP reply between two tries is cleared by `recvclr` and the boot panics although the address is known.
16. `ip_in.c:50` loses the buffer of a packet for a port in limbo; `dgclose` leaves packets for the next opener. Queues for 12 packets and 10 buffers (NETQS,
    NETQLEN, NETBUFS) let idle devices keep `netin` from its next buffer, and writers that hold all others wait for a second one in `mkarp` (`mkarp.c:20`).
17. The second of two processes in `rfclose` frees a slot that was opened anew between; `rfopen` frees its slot after letting the mutex go; replies carry no number,
    so that one to an earlier request counts for the next (`AcknowledgedDone` says when: `crossed`).
18. `mount` of a prefix that is already there replaces it where it is, `mount.2` says before the last; `mount` compares `prefix` with NULLSTR where an assignment is meant (`mount.c:21-24`), so that a null pointer goes on to `strlen`.
    Prefixes that map onto each other make `nammap` loop with interrupts disabled; `NamesSound` has the condition under which it ends, which `naminit`'s table fulfils.
19. **The input process blocks** (`block`). `ip_in.c:43`: "drop instead of blocking on psend". `pcount` counts by the receivers' semaphore (`pcount.c:29`), from which `psend` has already taken a message for
    a reader that waits; until the reader runs, its message is in the queue and not in the count. After a burst of NETQLEN packets the next one passes the test, and `psend` waits for room (`psend.c:34`): nothing is received until
    the reader, a process of lower priority, runs. The same holds of `netout` (`icmp_in.c:33`). `PacketBuffers` says how bad it gets: netin waits at one port only, and always for a process that has been released.
20. **A resolved entry without an address** (`ResolvedHasAddress`). `arpfind` copies the address, then zeroes `arp_Ead` and sets `arp_dev` to -1 (`arpfind.c:33-36`), with interrupts enabled. If the host's packet comes
    between, `arp_in` resolves the entry and `arpfind` then clears it. `arp.h:46`: "Entry has been resolved to Eth. addr." `arp_in` does not touch a resolved entry again, so the host cannot be reached until it is evicted, and each
    packet for it is written to device -1 and its buffer lost (`route.c:49`).
21. **An entry behind the table** (`NextInTable`). Between `atabnxt++` and its test (`arpfind.c:28-29`) `atabnxt` may be AR_TAB; netin's `arpfind` then takes that entry and overwrites `atabsiz`, `atabnxt`, `arpsem` and `arppid`.
    `arp.h:51`: "next position in arptab to use".
22. `rfsend` opens the server's device when `Rf.device` is RCLOSED (-1). When that fails `Rf.device` is SYSERR (`kernel.h:33`: MINLONG), which no later call takes for closed: remote files fail for good.
23. `create` and `chprio` accept priorities above MAXINT, with which `insert` walks past the tail of the ready list (`insert.c:20`); the models assume there are none (`KeysAssumption`).

## Proofs

`KernelProofs` proves, for every NProc, NSem, Quantum, set of priorities, delays and workloads within the
named assumptions (`NProcAssumption`, `NSemAssumption`, `QuantumAssumption`, `KeysAssumption`, `BoundsAssumption`):

| theorem | says |
|---|---|
| `TypeCorrect` | `Spec => []TypeOK` |
| `ListsCorrect` | `Spec => []ListsMatchStates` |
| `NullCorrect` | `Spec => []NullEligible` |
| `CountsCorrect` | `Spec => []CountIsQueue` |
| `ReadyOrderCorrect` | `Spec => []ReadySorted` |
| `HighestRuns` | `Spec => []CurrentIsHighest` |
| `SltopCorrect` | `Spec => []SltopIsHead`: also that no sleeper's key is ever negative |
| `NumprocCorrect` (in `CallProofs`) | `Spec => []NumprocCounts` |
| `DeathCorrect` (in `CallProofs`) | `Spec => Death` |
| `SemaphoresCorrect` (in `CallProofs`) | `Spec => SemaphoreRefinement`: every step is one of `AbsSemaphore` or a stutter |
| `ReleaseCorrect` (in `CallProofs`) | `Spec => ReleaseOnlyBySignal` |
| `MessagesCorrect` (in `CallProofs`) | `Spec => []MessagesDelivered` |
| `DelaysCorrect` (in `CallProofs`) | `MaxLate > 0 => (Spec => NeverEarly)` |

The first seven follow from one inductive invariant, `IInv`, which the others extend. None of the seven is inductive alone:

- that a process is on the list of its state needs that `signal` finds somebody in the queue when the count is
  negative (`CountIsQueue`), or it would take from an empty list;
- that `resched` finds a process needs that the null process is never elsewhere, which needs that no call
  names it, the continuation of a `kill` included (`ContTyped`), and that it is on
  the ready list whenever it does not run (`ListsMatchStates`);
- that the clock interrupt decrements a key of `clockq` and not of the ready list needs that `sltop` follows the head
  of the sleep list (`SltopGood`);
- `CountIsQueue` needs that a process is in one queue once, or killing it would remove too little;
- that the ready list ascends needs that the key of every ready process is its priority (`Ordered`): `chprio` writes the
  priority first and the key only when it inserts the process anew;
- that nobody ready is above the running process (`Highest`) holds between calls only: `resched` restores it from the order of the list,
  because it takes the last one (`LastAscends`), and so each call that readies somebody has to end in it;
- that `sltop` is the head with a key that is not negative (`DelaysGood`) needs that a search of `insertd` stops
  where the key it has left is at most the next one (`DeltaPosKeys`), and that `wakeup` takes all entries
  whose key is not positive.

The argument goes bottom up. `ListLemmas` says what `InsertAt`, `RemoveAt`, `SubSeq` and `Front` do to
the elements of a list without repetitions. `KernelProofs` begins with `Good(d, L)`, that the dispatcher's part of the
state is right but for the processes in `L`, which are on no list at the moment, and `Settled(d)`, that it is right and somebody
runs; it shows how each routine of `KernelState` takes one to the other (`ReadyGood`, `ReschedGood`,
`UnsleepGood`, `SleepGood`, `WakeupSettled`, …). Then it has one lemma `<Action>Step` for each action,
`InitIInv`, `NextIInv`, and the theorems.

`CallProofs` adds four arguments to `IInv`. The first is `CountInv`: numproc and the number of processes in the middle of a kill (`Killing`) together are at most
the number of living processes, because a kill that handed the processor over has counted its victim as dead before freeing it. It is not an equality: a
victim of two kills is freed once, and a killer that is itself killed and whose slot is used again never finishes (`BornCounted`).
Without next of kin no kill is ever interrupted, and the equality holds. The step lemmas of `KernelProofs` say who is born and who dies (`SameFree`, `Dies`, `Born`); `BirthsAndDeaths` puts them together, and `DeathCorrect` follows.

The refinement `SemaphoresCorrect` needs `IInv` at each step: the abstract queue of a semaphore is the model's list, and that `signal` takes its head, `kill`
its one occurrence and a reset all of it is true of states in which `CountIsQueue` and `ListsMatchStates` hold. Each call that touches a semaphore has a lemma that maps
it to an operation of `AbsSemaphore`; the others leave counts, queues and states alone. `ReleaseCorrect` reads the same lemmas the other way: who is gone from a queue, and who of it
is left.

`MessagesCorrect` rests on `MsgInv`: a process whose `receive` waits has no message unless `sendf` is among the calls, one whose `receive` is to go on has one. It is carried through
by who moves to which state (`Moves`, `Others`, `Wakes`, `Joins` in `KernelProofs`): a step that takes a process out of `recv` or `trecv` is a send to it, its kill or its time-out.

`DelaysCorrect` rests on `OnTime`: as long as nobody calls `stopclk` no tick is deferred, and what the history `owed` says of a sleeper is never more than the sum of the keys up to its own on
the delta list (`Owing`, with the sums as in `Sums`). `insertd` splits a key and leaves all sums behind it alone, `unsleep` adds
the key of the one it takes out to the next, and the clock interrupt takes one from the first and so from every sum. The hypothesis `MaxLate > 0` is about the history: with
no room to record lateness `owed` never shows that a tick came after the last.

`MemoryProofs` proves, for every length of the heap and every set of requests (`MemoryAssumption`):

| theorem | says |
|---|---|
| `FreeListCorrect` | `MemorySpec => []FreeListSound` |
| `WordsCorrect` | `MemorySpec => []WordsPartitioned` |
| `NoHonestRefusal` | a program that gives back what it was given is never refused: `Free`'s guard only concerns `FreeWrong` |

The invariant is `Sound`, the free list's order with gaps, with `Partition`, stated on words: a word is free, or in exactly one block handed out. The
gaps are needed: without them joining with one neighbour on each side would not restore the order. `ShrinkSound`, `RemoveSound`
and `JoinSound` say for each list operation that it keeps the order and which words the result covers; `BeforeIsPrefix` that the blocks below an address are a beginning
of the list, so that `freemem`'s walk and the model's count agree; `FreedSound` puts them together for both ways `freemem` goes. `FreeWrong` ends the claim of `Partition`, never that of `Sound`.

`QueueProofs` proves, for every number of processes and lists and every set of keys (`ProcsAssumption`, `QueuesAssumption`, `KeyAssumption`):

| theorem | says |
|---|---|
| `QueueTypeCorrect` | `Spec => []TypeOK`: also that no key is ever negative, although `insertd` takes one from another |
| `LinksCorrect` | `Spec => []LinksInverse` |
| `SearchesEnd` | `Spec => []SearchStops` |
| `QueueArrayCorrect` | `Spec => QueueRefinement`: every step is a step of `AbsQueue` or a stutter |

The invariant adds to `LinksInverse` that entries are given to lists in pairs (`Given`), that a process is on a list that was given out
(`HomesGiven`), and that processes' keys are at most MAXINT and tails' keys equal it (`KeysBounded`). `WalkSteps` says
that the walk the searches make exists; `WalkStays` that it is on its list as long as it has not come to the tail, and can be followed back;
`WalkEnds` that it comes there: a walk longer than the table would meet an entry twice, and going back from both would lead to the head
from a process (pigeonhole). So `insert` stops at the tail at the latest, and so does `insertd`, whose key only shrinks while it goes on and stays a key
(`InsertdStops`). `LinkInKeeps` and `UnlinkKeeps` carry the links through the assignments. With a key above
MAXINT the argument fails where the code does: at the tail.

The refinement needs one thing more, `Reached`: every process on a list is one the links from its head lead to. `LinksInverse` alone would allow a
ring of processes beside the list, which `dequeue` could take apart and no search would find. `FollowedOnce` says that the links determine the list:
a sequence they lead through from head to tail is what `ListAt` finds. It is used in the state after a step, where `PlaceLists` and `TakeLists`
show that the links lead through the old list with one process put in or taken out, and through the other lists as before.
`InsertStopsThere` and `InsertdStopsThere` say that the searches of the links stop where `AbsQueue` places the process,
`SameRemainders` that insertd's key is reduced to the same there, and `ListEnds` what getfirst and getlast find.

`PortProofs` proves, for every number of processes, pools, buffers, ports, nodes and semaphores, every set of bounds and every workload (`ClientsAssumption`,
`PoolAssumption`, `PortsAssumption`):

| theorem | says |
|---|---|
| `PoolCorrect` | `Spec => []PoolAccounted` |
| `RoomCorrect` | `Spec /\ []MarkedAtOnce => []RoomAccounted` |
| `NobodyForgottenCorrect` | `Spec /\ []MarkedAtOnce => []NobodyForgotten` |
| `PortsCorrect` | `Spec /\ []MarkedAtOnce => PortRefinement`: every step is one of `AbsPort` or a stutter |
| `NodesCorrect` | `Spec /\ []MarkedAtOnce => []NodesSuffice` |
| `BuffersCorrect` | `Spec /\ []MarkedAtOnce => []BuffersInOnePlace` |
| `MarkedAtOnceCorrect` | where no program marks another location (`NoOtherMarks`), `Spec => []MarkedAtOnce` |

`Spec` here is that of `Ports`, pools included; the run `storage` checks it next to the heap, which shares no variable with it: a step of
`StorageSpec` is one of `Spec` or leaves its variables alone.

`MarkedAtOnce` says that `pinit` ran at most once and nobody stands between `mark` and `pinit`. It is a hypothesis because the code does not guarantee it (difference 10):
a second `pinit` frees every port in one step, and a clearing that stands between its two `sreset`s at that moment goes on on the port that was created
in the slot since: it resets the receivers' semaphore to 0 although messages may be there, and `RoomAccounted` fails. `MarkedAtOnceCorrect` shows when it holds: the mutex of `mark` is free whenever a
program comes to it, unless a process was preempted while it marked something else.

`PoolInv` has, for each pool, the semaphore's count and the number of processes in `Taking` and `Giving` (in `getbuf`, waiting or not; between `freebuf`'s list and its
signal) together equal to the length of the list. That whoever stands in a pool's queue is in `getbuf` for this pool (`PoolRight`) makes kill's correction of
the count right; the argument counts processes with `Having` and moves one at a time (`HavingMoves`), because each step changes one process's `cont`.
A clearing gives back many buffers in one step: `UnitPerBuffer` says that list and count have risen together, and `DisposeKeeps` that it holds however
far the loop has come, by the least index at which it would fail.

`PortInv` adds to it, for each port (`PortRight`): who is in a queue is in a call for this port, of its present use if it is open (`Waiting`); what the rest of a call in the middle
relies on (`RestOk`): a call is never from a later use, a port that is being cleared has begun a new one, and a clearing between its two `sreset`s finds the
first semaphore as it left it; that only one process clears a port (`OneClears`); and the account (`Room`) of the open ones. In limbo the account does
not hold, and nobody may rely on it: calls that come back see an older `ptseq` (`Older`). Where the clearing ends, no call of the new use exists, both semaphores
are fresh and the list is empty, and `Room` holds anew. For the refinement a sender that was let go must find room: it is one of the account's senders, and
nothing else in it is negative.

`NodesInv` adds that each port's messages are within its bound, and that there are none in a port that is free or has lost its senders' semaphore
(`Fits`). The sums over all ports are the sizes of sets of pairs of port and number (`Shares`), so that moving one port's number moves the sum as much (`SharesMove`). A sender
that did not wait or was let go finds room in its port (`RoomLeft`); if there is no node all the same, its port promises one message more than it has and every other port no less than it has, so together they promise more than MAXMSGS.

`BuffersInv` says where the buffers are: each place (a pool's list, a port's messages, a process) keeps a set of them (`Kept`), no list has one twice
(`Once`), no two places keep the same (`Apart`), and one that is nowhere is in doubt (`Somewhere`). A step moves a set of buffers from one place to others (`ApartMoves`, `BuffersMove`): one of them in `getbuf`,
`freebuf`, `psend` and `preceive`, and in a clearing as many as the loop of `_ptclear` gets through, each to its own pool's list (`DisposeGains`, which takes the least turn of the loop at which it would
fail). A clearing that stops half way keeps the rest of the list (`Undisposed`); if its process is killed there, the rest becomes doubtful in the same step, and stays so, because nobody takes a port out of limbo but the process that clears it.

`NetProofs` proves, for every number of processes, hosts, buffers, frames, table entries, devices, queues, ports, files, tries, letters and lengths of names (`NetProcsAssumption`,
`EtherAssumption`, `RouteAssumption`, `DatagramAssumption`, `RemoteAssumption`, `NameAssumption`):

| theorem | says |
|---|---|
| `FramesInOrderCorrect` | `NetSpec => []FramesInOrder` |
| `EtherDueCorrect` | `NetSpec => []EtherDue` |
| `RightHostCorrect` | `NetSpec => []RightHost` |
| `DevicesApartCorrect` | `NetSpec => []DevicesApart` |
| `AnswerReachesCorrect` | `NetSpec => []AnswerReaches` |
| `PacketBuffersCorrect` | `NetSpec => []PacketBuffers` |
| `AcknowledgedDoneCorrect` | `NetSpec => AcknowledgedDone` |
| `NamesCorrect` | `NetSpec => NamesSound` |

`ContTyped` is common to all but the name space: in each part a process is only at the places of that part's calls, with an index and an address of the right kind. Each part then has an inductive invariant of its own.

- *The ring* (`RingInv`). There is an `x` such that the frames from `lastread + 1` to `x` are in the queue and those from `x + 1` to `arrived` in the ring, where the driver has not looked. Frame
  `f` is in buffer `(f - 1) % ENUMRCV` (`Slot`); at most ENUMRCV are outstanding, so that no two are in one buffer (`SlotsApart`), the links of the queue lead from each to the next, and every other buffer is the chip's.
  It holds until a frame comes damaged (`skewed`), because then difference 14 begins.
- *Sleepers* (`ReaderInv`, `SenderInv`). The reader's semaphore is a mutex over the call's places (`Mutex`: at most one has it, nobody while its count is 1, and who waits is in its queue), so only one process can be
  asleep and `etrpid` names it; whoever frees the transmitter signals, so its count is below 1 only while it is taken or somebody has been let go.
- *The right host* (`RightInv`). `reused` says that netin's `arpfind` gave an entry in use to another address; that a process evicts one is harmless, since only one process at a time uses entries (`TableMutex`).
  Until then an entry that is resolved has the Ethernet address of its host or none (`HostsRight`), except between `CopyIad` and `ClearEad`, where it may have that of the host it was for before (`Unfilled`); the process that
  fills it does not look at it until it is cleared, and what `arp_in` writes into it after `CopyIad` is right for the host it is for. A process keeps its index in the table (`PointsIn`), which `atabnxt` leaves only between `Advance`
  and `Rewind` (`NextRight`), and once it has put the address into the entry the entry keeps it (`PointsRight`).
- *Devices* (`DgramInv`). Queues and UDP ports of open devices are apart; a process that waits with a device still has it open (`OwnersInv`). `udpnxtp`
  finds a port because Ndg devices cannot be bound to Ndg + 1 ports (`PortFree`, the pigeonhole principle). `UdpPorts` is not empty because its least port stands for ULPORT, where `udpnxtp` begins.
- *Answers* (`AnswerInv`). Only one process is between the `wait` and the `signal` of `nmutex` (`TableMutex`), so `arppid` and `arpwant` are that one's; until the machine knows its address netout runs alone (`BootInv`), so `rarppid` is its.
- *Network buffers* (`RoomInv`, `PoolInv`). `RoomInv` bounds the queues: netin is one process, so at most one queue is one longer than its port may be, and then a receiver of that port has been released
  and not run (`Receivers`, `EchoAwaited`), because the test of `pcount` can only pass then. `PoolInv` is the account: the count of the pool, the buffer of netin (it has one or waits for one, unless it waits in `psend`, where its buffer is counted with the queue: `Handled`),
  what the processes at each place of a call have or wait for (`Weight`, `Cost`) and what lies in queues or was lost (`Rest`)
  add up to NETBUFS; a step changes the weight of its own process, one queue and the count by amounts that cancel, and `PacketBuffers` follows because those who wait for a buffer
  (`PoolQueue`) are as many as the count is below zero. NPROC being finite is an assumption (`NetProcsAssumption`).
- *Remote files* (`RemoteInv`). Whoever waits for a reply has the mutex `rmutex` alone (`PacketMutex`), so the packet is its; and if nothing was under way when it began, every request under way is
  the packet's, and every reply that is no error follows from `served` (`OnlyOurs`): it is an invariant of losing, serving and delivering each datagram and of sending again.
- *Names* (`NamesInv`). The table holds entries, and no prefix twice. The first entry that fits a name decides what `namrepl` makes of it (`FirstFits`), so one that does not fit can be put in or taken out, and
  the others move, without a change of the name's meaning (`MeaningKept`). `nammap` cannot stay in the name space where names only get longer: after `k` rounds in it the name has more than `k` letters, and fewer than NAMLEN (`NammapEnds`).

`TtyProofs` proves, for every length of the three buffers and every margin, every finite number of processes, every set of texts and counts
of a call, every option, and every number of keys and errors (`TtyAssumption`: texts are not empty, processes are finitely many, and fewer sends are kept back than the output buffer is long):

| theorem | says |
|---|---|
| `TtyTypeCorrect` | `Spec => []TypeOK` |
| `InputCorrect` | `Spec => []InputAccounted` |
| `OutputCorrect` | `Spec => []OutputAccounted` |
| `OutputDueCorrect` | `Spec => []OutputDue` |
| `TtyRefines` | `Spec => TtyRefinement` |

The inductive invariant is `TtyInv`. A unit of a semaphore that was signalled while somebody waited is nowhere in the control block: it is with the process that was let go
and has not run yet. So an invariant about counts and rings alone is not inductive, and `TtyInv` has five parts:

- the control block is good (`Good`): the counts of both semaphores are those of their queues, the cursor and both ends of each ring are places in it, and the ends are as far apart as the
  counters say, modulo the ring's length;
- what a call in the middle holds makes sense (`ContGood`): a read has room left for what it waits for, a write has characters left, and nobody else has any;
- two accounts, of `isem` (`InAccount`) and of `osem` (`OutAccount`): count plus *all* processes between wait and use of the semaphore, waiting or let go, plus what the rings hold is
  constant but for the extra units (`over`, `bonus`). Who waits in a queue is in a call that waits for this semaphore, so the processes let go are those left over (`OthersCount`), and
  the accounts turn into `InputAccounted` and `OutputAccounted`;
- `OutputDue` itself.

Each step moves one process from one place to another (`ThoseChange`) and the semaphore by as much; `WaitedSound`, `SignaledSound` and the lemmas after them say what wait,
signal and sreset do to a count and a queue that agree. The loops of `ttyread`, `ttywrite` and `eputc` (`TakeAll`, `PutAll`, `Eputc`) are recursive functions, and the accounts are
carried through them to the least index at which they would fail; `writcopy` (`Writcopied`) is one function over the ring.

The proof found that an earlier form of `OutputAccounted` was false: it said that nobody waits for room while the queue is empty (as long as there is no extra unit). With more writers than
the queue is long it is: the first are let go by the last interrupts and have not run when the queue is empty, and the others still wait. The run had too few processes. The property
now says that such a writer is there, and that is what keeps the output moving.

`TtyRefines` maps the rings to streams: what `ready`, `line` and `out` are is a window of a ring (`Window`), from an end and as long as a counter. The
invariant gives where the other end is, modulo the length. Every step is then one of four moves, and each is proved of lists once:

- a key stores at most one character behind the window, moves the border between the finished characters and the line, or forgets the end of the line (`Edits`, `EditEnters`); its echo may start the transmitter,
  which takes the oldest character (`Moves`, `Leaves`, `LeavesSending`);
- a reader only takes characters from the front, however often it loops (`ReadsOff`, `ReadEnters`): that it took as many as `icnt` shrank by follows from the other end, which stayed, and the invariant;
- the transmitter takes one character or none (`TakenSending`);
- a writer's loop (`On`): after any number of rounds the ring holds what it had and then the first `k` characters of the text (`Streams`), of which at most one has left, because who starts the transmitter finds it started in the next
  round; what the process has left is the rest of the text. The claim holds when the ring overflows meanwhile, for its last OBUFLEN characters, so `OnHands` needs `Fits` at the end of the loop only.
  `writcopy` (`WritcopiedPuts`) is the same without a loop, for which a text is mapped in two parts (`MappedParts`).

`TtyRefinement` asks nothing of a step that writes a ring over or reads an empty one (`Fits'`): those are differences 12 and 13, and the streams have no meaning after them.

Only model-checked: the two liveness properties, which are out of the prover's reach, as everything with ENABLED or fairness is. No module
declares a RECURSIVE operator; recursion (`Remaining`, `ReadyAll`, `NammapIn`, `TakeAll`, `PutAll`, `Eputc`) is written as recursive functions, and
the proofs use what holds for each index; where one needs the function at all indices (`WalkSteps`, `LeftSteps`, `InsertdStops`), it takes the least index that fails.

## Not modelled

- The contents of messages, stacks, registers, names of processes; the context switch.
- `kill`'s closing of devices (`kill.c:29-34`): `pdevs` is filled by `setdev` only, for commands the shell redirects.
- The time of day and the watchdog's counter of the clock interrupt.
- Keys above MAXINT, with which `insert` would walk past the tail (`KeysAssumption`, `KeyAssumption`). The kernel does not check them.
- `getprio`, `getpid`, `scount`, `pcount` as calls of programs, which only read; `userret`, which is `kill(getpid())`; `sleep`, which is a sequence of `sleep10` calls.
- `getdmem` and `mkdpool`, which take from a counter that never comes back; the limit of MAXMARK marks; MMU and page maps.
- Tty: transmission errors and breaks, the message `INTRMSG` beyond whom it was sent to, killed callers, the device's registers.
- Ethernet: registers, lengths, broadcast filter, statistics, and `ethcntl`'s restart, which nothing calls.
- Network: checksums, headers, the contents of packets and datagrams, `dgparse`'s text; `getnet`, the same loop as `sndrarp` for the network's number.
- Remote files: the data, and `rfgetc`, `rfputc`, which are a read and a write of one byte. Names: `namopen` and the three calls like it, which map a name and call the device.
- Everything in the table of components whose status is `not_modelled` in `PROJECT.json`: code without shared state (libraries, the shell's commands, domain names, rwho,
  the configuration generator), programs of the Unix host, machine support in assembly, and the MECB copy of the kernel. They make up nine tenths of the repository's
  lines; what is modelled is the kernel of `SUN/src/sys` where processes, interrupts and devices meet.

## Plan

What is left, the most important first.

1. A run that composes `Ether` and `Datagram`, with frames that are datagrams, when a smaller model of both makes it feasible.
2. `getnet`, and datagram sockets' `dgparse`, when contents of packets are modelled.
