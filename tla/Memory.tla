-------------------------------- MODULE Memory --------------------------------
(***************************************************************************)
(* The heap: getmem, getstk, freemem, freestk on the list of free blocks.  *)
(* Addresses and lengths are in words of four bytes from the end of the    *)
(* program, and a block is [at, len].  Each call is one critical section.  *)
(***************************************************************************)
EXTENDS Integers, FiniteSetsExt, SequencesExt

CONSTANTS
  HeapLens,   (* lengths the heap may have at boot, in words                *)
  NullStk,    (* NULLSTK: words behind the heap, up to maxaddr              *)
  Requests,   (* lengths programs ask for, in words                         *)
  MaxTaken    (* bound: blocks taken at one time                            *)

ASSUME MemoryAssumption ==
  HeapLens \subseteq Nat \ {0} /\ Requests \subseteq Nat \ {0} /\ NullStk \in Nat
  /\ MaxTaken \in Nat

VARIABLES
  memlist,    (* the free blocks as they are linked                         *)
  heap,       (* length of the heap                                         *)
  taken,      (* history: the blocks programs were given and not given back,*)
  honest      (* kept as long as no program gave back what it did not have  *)

memVars == <<memlist, heap, taken, honest>>

Block(at, len) == [at |-> at, len |-> len]
RoundMb(n) == 2 * ((n + 1) \div 2)            \* roundmb: up to the size of a block's header
Top(b) == b.at + b.len

Hand(t) == taken' = IF honest THEN taken \cup {t} ELSE {}
Fits(n) == {i \in 1 .. Len(memlist) : memlist[i].len >= n}

\* getmem: the front of the first block that is long enough.
Getmem(request) ==
  LET n == RoundMb(request) i == Min(Fits(n)) b == memlist[i] IN
  /\ Fits(n) # {} /\ Cardinality(taken) < MaxTaken
  /\ memlist' = IF b.len = n THEN RemoveAt(memlist, i)
                ELSE [memlist EXCEPT ![i] = Block(b.at + n, b.len - n)]
  /\ Hand([ret |-> b.at, ask |-> request, stack |-> FALSE])
  /\ UNCHANGED <<heap, honest>>

\* getstk: the back of the last block that is long enough; it returns the highest word.
Getstk(request) ==
  LET n == RoundMb(request) i == Max(Fits(n)) b == memlist[i] IN
  /\ Fits(n) # {} /\ Cardinality(taken) < MaxTaken
  /\ memlist' = IF b.len = n THEN RemoveAt(memlist, i)
                ELSE [memlist EXCEPT ![i].len = @ - n]
  /\ Hand([ret |-> Top(b) - 1, ask |-> request, stack |-> TRUE])
  /\ UNCHANGED <<heap, honest>>

\* Mutant: freestk without the "+ sizeof(int)".
ReturnedShifted(t) == Block(IF t.stack THEN t.ret - RoundMb(t.ask) ELSE t.ret, RoundMb(t.ask))

\* What is given back: freemem(block, size), or freestk(p, len), which computes the block.
Returned(t) == Block(IF t.stack THEN t.ret - RoundMb(t.ask) + 1 ELSE t.ret, RoundMb(t.ask))

Before(b) == Cardinality({i \in 1 .. Len(memlist) : memlist[i].at < b.at})

\* Mutant: the block is not compared with the one behind it.
RefusedLeft(b) == Before(b) > 0 /\ Top(memlist[Before(b)]) > b.at

\* freemem answers SYSERR when the block overlaps a free one.
Refused(b) ==
  \/ Before(b) > 0 /\ Top(memlist[Before(b)]) > b.at
  \/ Before(b) < Len(memlist) /\ Top(b) > memlist[Before(b) + 1].at

\* A block that touches the one behind it is joined with it.
Joined(l, k) ==
  IF k >= 1 /\ k < Len(l) /\ Top(l[k]) = l[k+1].at
  THEN RemoveAt([l EXCEPT ![k].len = @ + l[k+1].len], k + 1) ELSE l

\* freemem: into the list by address, joined with the block before and the block behind.
Freed(b) ==
  LET k == Before(b)
  IN  IF k > 0 /\ Top(memlist[k]) = b.at
      THEN Joined([memlist EXCEPT ![k].len = @ + b.len], k)
      ELSE Joined(InsertAt(memlist, k + 1, b), k + 1)

Free(t) ==
  /\ t \in taken /\ ~Refused(Returned(t))
  /\ memlist' = Freed(Returned(t))
  /\ taken' = taken \ {t}
  /\ UNCHANGED <<heap, honest>>

\* A program gives back what it no longer has, or never had: freemem looks at the address,
\* which may be anywhere up to maxaddr, and not at where the block ends.
FreeWrong(b) ==
  /\ ~Refused(b)
  /\ memlist' = Freed(b)
  /\ honest' = FALSE /\ taken' = {}
  /\ UNCHANGED heap

MemoryNext ==
  \/ \E request \in Requests : Getmem(request) \/ Getstk(request)
  \/ \E t \in taken : Free(t)
  \/ \E at \in 0 .. heap + NullStk, request \in Requests : FreeWrong(Block(at, RoundMb(request)))

MemoryInit ==
  /\ heap \in HeapLens
  /\ memlist = <<Block(0, heap)>> /\ taken = {} /\ honest = TRUE

MemorySpec == MemoryInit /\ [][MemoryNext]_memVars

------------------------------------------------------------------------------
\* freemem links a block in or refuses it: the free list ascends and its blocks neither
\* overlap nor touch, whatever programs give back.  That it stays in the heap is a matter of
\* what they give back: then WordsPartitioned says so.
FreeListSound ==
  /\ \A i \in 1 .. Len(memlist) : memlist[i].len > 0
  /\ \A i, j \in 1 .. Len(memlist) : i < j => Top(memlist[i]) < memlist[j].at

\* As long as programs give back what they were given, every word is free or in exactly
\* one block that was handed out: nothing is handed out twice and nothing is lost.
Words(b) == b.at .. Top(b) - 1
FreeWords == UNION {Words(memlist[i]) : i \in 1 .. Len(memlist)}
WordsPartitioned == honest =>
  /\ \A t \in taken : Words(Returned(t)) \cap FreeWords = {}
  /\ \A t, u \in taken : t # u => Words(Returned(t)) \cap Words(Returned(u)) = {}
  /\ FreeWords \cup UNION {Words(Returned(t)) : t \in taken} = 0 .. heap - 1

\* freemem.2:18 "to guarantee that sufficient space is available in each block to link it
\* onto the free list": a free block has room for its link and its length.
HeadersFit == \A i \in 1 .. Len(memlist) : memlist[i].len >= 2
================================================================================
