------------------------------- MODULE Malloc -------------------------------
(***************************************************************************)
(* The explicit free list allocator of malloc/malloc-lab/mm.c, with the    *)
(* memory it gets from memlib.c and the calls of a driver (mdriver.c).     *)
(*                                                                         *)
(* The heap is an array of 8-byte words and every address is the index of  *)
(* a word: headers, footers and list links are words of it, as in the      *)
(* code, so a block that overlaps another corrupts it here too.  A state   *)
(* of the allocator is one record, which each function takes and returns.  *)
(***************************************************************************)
EXTENDS Integers

CONSTANTS
  MaxHeap,    \* words of memory: MAX_HEAP
  Chunk,      \* words the heap grows by: CHUNKSIZE
  Ids,        \* the blocks a trace works with, numbered from 1
  Requests    \* words a block is asked for; 0 is a legal request

ASSUME MallocAssumption ==
  /\ MaxHeap \in Nat /\ Chunk \in Nat /\ Chunk >= 4
  /\ MaxHeap >= Chunk + 8
  /\ Ids \subseteq Nat \ {0}
  /\ Requests \subseteq Nat

VARIABLES
  heap,       \* [mem, brk, free_listp, ret]; ret is what a call returned
  live,       \* what the driver holds: for each id, [bp, size]
  stale       \* history: mm_init() has found a free list it follows astray

mallocVars == <<heap, live, stale>>

NoBlock == 0                      \* NULL: word 0 is padding, never a block
Absent == [bp |-> NoBlock, size |-> 0]
Addr == 0..(MaxHeap - 1)

(* The driver fills block i with its tag, which looks like nothing else.   *)
Tag(i) == -i
-----------------------------------------------------------------------------
(* The macros.  A size is an even number of words: its low bit is free.    *)
PACK(size, alloc) == size + alloc
GET_SIZE(h, p) == h.mem[p] - (h.mem[p] % 2)
GET_ALLOC(h, p) == h.mem[p] % 2
HDRP(bp) == bp - 1
FTRP(h, bp) == bp + GET_SIZE(h, HDRP(bp)) - 2
NEXT_BLKP(h, bp) == bp + GET_SIZE(h, HDRP(bp))
PREV_BLKP(h, bp) == bp - GET_SIZE(h, bp - 2)
PRED(h, bp) == h.mem[bp]
SUCC(h, bp) == h.mem[bp + 1]

PUT(h, p, val) == [h EXCEPT !.mem[p] = val]
Return(h, bp) == [h EXCEPT !.ret = bp]

(* Header and footer of a block of this size.                              *)
Mark(h, bp, size, alloc) ==
  [h EXCEPT !.mem[bp - 1] = PACK(size, alloc),
            !.mem[bp + size - 2] = PACK(size, alloc)]

MaxOf(x, y) == IF x > y THEN x ELSE y
MinOf(x, y) == IF x < y THEN x ELSE y

(* The block size for a request: two words of overhead, even, at least 4.  *)
Adjust(size) == IF size <= 2 THEN 4 ELSE 2 * ((size + 3) \div 2)
-----------------------------------------------------------------------------
mem_sbrk(h, words) ==
  IF h.brk + words > MaxHeap
    THEN Return(h, -1)
    ELSE Return([h EXCEPT !.brk = @ + words], h.brk)

(* Mutant of insert_free_block: the old head does not point back.          *)
InsertOneWay(h, bp) ==
  IF bp = h.free_listp
    THEN h
    ELSE [h EXCEPT !.mem[bp + 1] = h.free_listp, !.mem[bp] = NoBlock,
                   !.free_listp = bp]

insert_free_block(h, bp) ==
  IF bp = h.free_listp
    THEN h
    ELSE LET h1 == [h EXCEPT !.mem[bp + 1] = h.free_listp, !.mem[bp] = NoBlock]
             h2 == IF h.free_listp # NoBlock
                     THEN PUT(h1, h.free_listp, bp) ELSE h1
         IN  [h2 EXCEPT !.free_listp = bp]

remove_free_block(h, bp) ==
  LET h1 == IF PRED(h, bp) # NoBlock
              THEN PUT(h, PRED(h, bp) + 1, SUCC(h, bp))
              ELSE [h EXCEPT !.free_listp = SUCC(h, bp)]
  IN  IF SUCC(h1, bp) # NoBlock
        THEN PUT(h1, SUCC(h1, bp), PRED(h1, bp)) ELSE h1

(* Mutant of coalesce: the block before is not looked at.                  *)
CoalesceForward(h, bp) ==
  LET next == NEXT_BLKP(h, bp)
      size == GET_SIZE(h, HDRP(bp))
      merged == Mark(remove_free_block(h, next), bp,
                     size + GET_SIZE(h, HDRP(next)), 0)
      h1 == IF GET_ALLOC(h, HDRP(next)) = 0 THEN merged ELSE h
  IN  Return(insert_free_block(h1, bp), bp)

(* Joins the block at bp with the free ones beside it, and lists it.       *)
coalesce(h, bp) ==
  LET next == NEXT_BLKP(h, bp)
      prev == PREV_BLKP(h, bp)
      nextFree == GET_ALLOC(h, HDRP(next)) = 0
      prevFree == GET_ALLOC(h, FTRP(h, prev)) = 0
      h1 == IF nextFree THEN remove_free_block(h, next) ELSE h
      h2 == IF prevFree THEN remove_free_block(h1, prev) ELSE h1
      size == GET_SIZE(h, HDRP(bp))
              + (IF nextFree THEN GET_SIZE(h, HDRP(next)) ELSE 0)
              + (IF prevFree THEN GET_SIZE(h, HDRP(prev)) ELSE 0)
      at == IF prevFree THEN prev ELSE bp
      h3 == IF nextFree \/ prevFree THEN Mark(h2, at, size, 0) ELSE h2
  IN  Return(insert_free_block(h3, at), at)

extend_heap(h, words) ==
  LET size == words + (words % 2)
      h1 == mem_sbrk(h, size)
      bp == h1.ret
  IN  IF bp = -1
        THEN Return(h1, NoBlock)
        ELSE coalesce(PUT(Mark(h1, bp, size, 0), bp + size - 1, PACK(0, 1)), bp)

MostBlocks == MaxHeap \div 4      \* no heap has more

(* The free list as the loops follow it: its n-th block, NoBlock past it.  *)
FreeList(h) ==
  LET nth[n \in 0..MostBlocks] ==
        LET before == nth[n - 1]
        IN  IF n = 0 THEN h.free_listp
            ELSE IF before = NoBlock THEN NoBlock ELSE SUCC(h, before)
  IN  nth

(* Best fit; of equals the first.                                          *)
find_fit(h, asize) ==
  LET list == FreeList(h)
      size(n) == GET_SIZE(h, HDRP(list[n]))
      fits == {n \in DOMAIN list : list[n] # NoBlock /\ asize <= size(n)}
      best(n) == \A m \in fits :
                    size(n) < size(m) \/ (size(n) = size(m) /\ n <= m)
  IN  IF fits = {} THEN NoBlock ELSE list[CHOOSE n \in fits : best(n)]

(* Mutant of place: a remainder of two words is split off.                 *)
PlaceSplitsSmall(h, bp, asize) ==
  LET size == GET_SIZE(h, HDRP(bp))
      h1 == remove_free_block(h, bp)
      rest == bp + asize
  IN  IF size - asize >= 2
        THEN insert_free_block(
               Mark(Mark(h1, bp, asize, 1), rest, size - asize, 0), rest)
        ELSE Mark(h1, bp, size, 1)

(* Takes the free block at bp, and lists what is left if a block fits.     *)
place(h, bp, asize) ==
  LET size == GET_SIZE(h, HDRP(bp))
      h1 == remove_free_block(h, bp)
      rest == bp + asize
  IN  IF size - asize >= 4
        THEN insert_free_block(
               Mark(Mark(h1, bp, asize, 1), rest, size - asize, 0), rest)
        ELSE Mark(h1, bp, size, 1)
-----------------------------------------------------------------------------
(* Mutant of mm_init: no word of padding in front of the prologue.         *)
InitUnpadded(h) ==
  LET h1 == [h EXCEPT !.brk = 3, !.mem[0] = PACK(2, 1), !.mem[1] = PACK(2, 1),
                      !.mem[2] = PACK(0, 1)]
      h2 == extend_heap(h1, Chunk)
      h3 == extend_heap(h2, 4)
      h4 == coalesce(h3, h2.ret)
  IN  [h4 EXCEPT !.free_listp = h4.ret]

(* mm_init() on memory that has just been reset: the memory, and what      *)
(* free_listp says, are left from the last trace.  It does not set         *)
(* free_listp before it makes its first blocks, and links them to what is  *)
(* there.  The assumption on MaxHeap is that it does not fail.             *)
mm_init(h) ==
  LET start == mem_sbrk(h, 4).ret
      h1 == [h EXCEPT !.brk = @ + 4,
                      !.mem[start] = 0,
                      !.mem[start + 1] = PACK(2, 1),
                      !.mem[start + 2] = PACK(2, 1),
                      !.mem[start + 3] = PACK(0, 1)]
      h2 == extend_heap(h1, Chunk)
      h3 == extend_heap(h2, 4)
      h4 == coalesce(h3, h2.ret)
  IN  [h4 EXCEPT !.free_listp = h4.ret]

mm_malloc(h, size) ==
  LET asize == Adjust(size)
      bp == find_fit(h, asize)
      more == extend_heap(h, MaxOf(asize, Chunk))
  IN  IF size = 0 THEN Return(h, NoBlock)
      ELSE IF bp # NoBlock THEN Return(place(h, bp, asize), bp)
      ELSE IF more.ret = NoBlock THEN more
      ELSE Return(place(more, more.ret, asize), more.ret)

mm_free(h, bp) == coalesce(Mark(h, bp, GET_SIZE(h, HDRP(bp)), 0), bp)

memcpy(h, to, from, words) ==
  [h EXCEPT !.mem = [a \in Addr |-> IF a \in to..(to + words - 1)
                                      THEN h.mem[from + (a - to)]
                                      ELSE h.mem[a]]]

(* Mutant of mm_realloc: the old block is freed before it is copied.       *)
ReallocFreesFirst(h, bp, size) ==
  LET old == GET_SIZE(h, HDRP(bp))
      moved == mm_malloc(mm_free(h, bp), size)
  IN  IF Adjust(size) <= old THEN Return(h, bp)
      ELSE IF moved.ret = NoBlock THEN moved
      ELSE memcpy(moved, moved.ret, bp, MinOf(old - 2, size))

(* mm_realloc() of a block that the driver holds.  A free block behind it  *)
(* is taken whole.                                                         *)
mm_realloc(h, bp, size) ==
  LET old == GET_SIZE(h, HDRP(bp))
      next == NEXT_BLKP(h, bp)
      grown == old + GET_SIZE(h, HDRP(next))
      moved == mm_malloc(h, size)
      copied == memcpy(moved, moved.ret, bp, MinOf(old - 2, size))
  IN  IF size = 0 THEN Return(mm_free(h, bp), NoBlock)
      ELSE IF Adjust(size) <= old THEN Return(h, bp)
      ELSE IF GET_ALLOC(h, HDRP(next)) = 0 /\ grown >= Adjust(size)
        THEN Return(Mark(remove_free_block(h, next), bp, grown, 1), bp)
      ELSE IF moved.ret = NoBlock THEN moved
      ELSE Return(mm_free(copied, bp), moved.ret)
-----------------------------------------------------------------------------
(* The driver.  What a block held before it is filled is left over.        *)
Fill(h, bp, i, from, size) ==
  [h EXCEPT !.mem = [a \in Addr |-> IF a \in (bp + from)..(bp + size - 1)
                                      THEN Tag(i) ELSE h.mem[a]]]

(* The free lists that mm_init() makes a heap of: the empty one, and the   *)
(* first block alone, which it lists again.  Any other block of the list   *)
(* is left on it, or written to, where there is no block any more.         *)
Startable(h) ==
  \/ h.free_listp = NoBlock
  \/ h.free_listp = 4 /\ PRED(h, 4) = NoBlock /\ SUCC(h, 4) = NoBlock

MallocInit ==
  /\ heap = mm_init([mem |-> [a \in Addr |-> 0], brk |-> 0,
                     free_listp |-> NoBlock, ret |-> NoBlock])
  /\ live = [i \in Ids |-> Absent]
  /\ stale = FALSE

Malloc(i, size) ==
  LET h == mm_malloc(heap, size)
  IN  /\ live[i] = Absent
      /\ IF h.ret = NoBlock
           THEN heap' = h /\ UNCHANGED live
           ELSE /\ heap' = Fill(h, h.ret, i, 0, size)
                /\ live' = [live EXCEPT ![i] = [bp |-> h.ret, size |-> size]]

Free(i) ==
  /\ live[i] # Absent
  /\ heap' = mm_free(heap, live[i].bp)
  /\ live' = [live EXCEPT ![i] = Absent]

(* The words the block had before the call are left as the call left them. *)
Realloc(i, size) ==
  LET h == mm_realloc(heap, live[i].bp, size)
  IN  /\ live[i] # Absent
      /\ IF h.ret = NoBlock
           THEN /\ heap' = h
                /\ live' = IF size = 0 THEN [live EXCEPT ![i] = Absent]
                                       ELSE live
           ELSE /\ heap' = Fill(h, h.ret, i, live[i].size, size)
                /\ live' = [live EXCEPT ![i] = [bp |-> h.ret, size |-> size]]

(* The next trace: mem_reset_brk() and mm_init().  The driver forgets what *)
(* it holds: a trace need not free all it allocates, and one in which a    *)
(* call fails is given up.                                                 *)
NextTrace ==
  /\ live' = [i \in Ids |-> Absent]
  /\ \/ /\ Startable(heap)
        /\ heap' = mm_init([heap EXCEPT !.brk = 0])
        /\ UNCHANGED stale
     \/ /\ ~Startable(heap)
        /\ stale' = TRUE
        /\ UNCHANGED heap

(* Once the list has been stale the allocator may read and write anywhere: *)
(* what it does from there is not defined, and not modelled.               *)
MallocNext ==
  /\ ~stale
  /\ \/ /\ \E i \in Ids :
              \/ Free(i)
              \/ \E size \in Requests : Malloc(i, size) \/ Realloc(i, size)
        /\ UNCHANGED stale
     \/ NextTrace

MallocSpec == MallocInit /\ [][MallocNext]_mallocVars
-----------------------------------------------------------------------------
(* Blocks are aligned to two words, as mdriver.c asks of mm_malloc().      *)
HeapTypeOK ==
  /\ heap \in [mem : [Addr -> Int], brk : 0..MaxHeap,
               free_listp : Addr, ret : Addr]
  /\ live \in [Ids -> [bp : {a \in Addr : a % 2 = 0},
                       size : Requests \cup {0}]]

MallocTypeOK == HeapTypeOK /\ stale \in BOOLEAN

(* The blocks of the heap, from the one behind the prologue, each found    *)
(* from the size of the one before it; NoBlock from the epilogue on.       *)
BlockAt ==
  LET nth[n \in 0..MostBlocks] ==
        LET before == nth[n - 1]
            bp == IF n = 0 THEN 4
                  ELSE IF before = NoBlock THEN NoBlock
                  ELSE NEXT_BLKP(heap, before)
        IN  IF bp >= heap.brk THEN NoBlock ELSE bp
  IN  nth

HeapBlocks == {BlockAt[n] : n \in 0..MostBlocks} \ {NoBlock}
IsFree(bp) == GET_ALLOC(heap, HDRP(bp)) = 0

(* The blocks lie one behind the other from the prologue to the epilogue,  *)
(* each at least 4 words long and with a footer that says what its header  *)
(* says: what coalesce() and mm_realloc() take for granted of neighbours.  *)
(* This and what follows hold until mm_init() has found a stale list.      *)
Tiled ==
  ~stale =>
    /\ \A bp \in HeapBlocks :
         LET size == GET_SIZE(heap, HDRP(bp))
         IN  /\ size >= 4 /\ bp + size <= heap.brk
             /\ heap.mem[FTRP(heap, bp)] = heap.mem[HDRP(bp)]
             /\ bp + size = heap.brk => heap.mem[heap.brk - 1] = PACK(0, 1)
    /\ \E bp \in HeapBlocks : NEXT_BLKP(heap, bp) = heap.brk

(* No two free blocks are neighbours: every call coalesces what it frees.  *)
Coalesced ==
  ~stale => \A bp \in HeapBlocks :
     IsFree(bp) /\ NEXT_BLKP(heap, bp) # heap.brk =>
       ~IsFree(NEXT_BLKP(heap, bp))

(* The list that find_fit() walks ends, holds the free blocks and nothing  *)
(* else, and its PRED links are the reverse of its SUCC links, which       *)
(* remove_free_block() relies on.                                          *)
ListsTheFree ==
  ~stale =>
  LET list == FreeList(heap)
      listed == {n \in DOMAIN list : list[n] # NoBlock}
  IN  /\ list[MostBlocks] = NoBlock
      /\ {list[n] : n \in listed} = {bp \in HeapBlocks : IsFree(bp)}
      /\ \A n \in listed :
           PRED(heap, list[n]) = IF n = 0 THEN NoBlock ELSE list[n - 1]

(* What the driver wrote into a block it holds is still there, through the *)
(* calls that follow and through mm_realloc(), and the blocks allocated    *)
(* are those the driver holds: nothing overlaps and nothing is lost.       *)
LiveIntact ==
  ~stale =>
    /\ \A i \in Ids : live[i] # Absent =>
         \A a \in live[i].bp..(live[i].bp + live[i].size - 1) :
            heap.mem[a] = Tag(i)
    /\ {bp \in HeapBlocks : ~IsFree(bp)} = {live[i].bp : i \in Ids} \ {NoBlock}

(* A trace that has freed all it allocated can be followed by the next:    *)
(* mm_init() never finds a stale list behind it.  That every block goes    *)
(* back into one, with no link left over, is all that keeps it from that.  *)
BalancedResets ==
  ~stale /\ (\A i \in Ids : live[i] = Absent) => Startable(heap)
=============================================================================
