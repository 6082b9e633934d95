------------------------------ MODULE MCMalloc ------------------------------
(* An instance of Malloc for TLC: three blocks, requests of one word to     *)
(* more than the heap starts with.                                         *)
EXTENDS Malloc

MCRequests == {0, 1, 3, 6, 9}

(* States are told apart by what is in use: not by what earlier blocks     *)
(* left in the words of free blocks and in the slack of allocated ones,    *)
(* which nothing reads.                                                    *)
Used ==
  UNION {{bp - 1, FTRP(heap, bp)} : bp \in HeapBlocks}
    \cup UNION {{bp, bp + 1} : bp \in {b \in HeapBlocks : IsFree(b)}}
    \cup UNION {live[i].bp..(live[i].bp + live[i].size - 1) : i \in Ids}

InUse == <<[a \in Used |-> heap.mem[a]], heap.brk, heap.free_listp, live,
           stale>>
=============================================================================
