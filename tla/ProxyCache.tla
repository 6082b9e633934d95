----------------------------- MODULE ProxyCache -----------------------------
(***************************************************************************)
(* The cache of the web proxy, webproxy/webproxy-lab/proxy-jaewoong.c: a   *)
(* doubly linked list under a read-write lock, used by one thread for each *)
(* connection.  What runs under the lock is one step: nobody else sees the *)
(* list then, or sees it only to read it too.  Between two such sections   *)
(* of a thread the others may do anything.                                 *)
(***************************************************************************)
EXTENDS Integers

CONSTANTS
  Threads,          \* the connections served at the same time
  Uris,
  Sizes,            \* of the responses of servers, 0 for an empty one
  BlockCount,       \* cache_block_t structures there are; a bound
  MAX_OBJECT_SIZE,
  MAX_CACHE_SIZE

NULL == 0
NoUri == ""

ASSUME ProxyCacheAssumption ==
  /\ NoUri \notin Uris
  /\ Sizes \subseteq Nat
  /\ BlockCount \in Nat \ {0}
  /\ MAX_OBJECT_SIZE \in Nat /\ MAX_CACHE_SIZE \in Nat
  /\ MAX_OBJECT_SIZE <= MAX_CACHE_SIZE

Blocks == 1 .. BlockCount

Freed == [uri |-> NoUri, size |-> 0, prev |-> NULL, next |-> NULL]

VARIABLES
  cache,        \* [head, tail, total_size, block]
  pc,           \* where each thread is in doit()
  uri,          \* the uri of its request
  found,        \* cache_find()'s p when it gives up the read lock
  total         \* the bytes of the response

vars == <<cache, pc, uri, found, total>>

Points == {"idle", "upgrade", "fetch", "insert"}

Goto(t, point) == pc' = [pc EXCEPT ![t] = point]
-----------------------------------------------------------------------------
(* Every operator on the list takes a cache and returns it changed.        *)
SetNext(c, p, q) == IF p = NULL THEN c ELSE [c EXCEPT !.block[p].next = q]
SetPrev(c, p, q) == IF p = NULL THEN c ELSE [c EXCEPT !.block[p].prev = q]

(* The n-th block of the list along next, NULL past the end.               *)
List(c) ==
  LET nth[n \in Blocks \cup {0}] ==
        LET before == nth[n - 1]
        IN  IF n = 0 THEN c.head
            ELSE IF before = NULL THEN NULL ELSE c.block[before].next
  IN  nth

(* The loop of cache_find(): the first block with this uri.                *)
Search(c, u) ==
  LET list == List(c)
      hits == {n \in DOMAIN list : list[n] # NULL /\ c.block[list[n]].uri = u}
  IN  IF hits = {} THEN NULL
      ELSE list[CHOOSE n \in hits : \A m \in hits : n <= m]

(* The block becomes the most recently used one.                           *)
ToFront(c, p) ==
  LET b == c.block[p]
      c1 == SetPrev(SetNext(c, b.prev, b.next), b.next, b.prev)
      c2 == [c1 EXCEPT !.head = p,
                       !.tail = IF p = @ THEN b.prev ELSE @,
                       !.block[p].next = c.head,
                       !.block[p].prev = NULL]
  IN  IF p = c.head THEN c ELSE SetPrev(c2, c.head, p)

(* One turn of the loop that makes room: the last block is freed.          *)
Evict(c) ==
  LET old == c.block[c.tail]
      c1 == SetNext(c, old.prev, NULL)
  IN  [c1 EXCEPT !.tail = old.prev,
                 !.head = IF old.prev = NULL THEN NULL ELSE @,
                 !.total_size = @ - old.size,
                 !.block[c.tail] = Freed]

(* The loop that makes room.                                               *)
EvictFor(c, size) ==
  LET turn[n \in Blocks \cup {0}] ==
        LET before == turn[n - 1]
        IN  IF n = 0 THEN c
            ELSE IF before.total_size + size > MAX_CACHE_SIZE
                     /\ before.tail # NULL
                   THEN Evict(before)
                   ELSE before
  IN  turn[BlockCount]

Unused(c) == {p \in Blocks : c.block[p] = Freed}

PushFront(c, p, u, size) ==
  SetPrev([c EXCEPT !.head = p,
                    !.tail = IF @ = NULL THEN p ELSE @,
                    !.total_size = @ + size,
                    !.block[p] = [uri |-> u, size |-> size, prev |-> NULL,
                                  next |-> c.head]], c.head, p)

cache_insert(c, u, size) ==
  LET room == EvictFor(c, size)
  IN  IF size > MAX_OBJECT_SIZE
        THEN c
        ELSE PushFront(room, CHOOSE p \in Unused(room) : TRUE, u, size)
-----------------------------------------------------------------------------
Init ==
  /\ cache = [head |-> NULL, tail |-> NULL, total_size |-> 0,
              block |-> [p \in Blocks |-> Freed]]
  /\ pc = [t \in Threads |-> "idle"]
  /\ uri = [t \in Threads |-> NoUri]
  /\ found = [t \in Threads |-> NULL]
  /\ total = [t \in Threads |-> 0]

(* A request arrives; cache_find() up to the end of its read lock.         *)
Request(t, u) ==
  /\ pc[t] = "idle"
  /\ uri' = [uri EXCEPT ![t] = u]
  /\ found' = [found EXCEPT ![t] = Search(cache, u)]
  /\ Goto(t, IF Search(cache, u) = NULL THEN "fetch" ELSE "upgrade")
  /\ UNCHANGED <<cache, total>>

(* Mutant of Upgrade: the block found under the read lock is used.         *)
UpgradeTrusts(t) ==
  /\ pc[t] = "upgrade"
  /\ cache' = ToFront(cache, found[t])
  /\ Goto(t, "idle")
  /\ found' = [found EXCEPT ![t] = NULL]
  /\ uri' = [uri EXCEPT ![t] = NoUri]
  /\ UNCHANGED total

(* Mutant of Upgrade: the object is served from where it is, as in a queue *)
(* that is first in, first out.                                            *)
UpgradeInPlace(t) ==
  LET p == Search(cache, uri[t])
  IN  /\ pc[t] = "upgrade"
      /\ found' = [found EXCEPT ![t] = NULL]
      /\ \/ p = NULL /\ Goto(t, "fetch") /\ UNCHANGED uri
         \/ /\ p # NULL
            /\ uri' = [uri EXCEPT ![t] = NoUri]
            /\ Goto(t, "idle")
      /\ UNCHANGED <<cache, total>>

(* The rest of cache_find(), under the write lock.  On a hit the thread    *)
(* sends the copy it took and is done.                                     *)
Upgrade(t) ==
  LET p == Search(cache, uri[t])
  IN  /\ pc[t] = "upgrade"
      /\ found' = [found EXCEPT ![t] = NULL]
      /\ \/ p = NULL /\ Goto(t, "fetch") /\ UNCHANGED <<cache, uri>>
         \/ /\ p # NULL
            /\ cache' = ToFront(cache, p)
            /\ uri' = [uri EXCEPT ![t] = NoUri]
            /\ Goto(t, "idle")
      /\ UNCHANGED total

(* Mutant of Fetch: a response that does not fit the buffer is kept.       *)
FetchKeepsAll(t, n) ==
  /\ pc[t] = "fetch"
  /\ total' = [total EXCEPT ![t] = n]
  /\ Goto(t, "insert")
  /\ UNCHANGED <<cache, uri, found>>

(* The server has answered, and closed the connection.  What is too large  *)
(* is not kept; an empty response is.                                      *)
Fetch(t, n) ==
  /\ pc[t] = "fetch"
  /\ \/ /\ n <= MAX_OBJECT_SIZE
        /\ total' = [total EXCEPT ![t] = n]
        /\ Goto(t, "insert")
        /\ UNCHANGED uri
     \/ /\ n > MAX_OBJECT_SIZE
        /\ uri' = [uri EXCEPT ![t] = NoUri]
        /\ Goto(t, "idle")
        /\ UNCHANGED total
  /\ UNCHANGED <<cache, found>>

(* A method other than GET, looked at after the cache.                     *)
Refuse(t) ==
  /\ pc[t] = "fetch"
  /\ uri' = [uri EXCEPT ![t] = NoUri]
  /\ Goto(t, "idle")
  /\ UNCHANGED <<cache, found, total>>

Insert(t) ==
  /\ pc[t] = "insert"
  /\ Unused(EvictFor(cache, total[t])) # {}       \* the bound on Blocks
  /\ cache' = cache_insert(cache, uri[t], total[t])
  /\ uri' = [uri EXCEPT ![t] = NoUri]
  /\ total' = [total EXCEPT ![t] = 0]
  /\ Goto(t, "idle")
  /\ UNCHANGED found

Next ==
  \E t \in Threads :
     \/ \E u \in Uris : Request(t, u)
     \/ \E n \in Sizes : Fetch(t, n)
     \/ Upgrade(t) \/ Refuse(t) \/ Insert(t)

Spec == Init /\ [][Next]_vars
-----------------------------------------------------------------------------
Listed(c) == {List(c)[n] : n \in Blocks \cup {0}} \ {NULL}

Cacheable == {n \in Sizes \cup {0} : n <= MAX_OBJECT_SIZE}

Block == [uri : Uris \cup {NoUri}, size : Cacheable,
          prev : Blocks \cup {NULL}, next : Blocks \cup {NULL}]

Cache == [head : Blocks \cup {NULL}, tail : Blocks \cup {NULL},
          total_size : Nat, block : [Blocks -> Block]]

(* The types; nothing larger than an object may be is kept.                *)
TypeOK ==
  /\ cache \in Cache
  /\ pc \in [Threads -> Points]
  /\ uri \in [Threads -> Uris \cup {NoUri}]
  /\ found \in [Threads -> Blocks \cup {NULL}]
  /\ total \in [Threads -> Cacheable]

(* The entries in their order, as an abstract cache.                       *)
Entries(c) ==
  LET list == List(c)
      length == CHOOSE n \in Blocks \cup {0} :
                  list[n] = NULL /\ (n = 0 \/ list[n - 1] # NULL)
  IN  [i \in 1..length |-> [uri |-> c.block[list[i - 1]].uri,
                            size |-> c.block[list[i - 1]].size]]

(* Whether a thread has found its object, or has still to find it.         *)
State ==
  [t \in Threads |-> IF pc[t] = "idle" THEN "idle"
                     ELSE IF pc[t] = "upgrade" THEN "hit" ELSE "miss"]

LRU == INSTANCE LRUCache WITH
         Clients <- Threads, Sizes <- Cacheable, Capacity <- MAX_CACHE_SIZE,
         cache <- Entries(cache), wanted <- uri, state <- State

(* The list read from the tail along prev is the list read from the head   *)
(* along next, backwards, and it holds every block not freed: no step of   *)
(* one thread cuts off, or leaves on the list, what another's has moved or *)
(* freed since it looked.  total_size is the size of what is on the list,  *)
(* and within the limit.                                                   *)
LinksAgree ==
  /\ \A p \in Listed(cache) :
       LET b == cache.block[p]
       IN  /\ b.uri # NoUri
           /\ IF b.prev = NULL THEN cache.head = p
              ELSE b.prev \in Listed(cache) /\ cache.block[b.prev].next = p
           /\ IF b.next = NULL THEN cache.tail = p
              ELSE b.next \in Listed(cache) /\ cache.block[b.next].prev = p
  /\ cache.tail = NULL <=> cache.head = NULL
  /\ Unused(cache) = Blocks \ Listed(cache)
  /\ cache.total_size = LRU!TotalSize(Entries(cache))
  /\ cache.total_size <= MAX_CACHE_SIZE

(* The threads and the list are clients and a cache of LRUCache: an object *)
(* found under the read lock, and still there under the write lock, is the *)
(* most recent one afterwards; what is evicted is the least recently used, *)
(* and only as much as an insertion needs.  (An object may be cached       *)
(* twice: two clients that miss it both insert it.)                        *)
ImplementsLRU == LRU!Spec
=============================================================================
