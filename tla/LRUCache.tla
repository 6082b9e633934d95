------------------------------ MODULE LRUCache ------------------------------
(***************************************************************************)
(* What a cache of web objects promises its clients: a list of objects,    *)
(* the most recently used first, whose sizes add up to no more than the    *)
(* capacity.  A client whose object was there when it asked is served from *)
(* the cache, and its object becomes the most recent, unless it has been   *)
(* evicted meanwhile.  One whose object was not may insert it: room is     *)
(* made at the end of the list, and no more of it than is needed.          *)
(***************************************************************************)
EXTENDS Integers, SequencesExt

CONSTANTS
  Clients,
  Uris,
  NoUri,
  Sizes,        \* of the objects that may be cached
  Capacity

VARIABLES
  cache,        \* a sequence of [uri, size]
  wanted,       \* what each client asks for
  state         \* "idle"; "hit": it was in the cache; "miss": it was not

vars == <<cache, wanted, state>>

Object == [uri : Uris, size : Sizes]

TotalSize(s) == FoldLeft(LAMBDA sum, o : sum + o.size, 0, s)

(* The longest prefix of s that leaves room for size.                      *)
Keep(s, size) ==
  SubSeq(s, 1, CHOOSE n \in 0..Len(s) :
                 /\ n = 0 \/ TotalSize(SubSeq(s, 1, n)) + size <= Capacity
                 /\ n = Len(s) \/ TotalSize(SubSeq(s, 1, n + 1)) + size > Capacity)

Has(u) == \E i \in DOMAIN cache : cache[i].uri = u

(* The most recent object of u is at i.                                    *)
FoundAt(i, u) == cache[i].uri = u /\ \A j \in 1..(i - 1) : cache[j].uri # u

Init ==
  /\ cache = <<>>
  /\ wanted = [c \in Clients |-> NoUri]
  /\ state = [c \in Clients |-> "idle"]

Request(c, u) ==
  /\ state[c] = "idle"
  /\ state' = [state EXCEPT ![c] = IF Has(u) THEN "hit" ELSE "miss"]
  /\ wanted' = [wanted EXCEPT ![c] = u]
  /\ UNCHANGED cache

Done(c) ==
  /\ state' = [state EXCEPT ![c] = "idle"]
  /\ wanted' = [wanted EXCEPT ![c] = NoUri]

(* A hit ends with its object the most recent one ...                      *)
Use(c) ==
  /\ state[c] = "hit"
  /\ \E i \in DOMAIN cache :
       /\ FoundAt(i, wanted[c])
       /\ cache' = <<cache[i]>> \o RemoveAt(cache, i)
  /\ Done(c)

(* ... or is none any more.                                                *)
Gone(c) ==
  /\ state[c] = "hit" /\ ~Has(wanted[c])
  /\ state' = [state EXCEPT ![c] = "miss"]
  /\ UNCHANGED <<cache, wanted>>

Insert(c, size) ==
  /\ state[c] = "miss"
  /\ cache' = <<[uri |-> wanted[c], size |-> size]>> \o Keep(cache, size)
  /\ Done(c)

Abandon(c) == state[c] = "miss" /\ Done(c) /\ UNCHANGED cache

Next ==
  \E c \in Clients :
     \/ \E u \in Uris : Request(c, u)
     \/ \E size \in Sizes : Insert(c, size)
     \/ Use(c) \/ Gone(c) \/ Abandon(c)

Spec == Init /\ [][Next]_vars
=============================================================================
