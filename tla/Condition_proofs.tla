-------------------------- MODULE Condition_proofs --------------------------
(***************************************************************************)
(* Proofs about Condition, for any threads, condition variables and        *)
(* priorities: the list of semaphores behaves as the set of waiters of a   *)
(* monitor, and a signal wakes the highest-priority sleeper.               *)
(***************************************************************************)
EXTENDS Condition, Lists_proofs

(* A thread with a sorted list is about to raise the list's first          *)
(* semaphore, whose thread nobody outranked at the sort.                   *)
SortedInv ==
  \A t \in Threads : pc[t] \in {"signal", "broadcasting"} =>
     waiters[cond] # <<>> /\ Head(waiters[cond]) \in best

(* A semaphore is on one list, once, from the cond_wait() of its thread    *)
(* until it is raised; a thread without one on a list is not in            *)
(* cond_wait(), or on its way out of it.                                   *)
ListInv ==
  /\ \A c \in Conds : IsInjective(waiters[c])
  /\ \A c, d \in Conds : \A t \in Threads :
        t \in Range(waiters[c]) /\ t \in Range(waiters[d]) => c = d
  /\ \A c \in Conds, t \in Threads : t \in Range(waiters[c]) =>
        pc[t] \in {"listed", "released", "asleep"} /\ value[t] = 0
  /\ \A t \in Threads :
        /\ pc[t] = "listed" => value[t] = 0
        /\ pc[t] \in {"listed", "released", "asleep"} /\ value[t] = 0 =>
             \E c \in Conds : t \in Range(waiters[c])

IInv == TypeOK /\ ListInv /\ SortedInv
-----------------------------------------------------------------------------
(* cmp_sema_priority is the order of a key: a semaphore nobody sleeps on   *)
(* comes after all others.                                                 *)
SleeperKey == [t \in Threads |-> IF Empty(t) THEN -1 ELSE priority[t]]

LEMMA SleeperKeyOrder ==
  ASSUME TypeOK
  PROVE  /\ SleeperKey \in [Threads -> Int]
         /\ \A a, b \in Threads :
              cmp_sema_priority(a, b) <=> SleeperKey[a] > SleeperKey[b]
         /\ \A a \in Threads :
              IF Empty(a) THEN SleeperKey[a] = -1
              ELSE SleeperKey[a] = priority[a] /\ SleeperKey[a] > -1
<1>1. \A t \in Threads : priority[t] \in Nat
  BY ConditionAssumption DEF TypeOK
<1>2. /\ \A t \in Threads : SleeperKey[t] =
                              IF Empty(t) THEN -1 ELSE priority[t]
      /\ SleeperKey = [t \in Threads |-> SleeperKey[t]]
  BY DEF SleeperKey
<1>3. \A t \in Threads : SleeperKey[t] \in Int
  BY <1>1, <1>2
<1>4. SleeperKey \in [Threads -> Int]
  BY <1>2, <1>3
<1>5. \A a, b \in Threads :
        cmp_sema_priority(a, b) <=> SleeperKey[a] > SleeperKey[b]
  BY <1>1, <1>2 DEF cmp_sema_priority
<1> QED
  BY <1>1, <1>2, <1>4, <1>5

(* list_sort (&cond->waiters, cmp_sema_priority) leaves the same threads's *)
(* semaphores, in the order of the key.                                    *)
LEMMA SortedPermutes ==
  ASSUME TypeOK, NEW s \in Seq(Threads)
  PROVE  /\ Sorted(s) \in Seq(Threads)
         /\ Len(Sorted(s)) = Len(s)
         /\ Range(Sorted(s)) = Range(s)
         /\ IsInjective(s) => IsInjective(Sorted(s))
         /\ Descending(Sorted(s), SleeperKey)
<1> DEFINE r == Sorted(s)
           n == Len(s)
           rank(i) == Cardinality({j \in DOMAIN s :
                        \/ cmp_sema_priority(s[j], s[i])
                        \/ j <= i /\ ~cmp_sema_priority(s[i], s[j])})
<1>1. /\ DOMAIN s = 1 .. n
      /\ SleeperKey \in [Threads -> Int]
      /\ \A i, j \in 1 .. n : cmp_sema_priority(s[i], s[j])
                                <=> SleeperKey[s[i]] > SleeperKey[s[j]]
  BY SleeperKeyOrder
<1>2. \A i \in 1 .. n : rank(i) = Cardinality(NotBehind(s, SleeperKey)[i])
  <2> SUFFICES ASSUME NEW i \in 1 .. n
               PROVE  {j \in DOMAIN s :
                         \/ cmp_sema_priority(s[j], s[i])
                         \/ j <= i /\ ~cmp_sema_priority(s[i], s[j])}
                        = NotBehind(s, SleeperKey)[i]
    OBVIOUS
  <2> QED
    BY <1>1 DEF NotBehind
<1>3. r = [k \in 1 .. n |-> s[CHOOSE i \in 1 .. n : rank(i) = k]]
  BY <1>1 DEF Sorted
<1>4. \A k \in 1 .. n : \E i \in 1 .. n :
        Cardinality(NotBehind(s, SleeperKey)[i]) = k
  BY <1>1, SortRanks
<1> HIDE DEF r, rank
<1>5. \A k \in 1 .. n : \E i \in 1 .. n : rank(i) = k /\ r[k] = s[i]
  <2> SUFFICES ASSUME NEW k \in 1 .. n
               PROVE  \E i \in 1 .. n : rank(i) = k /\ r[k] = s[i]
    OBVIOUS
  <2> DEFINE c == CHOOSE i \in 1 .. n : rank(i) = k
  <2>1. \E i \in 1 .. n : rank(i) = k
    BY <1>2, <1>4
  <2>2. c \in 1 .. n /\ rank(c) = k
    BY <2>1
  <2>3. r[k] = s[c]
    BY <1>3
  <2> HIDE DEF c
  <2> QED
    BY <2>2, <2>3
<1>6. ByRank(s, SleeperKey, r) /\ r = [k \in 1 .. n |-> r[k]]
  BY <1>2, <1>3, <1>5 DEF ByRank
<1>7. /\ r \in Seq(Threads) /\ Len(r) = Len(s) /\ Range(r) = Range(s)
      /\ IsInjective(s) => IsInjective(r)
      /\ Descending(r, SleeperKey)
  BY <1>1, <1>6, SortPermutes
<1> QED
  BY <1>7 DEF r

(* The front of an ordered list has the greatest key.                      *)
LEMMA SortedFirst ==
  ASSUME NEW s \in Seq(Threads), s # <<>>, NEW key, Descending(s, key),
         NEW t \in Range(s)
  PROVE  Head(s) = t \/ key[Head(s)] >= key[t]
<1>1. PICK i \in 1 .. Len(s) : s[i] = t
  BY SeqSet
<1>2. Head(s) = s[1] /\ 1 \in 1 .. Len(s)
  OBVIOUS
<1> QED
  BY <1>1, <1>2 DEF Descending

(* A sort moves no semaphore from one list to another, and puts in front   *)
(* that of a sleeper whom no sleeper outranks, if anybody sleeps.          *)
LEMMA SortStep ==
  ASSUME TypeOK, ListInv, NEW c \in Conds, Sort(c)
  PROVE  /\ waiters' \in [Conds -> Seq(Threads)]
         /\ \A d \in Conds : Range(waiters'[d]) = Range(waiters[d])
         /\ \A d \in Conds : IsInjective(waiters'[d])
         /\ best' \subseteq Threads
         /\ waiters'[c] # <<>> /\ Head(waiters'[c]) \in best'
<1> DEFINE s == waiters[c]
           r == Sorted(s)
           asleep == {t \in Range(s) : ~Empty(t)}
<1>1. /\ s \in Seq(Threads) /\ s # <<>> /\ IsInjective(s)
      /\ waiters' = [waiters EXCEPT ![c] = r]
      /\ best' = IF asleep = {} THEN Range(s)
                 ELSE {t \in asleep :
                         \A u \in asleep : priority[u] <= priority[t]}
  BY DEF Sort, TypeOK, ListInv
<1>2. /\ r \in Seq(Threads) /\ Len(r) = Len(s) /\ Range(r) = Range(s)
      /\ IsInjective(r) /\ Descending(r, SleeperKey)
  BY <1>1, SortedPermutes
<1>3. Range(s) \subseteq Threads
  BY <1>1, SeqSet
<1> HIDE DEF r, s
<1>4. r # <<>>
  BY <1>1, <1>2
<1>5. Head(r) \in Range(s)
  BY <1>2, <1>4, SeqSet
<1>6. \A t \in Range(s) :
        Head(r) = t \/ SleeperKey[Head(r)] >= SleeperKey[t]
  BY <1>2, <1>4, SortedFirst
<1>7. Head(r) \in best'
  <2>1. CASE asleep = {}
    BY <1>1, <1>5, <2>1
  <2>2. CASE asleep # {}
    <3>1. PICK u \in asleep : TRUE
      BY <2>2
    <3>2. Head(r) \in asleep
      <4>1. SleeperKey[u] > -1 /\ SleeperKey[u] \in Int
        BY <1>3, <3>1, SleeperKeyOrder
      <4>2. SleeperKey[Head(r)] \in Int
        BY <1>3, <1>5, SleeperKeyOrder
      <4>3. Empty(Head(r)) => SleeperKey[Head(r)] = -1
        BY <1>3, <1>5, SleeperKeyOrder
      <4> QED
        BY <1>5, <1>6, <3>1, <4>1, <4>2, <4>3
    <3>3. \A t \in asleep : SleeperKey[t] = priority[t]
      BY <1>3, SleeperKeyOrder
    <3>4. \A t \in asleep : priority[t] \in Nat
      BY <1>3, ConditionAssumption DEF TypeOK
    <3>5. \A t \in asleep : priority[t] <= priority[Head(r)]
      BY <1>6, <3>2, <3>3, <3>4
    <3> QED
      BY <1>1, <2>2, <3>2, <3>5
  <2> QED
    BY <2>1, <2>2
<1>8. best' \subseteq Threads
  BY <1>1, <1>3
<1>9. /\ waiters'[c] = r
      /\ \A d \in Conds : d # c => waiters'[d] = waiters[d]
  BY <1>1 DEF TypeOK
<1>10. waiters' \in [Conds -> Seq(Threads)]
  BY <1>1, <1>2 DEF TypeOK
<1> QED
  BY <1>2, <1>4, <1>7, <1>8, <1>9, <1>10 DEF ListInv, s
-----------------------------------------------------------------------------
(* list_insert_ordered() in cond_wait() adds the caller's semaphore.       *)
LEMMA WaitStep ==
  ASSUME TypeOK, ListInv, NEW t \in Threads, NEW c \in Conds, cond_wait(t, c)
  PROVE  /\ waiters' \in [Conds -> Seq(Threads)]
         /\ \A d \in Conds : d # c => waiters'[d] = waiters[d]
         /\ Range(waiters'[c]) = Range(waiters[c]) \cup {t}
         /\ \A d \in Conds : t \notin Range(waiters[d])
         /\ \A d \in Conds : IsInjective(waiters'[d])
<1> DEFINE s == waiters[c]
           L == {i \in DOMAIN s : cmp_sema_priority(t, s[i])}
           r == InsertAt(s, Min(L \cup {Len(s) + 1}), t)
<1>1. /\ s \in Seq(Threads) /\ IsInjective(s)
      /\ waiters' = [waiters EXCEPT ![c] = r]
      /\ \A d \in Conds : t \notin Range(waiters[d])
  BY DEF cond_wait, TypeOK, ListInv
<1>2. L \subseteq 1 .. Len(s) /\ s \in Seq(Threads)
  BY <1>1
<1> HIDE DEF L, s
<1>3. /\ r \in Seq(Threads)
      /\ Range(r) = Range(s) \cup {t}
      /\ IsInjective(s) /\ t \notin Range(s) => IsInjective(r)
  BY <1>2, InsertMin
<1> HIDE DEF r
<1> QED
  BY <1>1, <1>3 DEF TypeOK, ListInv, s

(* list_pop_front() in cond_signal() takes the first semaphore off.        *)
LEMMA PopStep ==
  ASSUME TypeOK, ListInv, SortedInv, NEW t \in Threads, Raise(t)
  PROVE  /\ holder = t /\ pc[t] \in {"signal", "broadcasting"} /\ cond \in Conds
         /\ waiters' \in [Conds -> Seq(Threads)]
         /\ \A d \in Conds : d # cond => waiters'[d] = waiters[d]
         /\ Head(waiters[cond]) \in Range(waiters[cond])
         /\ Head(waiters[cond]) \in Threads
         /\ Head(waiters[cond]) \in best
         /\ Range(waiters'[cond])
              = Range(waiters[cond]) \ {Head(waiters[cond])}
         /\ \A d \in Conds : IsInjective(waiters'[d])
<1> DEFINE s == waiters[cond]
<1>1. /\ holder = t /\ pc[t] \in {"signal", "broadcasting"} /\ cond \in Conds
      /\ waiters' = [waiters EXCEPT ![cond] = Tail(s)]
      /\ s # <<>> /\ Head(s) \in best
  BY DEF Raise, TypeOK, SortedInv, Inside
<1>2. s \in Seq(Threads) /\ IsInjective(s)
  BY <1>1 DEF TypeOK, ListInv
<1> HIDE DEF s
<1>3. /\ Tail(s) \in Seq(Threads) /\ IsInjective(Tail(s))
      /\ Range(Tail(s)) = Range(s) \ {Head(s)}
      /\ Head(s) \in Range(s) /\ Head(s) \in Threads
  BY <1>1, <1>2, TailSet, TailPointwise
<1>4. /\ waiters'[cond] = Tail(s)
      /\ \A d \in Conds : d # cond => waiters'[d] = waiters[d]
      /\ waiters' \in [Conds -> Seq(Threads)]
  BY <1>1, <1>3 DEF TypeOK
<1> QED
  BY <1>1, <1>3, <1>4 DEF ListInv, s

LEMMA InitIInv == Init => IInv
<1> SUFFICES ASSUME Init
             PROVE  IInv
  OBVIOUS
<1>1. TypeOK
  BY ConditionAssumption DEF Init, TypeOK, Inside
<1>2. \A c \in Conds : IsInjective(waiters[c]) /\ Range(waiters[c]) = {}
  BY DEF Init, IsInjective, Range
<1> QED
  BY <1>1, <1>2 DEF Init, IInv, ListInv, SortedInv

(* Every step keeps the invariant: one thread is inside, and only it       *)
(* touches the lists.                                                      *)
LEMMA NextIInv == IInv /\ [Next]_vars => IInv'
<1> SUFFICES ASSUME IInv, [Next]_vars
             PROVE  IInv'
  OBVIOUS
<1> USE ConditionAssumption DEF IInv, Inside
<1>1. CASE UNCHANGED vars
  BY <1>1 DEF vars, TypeOK, ListInv, SortedInv
<1>2. ASSUME NEW t \in Threads, lock_acquire(t)
      PROVE  IInv'
  <2>1. TypeOK'
    BY <1>2 DEF lock_acquire, Goto, TypeOK
  <2>2. ListInv'
    BY <1>2 DEF lock_acquire, Goto, TypeOK, ListInv
  <2>3. SortedInv'
    BY <1>2 DEF lock_acquire, Goto, TypeOK, SortedInv
  <2> QED
    BY <2>1, <2>2, <2>3
<1>3. ASSUME NEW t \in Threads, lock_release(t)
      PROVE  IInv'
  <2>1. TypeOK'
    BY <1>3 DEF lock_release, Goto, TypeOK
  <2>2. ListInv'
    BY <1>3 DEF lock_release, Goto, TypeOK, ListInv
  <2>3. SortedInv'
    BY <1>3 DEF lock_release, Goto, TypeOK, SortedInv
  <2> QED
    BY <2>1, <2>2, <2>3
<1>4. ASSUME NEW t \in Threads, WaitRelease(t)
      PROVE  IInv'
  <2>1. TypeOK'
    BY <1>4 DEF WaitRelease, Goto, TypeOK
  <2>2. ListInv'
    BY <1>4 DEF WaitRelease, Goto, TypeOK, ListInv
  <2>3. SortedInv'
    BY <1>4 DEF WaitRelease, Goto, TypeOK, SortedInv
  <2> QED
    BY <2>1, <2>2, <2>3
<1>5. ASSUME NEW t \in Threads, WaitDown(t)
      PROVE  IInv'
  <2>1. TypeOK'
    BY <1>5 DEF WaitDown, Goto, TypeOK
  <2>2. ListInv'
    BY <1>5 DEF WaitDown, Goto, TypeOK, ListInv
  <2>3. SortedInv'
    BY <1>5 DEF WaitDown, Goto, TypeOK, SortedInv
  <2> QED
    BY <2>1, <2>2, <2>3
<1>6. ASSUME NEW t \in Threads, NEW c \in Conds, cond_broadcast(t, c)
      PROVE  IInv'
  <2>1. TypeOK'
    BY <1>6 DEF cond_broadcast, Goto, TypeOK
  <2>2. ListInv'
    BY <1>6 DEF cond_broadcast, Goto, TypeOK, ListInv
  <2>3. SortedInv'
    BY <1>6 DEF cond_broadcast, Goto, TypeOK, SortedInv
  <2> QED
    BY <2>1, <2>2, <2>3
<1>7. ASSUME NEW t \in Threads, NEW p \in Priorities, Reprioritize(t, p)
      PROVE  IInv'
  <2>1. TypeOK'
    BY <1>7 DEF Reprioritize, Goto, TypeOK
  <2>2. ListInv'
    BY <1>7 DEF Reprioritize, Goto, TypeOK, ListInv
  <2>3. SortedInv'
    BY <1>7 DEF Reprioritize, Goto, TypeOK, SortedInv
  <2> QED
    BY <2>1, <2>2, <2>3
<1>8. ASSUME NEW t \in Threads, NEW c \in Conds, cond_wait(t, c)
      PROVE  IInv'
  <2>1. /\ waiters' \in [Conds -> Seq(Threads)]
        /\ \A d \in Conds : d # c => waiters'[d] = waiters[d]
        /\ Range(waiters'[c]) = Range(waiters[c]) \cup {t}
        /\ \A d \in Conds : t \notin Range(waiters[d])
        /\ \A d \in Conds : IsInjective(waiters'[d])
    BY <1>8, WaitStep
  <2>2. /\ pc[t] = "in" /\ holder = t
        /\ pc' = [pc EXCEPT ![t] = "listed"]
        /\ value' = [value EXCEPT ![t] = 0]
        /\ UNCHANGED <<cond, holder, priority, best>>
    BY <1>8 DEF cond_wait, Goto, TypeOK
  <2>3. TypeOK'
    BY <2>1, <2>2 DEF TypeOK
  <2>4. ListInv'
    <3>1. \A d \in Conds, u \in Threads :
            u \in Range(waiters'[d]) <=>
              u \in Range(waiters[d]) \/ (d = c /\ u = t)
      <4> SUFFICES ASSUME NEW d \in Conds, NEW u \in Threads
                   PROVE  u \in Range(waiters'[d]) <=>
                            u \in Range(waiters[d]) \/ (d = c /\ u = t)
        OBVIOUS
      <4>1. CASE d = c
        BY <2>1, <4>1
      <4>2. CASE d # c
        BY <2>1, <4>2
      <4> QED
        BY <4>1, <4>2
    <3>2. /\ pc'[t] = "listed" /\ value'[t] = 0
          /\ \A u \in Threads :
               u # t => pc'[u] = pc[u] /\ value'[u] = value[u]
      BY <2>2 DEF TypeOK
    <3>3. \A d, e \in Conds : \A u \in Threads :
             u \in Range(waiters'[d]) /\ u \in Range(waiters'[e]) => d = e
      BY <2>1, <3>1 DEF ListInv
    <3>4. \A d \in Conds, u \in Threads : u \in Range(waiters'[d]) =>
             pc'[u] \in {"listed", "released", "asleep"} /\ value'[u] = 0
      BY <2>1, <3>1, <3>2 DEF ListInv
    <3>5. \A u \in Threads :
             pc'[u] \in {"listed", "released", "asleep"} /\ value'[u] = 0 =>
               \E d \in Conds : u \in Range(waiters'[d])
      BY <3>1, <3>2 DEF ListInv
    <3>6. \A u \in Threads : pc'[u] = "listed" => value'[u] = 0
      BY <3>2 DEF ListInv
    <3> QED
      BY <2>1, <3>3, <3>4, <3>5, <3>6 DEF ListInv
  <2>5. SortedInv'
    BY <2>2 DEF TypeOK, SortedInv
  <2> QED
    BY <2>3, <2>4, <2>5
<1>9. ASSUME NEW t \in Threads, NEW c \in Conds, cond_signal(t, c)
      PROVE  IInv'
  <2>1. /\ pc[t] = "in" /\ holder = t /\ Sort(c) /\ cond' = c
        /\ pc' = [pc EXCEPT ![t] = "signal"]
        /\ UNCHANGED <<holder, value, priority>>
    BY <1>9 DEF cond_signal, Sort, Goto, TypeOK
  <2>2. /\ waiters' \in [Conds -> Seq(Threads)]
        /\ \A d \in Conds : Range(waiters'[d]) = Range(waiters[d])
        /\ \A d \in Conds : IsInjective(waiters'[d])
        /\ best' \subseteq Threads
        /\ waiters'[c] # <<>> /\ Head(waiters'[c]) \in best'
    BY <2>1, SortStep
  <2>3. TypeOK'
    BY <2>1, <2>2 DEF TypeOK
  <2>4. ListInv'
    BY <2>1, <2>2 DEF TypeOK, ListInv
  <2>5. SortedInv'
    BY <2>1, <2>2 DEF TypeOK, SortedInv
  <2> QED
    BY <2>3, <2>4, <2>5
<1>10. ASSUME NEW t \in Threads, Broadcast(t)
       PROVE  IInv'
  <2>1. pc[t] = "broadcast" /\ holder = t /\ cond \in Conds
    BY <1>10 DEF Broadcast, TypeOK
  <2>2. CASE Sort(cond) /\ Goto(t, "broadcasting") /\ UNCHANGED cond
    <3>1. /\ waiters' \in [Conds -> Seq(Threads)]
          /\ \A d \in Conds : Range(waiters'[d]) = Range(waiters[d])
          /\ \A d \in Conds : IsInjective(waiters'[d])
          /\ best' \subseteq Threads
          /\ waiters'[cond] # <<>> /\ Head(waiters'[cond]) \in best'
      BY <2>1, <2>2, SortStep
    <3>2. /\ pc' = [pc EXCEPT ![t] = "broadcasting"]
          /\ UNCHANGED <<cond, holder, value, priority>>
      BY <2>2 DEF Sort, Goto
    <3>3. TypeOK'
      BY <2>1, <3>1, <3>2 DEF TypeOK
    <3>4. ListInv'
      BY <2>1, <3>1, <3>2 DEF TypeOK, ListInv
    <3>5. SortedInv'
      BY <2>1, <3>1, <3>2 DEF TypeOK, SortedInv
    <3> QED
      BY <3>3, <3>4, <3>5
  <2>3. CASE /\ waiters[cond] = <<>>
             /\ Goto(t, "in")
             /\ cond' = None
             /\ UNCHANGED <<holder, waiters, value, priority, best>>
    <3>1. TypeOK'
      BY <2>1, <2>3 DEF TypeOK, Goto
    <3>2. ListInv'
      BY <2>1, <2>3 DEF TypeOK, ListInv, Goto
    <3>3. SortedInv'
      BY <2>1, <2>3 DEF TypeOK, SortedInv, Goto
    <3> QED
      BY <3>1, <3>2, <3>3
  <2> QED
    BY <1>10, <2>2, <2>3 DEF Broadcast
<1>11. ASSUME NEW t \in Threads, Raise(t)
       PROVE  IInv'
  <2> DEFINE w == Head(waiters[cond])
  <2>1. /\ holder = t /\ pc[t] \in {"signal", "broadcasting"} /\ cond \in Conds
        /\ waiters' \in [Conds -> Seq(Threads)]
        /\ \A d \in Conds : d # cond => waiters'[d] = waiters[d]
        /\ w \in Range(waiters[cond]) /\ w \in Threads
        /\ Range(waiters'[cond]) = Range(waiters[cond]) \ {w}
        /\ \A d \in Conds : IsInjective(waiters'[d])
    BY <1>11, PopStep
  <2>2. /\ value' = [value EXCEPT ![w] = @ + 1]
        /\ best' = {}
        /\ \/ pc' = [pc EXCEPT ![t] = "in"] /\ cond' = None
           \/ pc' = [pc EXCEPT ![t] = "broadcast"] /\ UNCHANGED cond
        /\ UNCHANGED <<holder, priority>>
    BY <1>11 DEF Raise, Goto
  <2> HIDE DEF w
  <2>3. /\ value[w] = 0 /\ w # t
        /\ pc[w] \in {"released", "asleep"}
    BY <2>1 DEF ListInv, TypeOK
  <2>4. /\ value' = [value EXCEPT ![w] = 1]
        /\ value'[w] = 1
        /\ \A u \in Threads : u # w => value'[u] = value[u]
    <3>1. /\ value \in [Threads -> {0, 1}] /\ w \in Threads
          /\ value[w] + 1 = 1
      BY <2>1, <2>3 DEF TypeOK
    <3> QED
      BY <2>2, <3>1
  <2>5. TypeOK'
    <3>1. value' \in [Threads -> {0, 1}]
      BY <2>1, <2>4 DEF TypeOK
    <3>2. /\ holder' \in Threads \cup {Nobody} /\ best' \subseteq Threads
          /\ priority' \in [Threads -> Priorities]
          /\ waiters' \in [Conds -> Seq(Threads)]
      BY <2>1, <2>2 DEF TypeOK
    <3>3. /\ pc' \in [Threads -> Inside \cup {"out", "released", "asleep",
                                              "woken"}]
          /\ cond' \in Conds \cup {None}
      BY <2>1, <2>2 DEF TypeOK
    <3>4. \A u \in Threads :
             /\ pc'[u] \in Inside <=> holder' = u
             /\ pc'[u] \in {"signal", "broadcast", "broadcasting"} =>
                  cond' # None
      BY <2>1, <2>2 DEF TypeOK
    <3> QED
      BY <3>1, <3>2, <3>3, <3>4 DEF TypeOK
  <2>6. ListInv'
    <3>1. \A d \in Conds, u \in Threads :
            u \in Range(waiters'[d]) <=> u \in Range(waiters[d]) /\ u # w
      <4> SUFFICES ASSUME NEW d \in Conds, NEW u \in Threads
                   PROVE  u \in Range(waiters'[d])
                            <=> u \in Range(waiters[d]) /\ u # w
        OBVIOUS
      <4>1. CASE d = cond
        BY <2>1, <4>1
      <4>2. CASE d # cond
        BY <2>1, <4>2 DEF ListInv
      <4> QED
        BY <4>1, <4>2
    <3>2. \A u \in Threads : u # t => pc'[u] = pc[u]
      BY <2>2 DEF TypeOK
    <3>3. pc'[t] \in {"in", "broadcast"}
      BY <2>2 DEF TypeOK
    <3>4. \A d \in Conds, u \in Threads : u \in Range(waiters'[d]) =>
            pc'[u] \in {"listed", "released", "asleep"} /\ value'[u] = 0
      BY <2>1, <2>4, <3>1, <3>2 DEF ListInv
    <3>5. \A u \in Threads :
            /\ pc'[u] = "listed" => value'[u] = 0
            /\ pc'[u] \in {"listed", "released", "asleep"} /\ value'[u] = 0 =>
                 \E d \in Conds : u \in Range(waiters'[d])
      <4> SUFFICES ASSUME NEW u \in Threads
                   PROVE
            /\ pc'[u] = "listed" => value'[u] = 0
            /\ pc'[u] \in {"listed", "released", "asleep"} /\ value'[u] = 0 =>
                 \E d \in Conds : u \in Range(waiters'[d])
        OBVIOUS
      <4>1. CASE u = t
        BY <3>3, <4>1
      <4>2. CASE u = w
        BY <2>3, <2>4, <3>2, <4>2
      <4>3. CASE u # t /\ u # w
        BY <2>4, <3>1, <3>2, <4>3 DEF ListInv
      <4> QED
        BY <4>1, <4>2, <4>3
    <3>6. \A c, d \in Conds : \A u \in Threads :
            u \in Range(waiters'[c]) /\ u \in Range(waiters'[d]) => c = d
      BY <3>1 DEF ListInv
    <3> QED
      BY <2>1, <3>4, <3>5, <3>6 DEF ListInv
  <2>7. SortedInv'
    BY <2>1, <2>2 DEF TypeOK, SortedInv
  <2> QED
    BY <2>5, <2>6, <2>7
<1> QED
  BY <1>1, <1>2, <1>3, <1>4, <1>5, <1>6, <1>7, <1>8, <1>9, <1>10, <1>11
     DEF Next

(* IInv is an invariant of the condition variables, for any threads.       *)
THEOREM Invariance == Spec => []IInv
  BY InitIInv, NextIInv, PTL DEF Spec

(* Every variable keeps its type: a waiter's semaphore is raised once at   *)
(* most, and whoever is inside holds the lock.                             *)
THEOREM TypeCorrect == Spec => []TypeOK
<1>1. IInv => TypeOK
  BY DEF IInv
<1> QED
  BY <1>1, Invariance, PTL
-----------------------------------------------------------------------------
(* What the monitor's variables stand for, by name.                        *)
Waiting == [c \in Conds |-> {t \in Range(waiters[c]) : pc[t] # "listed"}]
Resumed == {t \in Threads :
              \/ pc[t] \in {"released", "asleep"} /\ value[t] = 1
              \/ pc[t] = "woken"}

(* The lists hold threads.                                                 *)
LEMMA Listed ==
  ASSUME TypeOK
  PROVE  \A c \in Conds : Range(waiters[c]) \subseteq Threads
<1> SUFFICES ASSUME NEW c \in Conds
             PROVE  Range(waiters[c]) \subseteq Threads
  OBVIOUS
<1>1. waiters[c] \in Seq(Threads)
  BY DEF TypeOK
<1> QED
  BY <1>1, SeqSet

(* The steps the monitor does not see.                                     *)
LEMMA Stutter ==
  ASSUME TypeOK, ListInv, TypeOK',
         \A d \in Conds : Range(waiters'[d]) = Range(waiters[d]),
         \A t \in Threads :
            \/ pc'[t] = pc[t] /\ value'[t] = value[t]
            \/ /\ \A d \in Conds : t \notin Range(waiters[d])
               /\ t \in Resumed <=> t \in Resumed'
            \/ /\ pc[t] # "listed" /\ pc'[t] # "listed"
               /\ t \in Resumed <=> t \in Resumed'
  PROVE  Waiting' = Waiting /\ Resumed' = Resumed
<1>1. \A d \in Conds : Range(waiters[d]) \subseteq Threads
  BY Listed
<1>2. \A d \in Conds, t \in Threads :
        t \in Range(waiters'[d]) /\ pc'[t] # "listed"
          <=> t \in Range(waiters[d]) /\ pc[t] # "listed"
  OBVIOUS
<1>3. Waiting' = Waiting
  BY <1>1, <1>2 DEF Waiting
<1>4. \A t \in Threads : t \in Resumed <=> t \in Resumed'
  BY DEF Resumed
<1>5. Resumed \subseteq Threads /\ Resumed' \subseteq Threads
  BY DEF Resumed
<1> QED
  BY <1>3, <1>4, <1>5

LEMMA InitRefines == Init => M!Init
<1> SUFFICES ASSUME Init
             PROVE  M!Init
  OBVIOUS
<1>1. \A c \in Conds : Range(waiters[c]) = {}
  BY DEF Init, Range
<1>2. Waiting = [c \in Conds |-> {}]
  BY <1>1 DEF Waiting
<1>3. Resumed = {}
  BY DEF Init, Resumed
<1> QED
  BY <1>2, <1>3 DEF Init, M!Init, Waiting, Resumed

(* Every step is a step of the monitor, or one it does not see.            *)
LEMMA RefineStep ==
  ASSUME IInv, IInv', [Next]_vars
  PROVE  M!Next \/ UNCHANGED <<holder, Waiting, Resumed>>
<1> USE ConditionAssumption DEF IInv, Inside
<1>0. \A c \in Conds : Range(waiters[c]) \subseteq Threads
  BY Listed
<1>1. CASE UNCHANGED vars
  BY <1>1 DEF vars, Waiting, Resumed
<1>2. ASSUME NEW t \in Threads, lock_acquire(t)
      PROVE  M!Enter(t)
  <2>1. /\ holder = Nobody /\ holder' = t
        /\ \A d \in Conds : t \notin Range(waiters[d])
        /\ pc' = [pc EXCEPT ![t] = "in"] /\ UNCHANGED <<waiters, value>>
    BY <1>2 DEF lock_acquire, Goto, ListInv
  <2>2. Waiting' = Waiting
    BY <2>1, <1>0 DEF Waiting, TypeOK
  <2>3. Resumed' = Resumed \ {t}
    BY <2>1 DEF Resumed, TypeOK
  <2>4. t \notin UNION {Waiting[c] : c \in Conds}
    BY <2>1 DEF Waiting
  <2> QED
    BY <2>1, <2>2, <2>3, <2>4 DEF M!Enter, Waiting, Resumed
<1>3. ASSUME NEW t \in Threads, lock_release(t)
      PROVE  M!Leave(t)
  <2>1. /\ holder = t /\ holder' = Nobody /\ pc[t] = "in"
        /\ pc' = [pc EXCEPT ![t] = "out"] /\ UNCHANGED <<waiters, value>>
    BY <1>3 DEF lock_release, Goto, TypeOK
  <2>2. Waiting' = Waiting /\ Resumed' = Resumed
    <3>1. \A u \in Threads : u # t => pc'[u] = pc[u]
      BY <2>1 DEF TypeOK
    <3>2. \A d \in Conds : t \notin Range(waiters[d])
      BY <2>1 DEF ListInv
    <3>3. t \notin Resumed /\ t \notin Resumed'
      BY <2>1 DEF Resumed, TypeOK
    <3> QED
      BY <2>1, <3>1, <3>2, <3>3, Stutter
  <2> QED
    BY <2>1, <2>2 DEF M!Leave, Waiting, Resumed
<1>4. ASSUME NEW t \in Threads, WaitRelease(t)
      PROVE  \E c \in Conds : M!Wait(t, c)
  <2>1. /\ holder = t /\ holder' = Nobody /\ pc[t] = "listed"
        /\ pc' = [pc EXCEPT ![t] = "released"] /\ UNCHANGED <<waiters, value>>
    BY <1>4 DEF WaitRelease, Goto, TypeOK
  <2>2. PICK c \in Conds : t \in Range(waiters[c])
    BY <2>1 DEF ListInv
  <2>3. \A d \in Conds : t \in Range(waiters[d]) => d = c
    BY <2>2 DEF ListInv
  <2>4. /\ pc'[t] # "listed"
        /\ \A u \in Threads : u # t => pc'[u] = pc[u]
    BY <2>1 DEF TypeOK
  <2>5. /\ Waiting'[c] = Waiting[c] \cup {t}
        /\ \A d \in Conds : d # c => Waiting'[d] = Waiting[d]
    BY <1>0, <2>1, <2>2, <2>3, <2>4 DEF Waiting
  <2>6. Waiting' = [Waiting EXCEPT ![c] = @ \cup {t}]
    BY <2>5 DEF Waiting
  <2>7. Resumed' = Resumed
    <3>1. value[t] # 1
      BY <2>1 DEF ListInv
    <3> QED
      BY <2>1, <2>4, <3>1 DEF Resumed, TypeOK
  <2> QED
    BY <2>1, <2>6, <2>7 DEF M!Wait, Waiting, Resumed
<1>5. ASSUME NEW t \in Threads, WaitDown(t)
      PROVE  UNCHANGED <<holder, Waiting, Resumed>>
  <2>1. /\ UNCHANGED <<holder, waiters>>
        /\ \A u \in Threads : u # t => pc'[u] = pc[u] /\ value'[u] = value[u]
        /\ pc[t] \in {"released", "asleep"}
        /\ \/ value[t] = 1 /\ pc'[t] = "woken"
           \/ value[t] = 0 /\ pc'[t] = "asleep" /\ value'[t] = 0
    BY <1>5 DEF WaitDown, Goto, TypeOK
  <2>2. t \in Resumed <=> t \in Resumed'
    BY <2>1 DEF Resumed
  <2>3. Waiting' = Waiting /\ Resumed' = Resumed
    BY <2>1, <2>2, Stutter
  <2> QED
    BY <2>1, <2>3
<1>6. ASSUME NEW t \in Threads, NEW c \in Conds, cond_wait(t, c)
      PROVE  UNCHANGED <<holder, Waiting, Resumed>>
  <2>1. /\ pc[t] = "in" /\ pc'[t] = "listed" /\ value'[t] = 0
        /\ \A u \in Threads : u # t => pc'[u] = pc[u] /\ value'[u] = value[u]
        /\ UNCHANGED holder
    BY <1>6 DEF cond_wait, Goto, TypeOK
  <2>2. /\ waiters' \in [Conds -> Seq(Threads)]
        /\ \A d \in Conds : d # c => waiters'[d] = waiters[d]
        /\ Range(waiters'[c]) = Range(waiters[c]) \cup {t}
        /\ \A d \in Conds : t \notin Range(waiters[d])
    BY <1>6, WaitStep
  <2>3. \A d \in Conds, u \in Threads :
          u \in Range(waiters'[d]) /\ pc'[u] # "listed"
            <=> u \in Range(waiters[d]) /\ pc[u] # "listed"
    BY <2>1, <2>2
  <2>4. \A d \in Conds : Range(waiters'[d]) \subseteq Threads
    BY <2>2, SeqSet
  <2>5. Waiting' = Waiting
    BY <1>0, <2>3, <2>4 DEF Waiting
  <2>6. Resumed' = Resumed
    BY <2>1 DEF Resumed
  <2> QED
    BY <2>1, <2>5, <2>6
<1>7. ASSUME NEW t \in Threads, NEW c \in Conds, cond_signal(t, c)
      PROVE  UNCHANGED <<holder, Waiting, Resumed>>
  <2>1. /\ pc[t] = "in" /\ pc'[t] = "signal" /\ Sort(c)
        /\ \A u \in Threads : u # t => pc'[u] = pc[u]
        /\ UNCHANGED <<holder, value>>
    BY <1>7 DEF cond_signal, Sort, Goto, TypeOK
  <2>2. \A d \in Conds : Range(waiters'[d]) = Range(waiters[d])
    BY <2>1, SortStep
  <2>3. t \notin Resumed /\ t \notin Resumed'
    BY <2>1 DEF Resumed
  <2>4. Waiting' = Waiting /\ Resumed' = Resumed
    BY <2>1, <2>2, <2>3, Stutter
  <2> QED
    BY <2>1, <2>4
<1>8. ASSUME NEW t \in Threads, NEW c \in Conds, cond_broadcast(t, c)
      PROVE  UNCHANGED <<holder, Waiting, Resumed>>
  <2>1. /\ pc[t] = "in" /\ pc'[t] = "broadcast"
        /\ \A u \in Threads : u # t => pc'[u] = pc[u]
        /\ UNCHANGED <<holder, value, waiters>>
    BY <1>8 DEF cond_broadcast, Goto, TypeOK
  <2>2. t \notin Resumed /\ t \notin Resumed'
    BY <2>1 DEF Resumed
  <2>3. Waiting' = Waiting /\ Resumed' = Resumed
    BY <2>1, <2>2, Stutter
  <2> QED
    BY <2>1, <2>3
<1>9. ASSUME NEW t \in Threads, Broadcast(t)
      PROVE  UNCHANGED <<holder, Waiting, Resumed>>
  <2>1. /\ pc[t] = "broadcast" /\ pc'[t] \in {"broadcasting", "in"}
        /\ \A u \in Threads : u # t => pc'[u] = pc[u]
        /\ UNCHANGED <<holder, value>>
        /\ cond \in Conds
    BY <1>9 DEF Broadcast, Sort, Goto, TypeOK
  <2>2. \A d \in Conds : Range(waiters'[d]) = Range(waiters[d])
    BY <1>9, <2>1, SortStep DEF Broadcast
  <2>3. t \notin Resumed /\ t \notin Resumed'
    BY <2>1 DEF Resumed
  <2>4. Waiting' = Waiting /\ Resumed' = Resumed
    BY <2>1, <2>2, <2>3, Stutter
  <2> QED
    BY <2>1, <2>4
<1>10. ASSUME NEW t \in Threads, Raise(t)
       PROVE  \E c \in Conds : M!Signal(t, c)
  <2> DEFINE w == Head(waiters[cond])
  <2>1. /\ holder = t /\ pc[t] \in {"signal", "broadcasting"} /\ cond \in Conds
        /\ waiters' \in [Conds -> Seq(Threads)]
        /\ \A d \in Conds : d # cond => waiters'[d] = waiters[d]
        /\ w \in Range(waiters[cond]) /\ w \in Threads
        /\ Range(waiters'[cond]) = Range(waiters[cond]) \ {w}
    BY <1>10, PopStep
  <2>2. /\ value' = [value EXCEPT ![w] = @ + 1]
        /\ pc'[t] \in {"in", "broadcast"}
        /\ \A u \in Threads : u # t => pc'[u] = pc[u]
        /\ UNCHANGED holder
    BY <1>10 DEF Raise, Goto, TypeOK
  <2> HIDE DEF w
  <2>3. value[w] = 0 /\ w # t /\ pc[w] \in {"released", "asleep"}
    BY <2>1 DEF ListInv, TypeOK
  <2>4. /\ value'[w] = 1 /\ pc'[w] = pc[w]
        /\ \A u \in Threads : u # w => value'[u] = value[u]
    <3>1. value[w] + 1 = 1
      BY <2>3
    <3> QED
      BY <2>1, <2>2, <2>3, <3>1 DEF TypeOK
  <2>5. t \notin Range(waiters[cond])
    BY <2>1 DEF ListInv
  <2>6. \A d \in Conds : t \notin Range(waiters[d])
    BY <2>1 DEF ListInv
  <2>7. /\ Waiting'[cond] = Waiting[cond] \ {w}
        /\ \A d \in Conds : d # cond => Waiting'[d] = Waiting[d]
        /\ w \in Waiting[cond]
    <3>1. \A u \in Threads : u # t => pc'[u] = pc[u]
      BY <2>2 DEF TypeOK
    <3>2. \A d \in Conds : \A u \in Range(waiters[d]) : pc'[u] = pc[u]
      BY <1>0, <2>6, <3>1
    <3>3. /\ Range(waiters'[cond]) \subseteq Range(waiters[cond])
          /\ \A d \in Conds : d # cond =>
               Range(waiters'[d]) = Range(waiters[d])
      BY <2>1
    <3>4. /\ \A d \in Conds : d # cond => Waiting'[d] = Waiting[d]
          /\ w \in Waiting[cond]
      BY <2>1, <2>3, <3>2, <3>3 DEF Waiting
    <3>5. Waiting'[cond] = Waiting[cond] \ {w}
      BY <2>1, <3>2 DEF Waiting
    <3> QED
      BY <3>4, <3>5
  <2>8. Waiting' = [Waiting EXCEPT ![cond] = @ \ {w}]
    BY <2>7 DEF Waiting
  <2>9. Resumed' = Resumed \cup {w}
    BY <2>1, <2>2, <2>3, <2>4 DEF Resumed
  <2>10. PICK c \in Conds : c = cond
    BY <2>1
  <2>11. M!Signal(t, c)
    BY <2>1, <2>2, <2>7, <2>8, <2>9, <2>10 DEF M!Signal, Waiting, Resumed
  <2> QED
    BY <2>11
<1>11. ASSUME NEW t \in Threads, NEW p \in Priorities, Reprioritize(t, p)
       PROVE  UNCHANGED <<holder, Waiting, Resumed>>
  BY <1>11 DEF Reprioritize, Waiting, Resumed
<1>12. \A t \in Threads :
         /\ M!Enter(t) \/ M!Leave(t) => M!Next
         /\ \A c \in Conds : M!Wait(t, c) \/ M!Signal(t, c) => M!Next
  BY DEF M!Next
<1>13. \A t \in Threads :
         lock_acquire(t) \/ lock_release(t) \/ WaitRelease(t) \/ Raise(t)
           => M!Next
  <2> SUFFICES ASSUME NEW t \in Threads
               PROVE  /\ lock_acquire(t) => M!Next
                      /\ lock_release(t) => M!Next
                      /\ WaitRelease(t) => M!Next
                      /\ Raise(t) => M!Next
    OBVIOUS
  <2>1. lock_acquire(t) => M!Next
    BY <1>2, <1>12
  <2>2. lock_release(t) => M!Next
    BY <1>3, <1>12
  <2>3. WaitRelease(t) => M!Next
    BY <1>4, <1>12
  <2>4. Raise(t) => M!Next
    BY <1>10, <1>12
  <2> QED
    BY <2>1, <2>2, <2>3, <2>4
<1> QED
  BY <1>1, <1>5, <1>6, <1>7, <1>8, <1>9, <1>11, <1>13 DEF Next

(* The list of semaphores and the steps of cond_wait(), cond_signal() and  *)
(* cond_broadcast() are those of a monitor: no signal is lost between the  *)
(* release of the lock and the sleep, and none is taken twice.             *)
THEOREM ImplementsMesaMonitor == Spec => ImplementsMonitor
<1>1. IInv /\ IInv' /\ [Next]_vars => [M!Next]_(M!vars)
  BY RefineStep DEF M!vars, Waiting, Resumed
<1> QED
  BY <1>1, InitRefines, Invariance, PTL DEF Spec, ImplementsMonitor, M!Spec

(* Whatever arrives, falls asleep or changes priority between the sort and *)
(* the rise of the semaphore, the thread a signal takes off the list is    *)
(* one whom no sleeper on the condition outranked.                         *)
THEOREM SignalsHighest == Spec => SignalWakesHighest
<1> DEFINE Woken ==
      \A c \in Conds : Range(waiters[c]) \ Range(waiters'[c]) \subseteq best
<1>1. ASSUME IInv, [Next]_vars
      PROVE  Woken
  <2> USE DEF IInv
  <2>1. CASE UNCHANGED waiters
    BY <2>1
  <2>2. ASSUME NEW t \in Threads, NEW c \in Conds, cond_wait(t, c)
        PROVE  Woken
    BY <1>1, <2>2, WaitStep
  <2>3. ASSUME NEW t \in Threads, NEW c \in Conds, cond_signal(t, c)
        PROVE  Woken
    BY <1>1, <2>3, SortStep DEF cond_signal
  <2>4. ASSUME NEW t \in Threads, Broadcast(t)
        PROVE  Woken
    <3>1. cond \in Conds
      BY <1>1, <2>4 DEF Broadcast, TypeOK
    <3> QED
      BY <1>1, <2>1, <2>4, <3>1, SortStep DEF Broadcast
  <2>5. ASSUME NEW t \in Threads, Raise(t)
        PROVE  Woken
    BY <1>1, <2>5, PopStep
  <2> QED
    BY <1>1, <2>1, <2>2, <2>3, <2>4, <2>5 DEF Next, vars, lock_acquire,
       lock_release, WaitRelease, WaitDown, cond_broadcast, Reprioritize
<1>2. ASSUME IInv, [Next]_vars
      PROVE  [Woken]_vars
  BY <1>1, <1>2
<1> QED
  BY <1>2, Invariance, PTL DEF Spec, SignalWakesHighest
=============================================================================
