----------------------------- MODULE Condition -----------------------------
(***************************************************************************)
(* Condition variables, threads/synch.c.  A waiter sleeps on a semaphore   *)
(* of its own, in a semaphore_elem on its stack that is linked into the    *)
(* condition's list; a signal sorts the list by the priority of who sleeps *)
(* on each semaphore and raises the first.                                 *)
(*                                                                         *)
(* The lock is what Donation makes of one: a holder, and threads that get  *)
(* it in any order when it is free.  Interrupts are on: any thread that is *)
(* not blocked may take the next step, also between cond_wait()'s release  *)
(* of the lock and its sema_down().                                        *)
(***************************************************************************)
EXTENDS Naturals, SequencesExt

CONSTANTS
  Threads,
  Conds,        \* the condition variables of the one lock
  Priorities,
  Nobody,       \* holds a lock that is free
  None          \* no condition

ASSUME ConditionAssumption ==
  /\ Priorities \subseteq Nat
  /\ Nobody \notin Threads /\ None \notin Conds

VARIABLES
  pc,           \* "out": of the monitor; "in" it; inside, with a sorted list,
                \* "signal"; inside, in cond_broadcast(), "broadcast", and with
                \* a sorted list "broadcasting"; in cond_wait(): "listed",
                \* "released" the lock, "asleep", "woken" from sema_down()
  cond,         \* the condition the lock's holder signals or broadcasts
  holder,       \* of the lock
  waiters,      \* of each condition, by the thread that waits
  value,        \* of the waiters' semaphores
  priority,
  best          \* for the properties only: whom a signal may wake, which is
                \* who slept and was not outranked when the list was sorted

vars == <<pc, cond, holder, waiters, value, priority, best>>

Goto(t, point) == pc' = [pc EXCEPT ![t] = point]

(* The one thread that may be in the list of the waiter's semaphore is     *)
(* the waiter.                                                             *)
Empty(t) == pc[t] # "asleep"

(* Mutant of cmp_sema_priority: the smaller priority first.                *)
cmp_sema_inverted(a, b) ==
  ~Empty(a) /\ (Empty(b) \/ priority[a] < priority[b])

(* Ties are told apart by wakeup_ticks, which are 0 here: nobody uses the  *)
(* alarm.                                                                  *)
cmp_sema_priority(a, b) ==
  ~Empty(a) /\ (Empty(b) \/ priority[a] > priority[b])

(* list_sort() is stable.                                                  *)
Sorted(s) ==
  LET rank(i) == Cardinality({j \in DOMAIN s :
                     \/ cmp_sema_priority(s[j], s[i])
                     \/ j <= i /\ ~cmp_sema_priority(s[i], s[j])})
  IN  [k \in DOMAIN s |-> s[CHOOSE i \in DOMAIN s : rank(i) = k]]
-----------------------------------------------------------------------------
lock_acquire(t) ==
  /\ pc[t] \in {"out", "woken"}
  /\ holder = Nobody
  /\ holder' = t
  /\ Goto(t, "in")
  /\ UNCHANGED <<cond, waiters, value, priority, best>>

lock_release(t) ==
  /\ pc[t] = "in"
  /\ holder' = Nobody
  /\ Goto(t, "out")
  /\ UNCHANGED <<cond, waiters, value, priority, best>>

(* cond_wait(): the new semaphore has no waiter, so it goes to the end of  *)
(* the list ...                                                            *)
cond_wait(t, c) ==
  LET behind == {i \in DOMAIN waiters[c] : cmp_sema_priority(t, waiters[c][i])}
  IN  /\ pc[t] = "in"
      /\ value' = [value EXCEPT ![t] = 0]
      /\ waiters' = [waiters EXCEPT
                       ![c] = InsertAt(@, Min(behind \cup {Len(@) + 1}), t)]
      /\ Goto(t, "listed")
      /\ UNCHANGED <<cond, holder, priority, best>>

(* ... the lock is released ...                                            *)
WaitRelease(t) ==
  /\ pc[t] = "listed"
  /\ holder' = Nobody
  /\ Goto(t, "released")
  /\ UNCHANGED <<cond, waiters, value, priority, best>>

(* Mutant of WaitDown: the waiter does not wait for its semaphore.         *)
WaitDownNow(t) ==
  /\ pc[t] \in {"released", "asleep"}
  /\ Goto(t, "woken")
  /\ UNCHANGED <<cond, holder, waiters, value, priority, best>>

(* ... and the waiter takes its semaphore, or sleeps until it is raised.   *)
WaitDown(t) ==
  /\ \/ /\ pc[t] \in {"released", "asleep"} /\ value[t] > 0
        /\ value' = [value EXCEPT ![t] = @ - 1]
        /\ Goto(t, "woken")
     \/ /\ pc[t] = "released" /\ value[t] = 0
        /\ Goto(t, "asleep")
        /\ UNCHANGED value
  /\ UNCHANGED <<cond, holder, waiters, priority, best>>

(* cond_signal(): the list is sorted ...                                   *)
Sort(c) ==
  LET asleep == {t \in Range(waiters[c]) : ~Empty(t)}
  IN  /\ waiters[c] # <<>>
      /\ waiters' = [waiters EXCEPT ![c] = Sorted(@)]
      /\ best' = IF asleep = {} THEN Range(waiters[c])
                 ELSE {t \in asleep : \A u \in asleep : priority[u] <= priority[t]}
      /\ UNCHANGED <<holder, value, priority>>

cond_signal(t, c) ==
  /\ pc[t] = "in"
  /\ Sort(c)
  /\ cond' = c
  /\ Goto(t, "signal")

(* Mutant of Raise: the semaphore raised stays on the list.                *)
RaiseKeeps(t) ==
  /\ \/ pc[t] = "signal" /\ Goto(t, "in") /\ cond' = None
     \/ pc[t] = "broadcasting" /\ Goto(t, "broadcast") /\ UNCHANGED cond
  /\ value' = [value EXCEPT ![Head(waiters[cond])] = @ + 1]
  /\ best' = {}
  /\ UNCHANGED <<holder, waiters, priority>>

(* ... and its first semaphore is taken off and raised.                    *)
Raise(t) ==
  /\ \/ pc[t] = "signal" /\ Goto(t, "in") /\ cond' = None
     \/ pc[t] = "broadcasting" /\ Goto(t, "broadcast") /\ UNCHANGED cond
  /\ waiters' = [waiters EXCEPT ![cond] = Tail(@)]
  /\ value' = [value EXCEPT ![Head(waiters[cond])] = @ + 1]
  /\ best' = {}
  /\ UNCHANGED <<holder, priority>>

(* cond_broadcast(): signals until nobody is on the list.                  *)
cond_broadcast(t, c) ==
  /\ pc[t] = "in"
  /\ cond' = c
  /\ Goto(t, "broadcast")
  /\ UNCHANGED <<holder, waiters, value, priority, best>>

Broadcast(t) ==
  /\ pc[t] = "broadcast"
  /\ \/ Sort(cond) /\ Goto(t, "broadcasting") /\ UNCHANGED cond
     \/ /\ waiters[cond] = <<>>
        /\ Goto(t, "in")
        /\ cond' = None
        /\ UNCHANGED <<holder, waiters, value, priority, best>>

(* By thread_set_priority() of a thread that runs, or by a donation to one *)
(* that waits here and holds another lock.                                 *)
Reprioritize(t, p) ==
  /\ priority' = [priority EXCEPT ![t] = p]
  /\ UNCHANGED <<pc, cond, holder, waiters, value, best>>
-----------------------------------------------------------------------------
Init ==
  /\ pc = [t \in Threads |-> "out"]
  /\ cond = None
  /\ holder = Nobody
  /\ waiters = [c \in Conds |-> <<>>]
  /\ value = [t \in Threads |-> 0]
  /\ priority \in [Threads -> Priorities]
  /\ best = {}

Next ==
  \E t \in Threads :
     \/ lock_acquire(t) \/ lock_release(t)
     \/ \E c \in Conds : cond_wait(t, c) \/ cond_signal(t, c) \/ cond_broadcast(t, c)
     \/ WaitRelease(t) \/ WaitDown(t) \/ Broadcast(t) \/ Raise(t)
     \/ \E p \in Priorities : Reprioritize(t, p)

Spec == Init /\ [][Next]_vars
-----------------------------------------------------------------------------
Inside == {"in", "signal", "broadcast", "broadcasting", "listed"}

(* The semaphores are binary, and the lock's holder is the one inside.     *)
TypeOK ==
  /\ pc \in [Threads -> Inside \cup {"out", "released", "asleep", "woken"}]
  /\ cond \in Conds \cup {None}
  /\ holder \in Threads \cup {Nobody}
  /\ waiters \in [Conds -> Seq(Threads)]
  /\ value \in [Threads -> {0, 1}]
  /\ priority \in [Threads -> Priorities]
  /\ best \subseteq Threads
  /\ \A t \in Threads :
       /\ pc[t] \in Inside <=> holder = t
       /\ pc[t] \in {"signal", "broadcast", "broadcasting"} => cond # None

(* "Tests that cond_signal() wakes up the highest-priority thread waiting  *)
(* in cond_wait()" (priority-condvar.c:1): whatever priorities were when   *)
(* the waiters came, nobody who slept on the condition when the list was   *)
(* sorted outranked the one woken, whoever arrives, falls asleep or        *)
(* changes priority before the semaphore is raised.  (One that has         *)
(* released the lock and does not sleep yet is passed over: its semaphore  *)
(* is empty and sorts last.)                                               *)
SignalWakesHighest ==
  [][\A c \in Conds : Range(waiters[c]) \ Range(waiters'[c]) \subseteq best]_vars

(* A monitor: a thread listed that still holds the lock is inside.         *)
M == INSTANCE Monitor WITH
       inside <- holder,
       waiting <- [c \in Conds |-> {t \in Range(waiters[c]) : pc[t] # "listed"}],
       resumed <- {t \in Threads : \/ pc[t] \in {"released", "asleep"} /\ value[t] = 1
                                   \/ pc[t] = "woken"}

(* Releasing the lock and going to sleep are two steps, and signals fall   *)
(* between them: still no signal is lost, none wakes two waiters or a      *)
(* waiter twice, and nobody leaves cond_wait() without one or with its     *)
(* semaphore, which is on its stack, still on the list.                    *)
ImplementsMonitor == M!Spec
=============================================================================
