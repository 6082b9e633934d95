------------------------------ MODULE Donation ------------------------------
(***************************************************************************)
(* Locks with priority donation: lock_acquire(), lock_try_acquire(),       *)
(* lock_release() and thread_set_priority() of threads/synch.c and         *)
(* threads/thread.c, on the ready list of Threads.                         *)
(*                                                                         *)
(* sema_down() and sema_up() turn interrupts off and are one step each;    *)
(* everything else in these functions runs with interrupts on, one step    *)
(* per access to what other threads change, and the timer may take the CPU *)
(* away between any two steps.  A donations list is a set, put together,   *)
(* swept and searched in one step each: the code never depends on its      *)
(* order.  No thread ends here.                                            *)
(***************************************************************************)
EXTENDS Threads

CONSTANTS
  Locks,
  NULL,
  DonationDepth   \* the turns lock_acquire's loop may take (cnt <= 8: nine)

ASSUME DonationAssumption ==
  /\ IsFiniteSet(Threads)
  /\ NULL \notin AllThreads \cup Locks
  /\ DonationDepth \in Nat

VARIABLES
  value,          \* lock->semaphore.value
  waiters,        \* lock->semaphore.waiters
  holder,         \* lock->holder
  base_priority,
  wait_on_lock,
  donations,
  pc,
  lock,           \* the lock a thread is acquiring or releasing, a local
  temp,           \* lock_acquire's temp, ...
  cnt,            \* ... cnt, ...
  new_holder,     \* ... new_holder, and whose donations it is about to join
  hop,            \* the temp->wait_on_lock it has just read
  max_p           \* recal_priority's max_p, and what lock_acquire has just read

lockVars == <<value, waiters, holder>>
donationVars == <<base_priority, wait_on_lock, donations>>
chainVars == <<temp, cnt, new_holder, hop>>
localVars == <<pc, lock, chainVars, max_p>>
vars == <<coreVars, lockVars, donationVars, localVars>>

Points == {"run", "donate", "join", "link", "chain", "turn", "holder", "peek",
           "compare", "give", "put", "down", "wait", "got", "held", "tried",
           "undonate", "recal", "store", "up", "preempt", "front", "yield",
           "fault", "panic"}

Running(t, point) == current = t /\ pc[t] = point
Goto(t, point) == pc' = [pc EXCEPT ![t] = point]
sched == <<status, ready_list, destruction_req, current, thread_ticks>>
-----------------------------------------------------------------------------
cmp_priority_only(a, b) == priority[a] > priority[b]

(* list_sort: stable, as the merge sort of lib/kernel/list.c is.           *)
SortedByPriority(s) ==
  LET rank(i) == Cardinality({j \in 1 .. Len(s) :
                     \/ cmp_priority_only(s[j], s[i])
                     \/ j <= i /\ ~ cmp_priority_only(s[i], s[j])})
  IN  [k \in 1 .. Len(s) |-> s[CHOOSE i \in 1 .. Len(s) : rank(i) = k]]

(* Mutant of sema_down: `if' for `while', a woken thread does not test the *)
(* value again.                                                            *)
sema_down_if(t, l) ==
  \/ /\ value[l] = 0 /\ pc[t] = "down"
     /\ waiters' = [waiters EXCEPT
                      ![l] = InsertOrdered(@, t, cmp_priority_only)]
     /\ thread_block
     /\ Goto(t, "wait")
     /\ UNCHANGED value
  \/ /\ value[l] > 0 \/ pc[t] = "wait"
     /\ value' = [value EXCEPT ![l] = @ - 1]
     /\ PreemptFrom(status, ready_list)
     /\ Goto(t, "got")
     /\ UNCHANGED waiters

(* One turn of sema_down()'s loop on l's semaphore: t blocks, or takes it  *)
(* and yields if a ready thread outranks it.                               *)
sema_down(t, l) ==
  \/ /\ value[l] = 0
     /\ waiters' = [waiters EXCEPT
                      ![l] = InsertOrdered(@, t, cmp_priority_only)]
     /\ thread_block
     /\ Goto(t, "wait")
     /\ UNCHANGED value
  \/ /\ value[l] > 0
     /\ value' = [value EXCEPT ![l] = @ - 1]
     /\ PreemptFrom(status, ready_list)
     /\ Goto(t, "got")
     /\ UNCHANGED waiters

(* Mutants of sema_up: no thread is woken, or the one woken is not taken   *)
(* off the waiters.                                                        *)
sema_up_silent(l) ==
  /\ value' = [value EXCEPT ![l] = @ + 1]
  /\ PreemptFrom(status, ready_list)
  /\ UNCHANGED waiters

sema_up_front(l) ==
  LET w == Head(SortedByPriority(waiters[l]))
  IN  /\ value' = [value EXCEPT ![l] = @ + 1]
      /\ IF waiters[l] = <<>>
         THEN PreemptFrom(status, ready_list)
         ELSE PreemptFrom([status EXCEPT ![w] = "READY"],
                ReadyInsert(w, ready_list, priority, wakeup_ticks))
      /\ UNCHANGED waiters

(* sema_up(): the first waiter after the sort becomes ready, and the       *)
(* caller yields if a ready thread outranks it.                            *)
sema_up(l) ==
  LET sorted == SortedByPriority(waiters[l])
      w      == Head(sorted)
  IN  /\ value' = [value EXCEPT ![l] = @ + 1]
      /\ IF waiters[l] = <<>>
         THEN PreemptFrom(status, ready_list) /\ UNCHANGED waiters
         ELSE /\ waiters' = [waiters EXCEPT ![l] = Tail(sorted)]
              /\ PreemptFrom([status EXCEPT ![w] = "READY"],
                   ReadyInsert(w, ready_list, priority, wakeup_ticks))
-----------------------------------------------------------------------------
(* lock_acquire(l): the holder is tested ...                               *)
lock_acquire(t, l) ==
  /\ Running(t, "run")
  /\ holder[l] # t
  /\ lock' = [lock EXCEPT ![t] = l]
  /\ Goto(t, IF holder[l] = NULL THEN "down" ELSE "donate")
  /\ UNCHANGED <<coreVars, lockVars, donationVars, chainVars, max_p>>

Donate(t) ==
  /\ Running(t, "donate")
  /\ wait_on_lock' = [wait_on_lock EXCEPT ![t] = lock[t]]
  /\ temp' = [temp EXCEPT ![t] = t]
  /\ Goto(t, "join")
  /\ UNCHANGED <<coreVars, lockVars, base_priority, donations, lock, cnt,
                 new_holder, hop, max_p>>

(* ... and read again to join its donations: if it has released the lock   *)
(* meanwhile, the kernel dereferences a null pointer.                      *)
Join(t) ==
  /\ Running(t, "join")
  /\ new_holder' = [new_holder EXCEPT ![t] = holder[lock[t]]]
  /\ Goto(t, IF holder[lock[t]] = NULL THEN "fault" ELSE "link")
  /\ UNCHANGED <<coreVars, lockVars, donationVars, lock, temp, cnt, hop, max_p>>

(* The holder that was read may have swept its list by now.  A donor that  *)
(* is still in such a list ties two lists together: what the kernel does   *)
(* when it walks them is not defined, and the model ends there.            *)
Link(t) ==
  /\ Running(t, "link")
  /\ \/ /\ \E u \in Threads : t \in donations[u]
        /\ Goto(t, "fault")
        /\ UNCHANGED <<donations, cnt>>
     \/ /\ \A u \in Threads : t \notin donations[u]
        /\ donations' = [donations EXCEPT ![new_holder[t]] = @ \cup {t}]
        /\ cnt' = [cnt EXCEPT ![t] = 0]
        /\ Goto(t, "chain")
  /\ new_holder' = [new_holder EXCEPT ![t] = NULL]
  /\ UNCHANGED <<coreVars, lockVars, base_priority, wait_on_lock, lock, temp,
                 hop, max_p>>

(* The loop that hands t's priority along the chain of holders: its end ...*)
ChainEnd(t) ==
  /\ Running(t, "chain")
  /\ wait_on_lock[temp[t]] = NULL \/ cnt[t] >= DonationDepth
  /\ Goto(t, "down")
  /\ temp' = [temp EXCEPT ![t] = t]
  /\ cnt' = [cnt EXCEPT ![t] = 0]
  /\ UNCHANGED <<coreVars, lockVars, donationVars, lock, new_holder, hop,
                 max_p>>

(* ... and one turn: temp->wait_on_lock is tested, and read again, ...     *)
ChainTurn(t) ==
  /\ Running(t, "chain")
  /\ wait_on_lock[temp[t]] # NULL /\ cnt[t] < DonationDepth
  /\ cnt' = [cnt EXCEPT ![t] = @ + 1]
  /\ Goto(t, "turn")
  /\ UNCHANGED <<coreVars, lockVars, donationVars, lock, temp, new_holder,
                 hop, max_p>>

ReadLock(t) ==
  /\ Running(t, "turn")
  /\ hop' = [hop EXCEPT ![t] = wait_on_lock[temp[t]]]
  /\ Goto(t, IF wait_on_lock[temp[t]] = NULL THEN "fault" ELSE "holder")
  /\ UNCHANGED <<coreVars, lockVars, donationVars, lock, temp, cnt,
                 new_holder, max_p>>

(* ... then the holder of that lock ...                                    *)
ReadHolder(t) ==
  /\ Running(t, "holder")
  /\ new_holder' = [new_holder EXCEPT ![t] = holder[hop[t]]]
  /\ hop' = [hop EXCEPT ![t] = NULL]
  /\ Goto(t, "peek")
  /\ UNCHANGED <<coreVars, lockVars, donationVars, lock, temp, cnt, max_p>>

(* ... and the priorities of the two, a fault if there is no holder.       *)
Peek(t) ==
  /\ Running(t, "peek")
  /\ max_p' = [max_p EXCEPT ![t] = priority[temp[t]]]
  /\ Goto(t, IF new_holder[t] = NULL THEN "fault" ELSE "compare")
  /\ UNCHANGED <<coreVars, lockVars, donationVars, lock, chainVars>>

Compare(t) ==
  LET higher == max_p[t] > priority[new_holder[t]]
  IN  /\ Running(t, "compare")
      /\ Goto(t, IF higher THEN "give" ELSE "chain")
      /\ temp' = IF higher THEN temp ELSE [temp EXCEPT ![t] = new_holder[t]]
      /\ new_holder' = IF higher THEN new_holder
                       ELSE [new_holder EXCEPT ![t] = NULL]
      /\ max_p' = [max_p EXCEPT ![t] = PRI_MIN]
      /\ UNCHANGED <<coreVars, lockVars, donationVars, lock, cnt, hop>>

(* The holder is given the priority t has by now, whatever has become of   *)
(* the holder since.                                                       *)
Give(t) ==
  /\ Running(t, "give")
  /\ max_p' = [max_p EXCEPT ![t] = priority[t]]
  /\ Goto(t, "put")
  /\ UNCHANGED <<coreVars, lockVars, donationVars, lock, chainVars>>

Put(t) ==
  /\ Running(t, "put")
  /\ priority' = [priority EXCEPT ![new_holder[t]] = max_p[t]]
  /\ temp' = [temp EXCEPT ![t] = new_holder[t]]
  /\ new_holder' = [new_holder EXCEPT ![t] = NULL]
  /\ max_p' = [max_p EXCEPT ![t] = PRI_MIN]
  /\ Goto(t, "chain")
  /\ UNCHANGED <<sched, wakeup_ticks, lockVars, donationVars, lock, cnt, hop>>

Down(t) ==
  /\ Running(t, "down") \/ Running(t, "wait")
  /\ sema_down(t, lock[t])
  /\ UNCHANGED <<priority, wakeup_ticks, holder, donationVars, lock, chainVars,
                 max_p>>

Got(t) ==
  /\ Running(t, "got")
  /\ holder' = [holder EXCEPT ![lock[t]] = t]
  /\ Goto(t, "held")
  /\ UNCHANGED <<coreVars, value, waiters, donationVars, lock, chainVars,
                 max_p>>

Held(t) ==
  /\ Running(t, "held")
  /\ wait_on_lock' = [wait_on_lock EXCEPT ![t] = NULL]
  /\ lock' = [lock EXCEPT ![t] = NULL]
  /\ Goto(t, "preempt")
  /\ UNCHANGED <<coreVars, lockVars, base_priority, donations, chainVars,
                 max_p>>

(* lock_try_acquire(l): sema_try_down(), then the holder is set.           *)
lock_try_acquire(t, l) ==
  /\ Running(t, "run")
  /\ holder[l] # t
  /\ value[l] > 0
  /\ value' = [value EXCEPT ![l] = @ - 1]
  /\ lock' = [lock EXCEPT ![t] = l]
  /\ Goto(t, "tried")
  /\ UNCHANGED <<coreVars, waiters, holder, donationVars, chainVars, max_p>>

Tried(t) ==
  /\ Running(t, "tried")
  /\ holder' = [holder EXCEPT ![lock[t]] = t]
  /\ lock' = [lock EXCEPT ![t] = NULL]
  /\ Goto(t, "run")
  /\ UNCHANGED <<coreVars, value, waiters, donationVars, chainVars, max_p>>
-----------------------------------------------------------------------------
lock_release(t, l) ==
  /\ Running(t, "run")
  /\ holder[l] = t
  /\ holder' = [holder EXCEPT ![l] = NULL]
  /\ lock' = [lock EXCEPT ![t] = l]
  /\ Goto(t, "undonate")
  /\ UNCHANGED <<coreVars, value, waiters, donationVars, chainVars, max_p>>

Undonate(t) ==
  /\ Running(t, "undonate")
  /\ donations' = [donations EXCEPT ![t] =
                     {u \in @ : wait_on_lock[u] # lock[t]}]
  /\ Goto(t, "recal")
  /\ UNCHANGED <<coreVars, lockVars, base_priority, wait_on_lock, lock,
                 chainVars, max_p>>

(* recal_priority(): a maximum is taken over the donors ...                *)
Recal(t) ==
  /\ Running(t, "recal")
  /\ max_p' = [max_p EXCEPT ![t] = Max({base_priority[t]} \cup
                                       {priority[u] : u \in donations[t]})]
  /\ Goto(t, "store")
  /\ UNCHANGED <<coreVars, lockVars, donationVars, lock, chainVars>>

(* ... and stored, over a donation that may have come in between.          *)
Store(t) ==
  /\ Running(t, "store")
  /\ priority' = [priority EXCEPT ![t] = max_p[t]]
  /\ max_p' = [max_p EXCEPT ![t] = PRI_MIN]
  /\ Goto(t, IF lock[t] = NULL THEN "preempt" ELSE "up")
  /\ UNCHANGED <<sched, wakeup_ticks, lockVars, donationVars, lock, chainVars>>

Up(t) ==
  /\ Running(t, "up")
  /\ sema_up(lock[t])
  /\ lock' = [lock EXCEPT ![t] = NULL]
  /\ Goto(t, "run")
  /\ UNCHANGED <<priority, wakeup_ticks, holder, donationVars, chainVars,
                 max_p>>

(* thread_set_priority(p): the base, then recal_priority().                *)
thread_set_priority(t, p) ==
  /\ Running(t, "run")
  /\ base_priority' = [base_priority EXCEPT ![t] = p]
  /\ Goto(t, "recal")
  /\ UNCHANGED <<coreVars, lockVars, wait_on_lock, donations, lock, chainVars,
                 max_p>>

(* preempt_priority() with interrupts on, as in Scheduler.                 *)
PreemptTest(t) ==
  /\ Running(t, "preempt")
  /\ Goto(t, IF ready_list = <<>> THEN "run" ELSE "front")
  /\ UNCHANGED <<coreVars, lockVars, donationVars, lock, chainVars, max_p>>

PreemptFront(t) ==
  /\ Running(t, "front")
  /\ Goto(t, IF ready_list = <<>> THEN "panic"
             ELSE IF priority[t] < priority[Head(ready_list)] THEN "yield"
             ELSE "run")
  /\ UNCHANGED <<coreVars, lockVars, donationVars, lock, chainVars, max_p>>

PreemptYield(t) ==
  /\ Running(t, "yield")
  /\ thread_yield
  /\ Goto(t, "run")
  /\ UNCHANGED <<priority, wakeup_ticks, lockVars, donationVars, lock,
                 chainVars, max_p>>

(* A timer interrupt: thread_tick(), and the yield on return once the      *)
(* slice has expired.  A kernel that has crashed takes none.               *)
Tick ==
  /\ current # Idle => pc[current] \notin {"fault", "panic"}
  /\ IF thread_ticks + 1 >= TimeSlice
     THEN thread_yield
     ELSE /\ thread_ticks' = thread_ticks + 1
          /\ UNCHANGED <<status, ready_list, destruction_req, current>>
  /\ UNCHANGED <<priority, wakeup_ticks, lockVars, donationVars, localVars>>
-----------------------------------------------------------------------------
(* Every thread has been created, with a priority of its own; the first of *)
(* the ready order runs and no lock has been used yet.                     *)
Init ==
  /\ priority \in {p \in [AllThreads -> Priorities \cup {PRI_MIN}] :
                     /\ p[Idle] = PRI_MIN
                     /\ \A t \in Threads : p[t] \in Priorities}
  /\ \E order \in SetToSeqs(Threads) :
       /\ \A i, j \in 1 .. Len(order) :
            i < j => priority[order[i]] >= priority[order[j]]
       /\ current = Head(order)
       /\ ready_list = Tail(order)
  /\ status = [t \in AllThreads |-> IF t = current THEN "RUNNING" ELSE "READY"]
  /\ wakeup_ticks = [t \in AllThreads |-> 0]
  /\ destruction_req = {}
  /\ thread_ticks = 0
  /\ value = [l \in Locks |-> 1]
  /\ waiters = [l \in Locks |-> <<>>]
  /\ holder = [l \in Locks |-> NULL]
  /\ base_priority = priority
  /\ wait_on_lock = [t \in Threads |-> NULL]
  /\ donations = [t \in Threads |-> {}]
  /\ pc = [t \in Threads |-> "run"]
  /\ lock = [t \in Threads |-> NULL]
  /\ temp = [t \in Threads |-> t]
  /\ cnt = [t \in Threads |-> 0]
  /\ new_holder = [t \in Threads |-> NULL]
  /\ hop = [t \in Threads |-> NULL]
  /\ max_p = [t \in Threads |-> PRI_MIN]

LockCall(t) ==
  \E l \in Locks :
     lock_acquire(t, l) \/ lock_try_acquire(t, l) \/ lock_release(t, l)

PriorityCall(t) == \E p \in Priorities : thread_set_priority(t, p)

Continue(t) ==
  \/ Donate(t) \/ Join(t) \/ Link(t)
  \/ ChainEnd(t) \/ ChainTurn(t) \/ ReadLock(t) \/ ReadHolder(t)
  \/ Peek(t) \/ Compare(t) \/ Give(t) \/ Put(t)
  \/ Down(t) \/ Got(t) \/ Held(t) \/ Tried(t)
  \/ Undonate(t) \/ Recal(t) \/ Store(t) \/ Up(t)
  \/ PreemptTest(t) \/ PreemptFront(t) \/ PreemptYield(t)

Next ==
  \/ \E t \in Threads : LockCall(t) \/ PriorityCall(t) \/ Continue(t)
  \/ Tick

Spec == Init /\ [][Next]_vars
-----------------------------------------------------------------------------
TypeOK ==
  /\ CoreTypeOK
  /\ value \in [Locks -> Nat]
  /\ waiters \in [Locks -> Seq(Threads)]
  /\ holder \in [Locks -> Threads \cup {NULL}]
  /\ base_priority \in [AllThreads -> PRI_MIN .. PRI_MAX]
  /\ wait_on_lock \in [Threads -> Locks \cup {NULL}]
  /\ donations \in [Threads -> SUBSET Threads]
  /\ pc \in [Threads -> Points]
  /\ lock \in [Threads -> Locks \cup {NULL}]
  /\ temp \in [Threads -> Threads]
  /\ cnt \in [Threads -> 0 .. DonationDepth]
  /\ new_holder \in [Threads -> Threads \cup {NULL}]
  /\ hop \in [Threads -> Locks \cup {NULL}]
  /\ max_p \in [Threads -> PRI_MIN .. PRI_MAX]

(* t is between the end of its sema_down() and its sema_up() of l.         *)
Owns(t, l) ==
  \/ holder[l] = t
  \/ /\ lock[t] = l
     /\ pc[t] \in {"got", "held", "tried", "undonate", "recal", "store", "up"}

(* "A lock can only be owned by a single thread at a time" (synch.c:172),  *)
(* and while one owns it no other can get past sema_down().                *)
MutualExclusion ==
  /\ \A l \in Locks, t, u \in Threads : Owns(t, l) /\ Owns(u, l) => t = u
  /\ \A l \in Locks, t \in Threads : Owns(t, l) => value[l] = 0

(* No wakeup is lost: a lock that is free while threads wait for it has    *)
(* been promised to one of them that is awake and about to try again.      *)
NoLostWakeup ==
  \A l \in Locks :
     value[l] > 0 /\ waiters[l] # <<>> =>
        \E t \in Threads : /\ pc[t] = "wait" /\ lock[t] = l
                           /\ status[t] \in {"READY", "RUNNING"}

(* t->elem is in one list at a time: the run queue, or the waiters of the  *)
(* one lock a BLOCKED thread waits for.                                    *)
ElemInOneList ==
  /\ ReadyQueueOK
  /\ \A l \in Locks : IsInjective(waiters[l])
  /\ \A l \in Locks, t \in Threads :
        t \in Range(waiters[l]) <=> status[t] = "BLOCKED" /\ lock[t] = l

(* lock_release() "restores the original priority from the donated one"    *)
(* (synch.c:269): when only its sema_up() is left to do, a thread that     *)
(* holds no other lock is back to its own priority.                        *)
DonationReturned ==
  \A t \in Threads :
     pc[t] = "up" /\ (\A l \in Locks : holder[l] # t) =>
        priority[t] = base_priority[t]

(* "Acquires LOCK, sleeping until it becomes available" (synch.c:188): an  *)
(* acquire never trips over a lock that is released at the same time.      *)
AcquireNeverFaults == \A t \in Threads : pc[t] # "fault"
=============================================================================
