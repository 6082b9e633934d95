-------------------------- MODULE Donation_proofs --------------------------
(***************************************************************************)
(* Proofs about Donation, for any threads, locks, priorities and depth of  *)
(* donation: a lock is owned by one thread at a time and no release of it  *)
(* is lost, whatever the timer and the donations do.                       *)
(***************************************************************************)
EXTENDS Donation, Threads_proofs

(* The types the proofs need.                                              *)
LockTypeOK ==
  /\ value \in [Locks -> Nat]
  /\ holder \in [Locks -> Threads \cup {NULL}]
  /\ pc \in [Threads -> Points]
  /\ lock \in [Threads -> Locks \cup {NULL}]
  /\ wait_on_lock \in [Threads -> Locks \cup {NULL}]
  /\ donations \in [Threads -> SUBSET Threads]
  /\ temp \in [Threads -> Threads]
  /\ new_holder \in [Threads -> Threads \cup {NULL}]
  /\ hop \in [Threads -> Locks \cup {NULL}]

(* The priorities stay in range, donated or not.                           *)
PriorityTypeOK ==
  /\ priority \in [AllThreads -> PRI_MIN .. PRI_MAX]
  /\ base_priority \in [AllThreads -> PRI_MIN .. PRI_MAX]
  /\ max_p \in [Threads -> PRI_MIN .. PRI_MAX]

(* The points of lock_acquire() between its test of the holder and its     *)
(* sema_down(), and the steps taken there.                                 *)
ChainPoints == {"donate", "join", "link", "chain", "turn", "holder", "peek",
                "compare", "give", "put"}

ChainWork(t) ==
  \/ Donate(t) \/ Join(t) \/ Link(t)
  \/ ChainEnd(t) \/ ChainTurn(t) \/ ReadLock(t) \/ ReadHolder(t)
  \/ Peek(t) \/ Compare(t) \/ Give(t) \/ Put(t)

(* The points at which a thread is past its sema_down() of lock[t] and not *)
(* its holder: before the holder is set, and after it is cleared.          *)
Passing == {"got", "tried", "undonate", "recal", "store", "up"}

(* Where each thread is in lock_acquire() or lock_release(), and what it   *)
(* has read by then.                                                       *)
LocalInv ==
  \A t \in Threads :
     /\ pc[t] \in {"run", "preempt", "front", "yield", "panic"} =>
          lock[t] = NULL
     /\ pc[t] \in ChainPoints \cup {"down", "wait", "got", "held", "tried",
                                     "undonate", "up"} => lock[t] \in Locks
     /\ pc[t] \in {"link", "compare", "give", "put"} =>
          new_holder[t] \in Threads
     /\ pc[t] = "holder" => hop[t] \in Locks

(* A lock has one owner at most; its semaphore is 0 while it has one, and  *)
(* its holder is not set while the owner is passing.                       *)
OwnerInv ==
  /\ \A l \in Locks : value[l] \in {0, 1}
  /\ \A t \in Threads, l \in Locks :
        /\ holder[l] = t => value[l] = 0
        /\ lock[t] = l /\ pc[t] \in Passing => value[l] = 0 /\ holder[l] = NULL
        /\ lock[t] = l /\ pc[t] = "held" => holder[l] = t
  /\ \A t, u \in Threads, l \in Locks :
        lock[t] = l /\ pc[t] \in Passing /\ lock[u] = l /\ pc[u] \in Passing
          => t = u

(* The rest of the types, and where a thread sleeps: nobody dies here, and *)
(* a BLOCKED thread is one asleep in the loop of its sema_down().          *)
SleepTypeOK ==
  /\ CoreTypeOK
  /\ waiters \in [Locks -> Seq(Threads)]
  /\ cnt \in [Threads -> 0 .. DonationDepth]

SleepInv ==
  /\ destruction_req = {}
  /\ \A t \in Threads :
        /\ status[t] \in {"RUNNING", "READY", "BLOCKED"}
        /\ status[t] = "BLOCKED" => pc[t] = "wait"
  /\ ElemInOneList
  /\ NoLostWakeup

IInv ==
  /\ LockTypeOK
  /\ PriorityTypeOK
  /\ SleepTypeOK
  /\ SleepInv
  /\ LocalInv
  /\ OwnerInv
-----------------------------------------------------------------------------
(* Between its test of the holder and its sema_down() a thread changes no  *)
(* lock and wakes nobody: it only gets on, or trips over a lock without a  *)
(* holder.                                                                 *)
LEMMA ChainFrame ==
  ASSUME LockTypeOK, NEW t \in Threads, ChainWork(t)
  PROVE  /\ current = t /\ pc[t] \in ChainPoints
         /\ \E point \in ChainPoints \cup {"down", "fault"} :
              pc' = [pc EXCEPT ![t] = point]
         /\ UNCHANGED <<sched, wakeup_ticks, value, waiters, holder, lock,
                        base_priority>>
<1>1. CASE Donate(t)
  BY <1>1 DEF Donate, Running, Goto, ChainPoints, lockVars, donationVars,
     chainVars, coreVars, sched
<1>2. CASE Join(t)
  BY <1>2 DEF Join, Running, Goto, ChainPoints, lockVars, donationVars,
     chainVars, coreVars, sched
<1>3. CASE Link(t)
  BY <1>3 DEF Link, Running, Goto, ChainPoints, lockVars, donationVars,
     chainVars, coreVars, sched
<1>4. CASE ChainEnd(t)
  BY <1>4 DEF ChainEnd, Running, Goto, ChainPoints, lockVars, donationVars,
     chainVars, coreVars, sched
<1>5. CASE ChainTurn(t)
  BY <1>5 DEF ChainTurn, Running, Goto, ChainPoints, lockVars, donationVars,
     chainVars, coreVars, sched
<1>6. CASE ReadLock(t)
  BY <1>6 DEF ReadLock, Running, Goto, ChainPoints, lockVars, donationVars,
     chainVars, coreVars, sched
<1>7. CASE ReadHolder(t)
  BY <1>7 DEF ReadHolder, Running, Goto, ChainPoints, lockVars, donationVars,
     chainVars, coreVars, sched
<1>8. CASE Peek(t)
  BY <1>8 DEF Peek, Running, Goto, ChainPoints, lockVars, donationVars,
     chainVars, coreVars, sched
<1>9. CASE Compare(t)
  BY <1>9 DEF Compare, Running, Goto, ChainPoints, lockVars, donationVars,
     chainVars, coreVars, sched
<1>10. CASE Give(t)
  BY <1>10 DEF Give, Running, Goto, ChainPoints, lockVars, donationVars,
     chainVars, coreVars, sched
<1>11. CASE Put(t)
  BY <1>11 DEF Put, Running, Goto, ChainPoints, lockVars, donationVars,
     chainVars, coreVars, sched
<1> QED
  BY <1>1, <1>2, <1>3, <1>4, <1>5, <1>6, <1>7, <1>8, <1>9, <1>10, <1>11
     DEF ChainWork

(* ... and keeps its own counts and reads in their types.                  *)
LEMMA ChainTypes ==
  ASSUME LockTypeOK, LocalInv, NEW t \in Threads, ChainWork(t)
  PROVE  /\ wait_on_lock' \in [Threads -> Locks \cup {NULL}]
         /\ donations' \in [Threads -> SUBSET Threads]
         /\ temp' \in [Threads -> Threads]
         /\ new_holder' \in [Threads -> Threads \cup {NULL}]
         /\ hop' \in [Threads -> Locks \cup {NULL}]
<1> USE DonationAssumption DEF LockTypeOK, LocalInv, ChainPoints
<1>1. CASE Donate(t)
  BY <1>1 DEF Donate, Running, donationVars, chainVars
<1>2. CASE Join(t)
  BY <1>2 DEF Join, Running, donationVars, chainVars
<1>3. CASE Link(t)
  BY <1>3 DEF Link, Running, donationVars, chainVars
<1>4. CASE ChainEnd(t)
  BY <1>4 DEF ChainEnd, Running, donationVars, chainVars
<1>5. CASE ChainTurn(t)
  BY <1>5 DEF ChainTurn, Running, donationVars, chainVars
<1>6. CASE ReadLock(t)
  BY <1>6 DEF ReadLock, Running, donationVars, chainVars
<1>7. CASE ReadHolder(t)
  BY <1>7 DEF ReadHolder, Running, donationVars, chainVars
<1>8. CASE Peek(t)
  BY <1>8 DEF Peek, Running, donationVars, chainVars
<1>9. CASE Compare(t)
  BY <1>9 DEF Compare, Running, donationVars, chainVars
<1>10. CASE Give(t)
  BY <1>10 DEF Give, Running, donationVars, chainVars
<1>11. CASE Put(t)
  BY <1>11 DEF Put, Running, donationVars, chainVars
<1> QED
  BY <1>1, <1>2, <1>3, <1>4, <1>5, <1>6, <1>7, <1>8, <1>9, <1>10, <1>11
     DEF ChainWork

(* ... while only t goes on to a point that uses what it has read.         *)
LEMMA ChainReads ==
  ASSUME LockTypeOK, LocalInv, NEW t \in Threads, ChainWork(t)
  PROVE  /\ \A u \in Threads \ {t} : /\ new_holder'[u] = new_holder[u]
                                     /\ hop'[u] = hop[u]
         /\ pc'[t] \in {"link", "compare", "give", "put"} =>
              new_holder'[t] \in Threads
         /\ pc'[t] = "holder" => hop'[t] \in Locks
<1> USE DonationAssumption DEF LockTypeOK, LocalInv, ChainPoints
<1>1. CASE Donate(t)
  BY <1>1 DEF Donate, Running, Goto, donationVars, chainVars
<1>2. CASE Join(t)
  BY <1>2 DEF Join, Running, Goto, donationVars, chainVars
<1>3. CASE Link(t)
  BY <1>3 DEF Link, Running, Goto, donationVars, chainVars
<1>4. CASE ChainEnd(t)
  BY <1>4 DEF ChainEnd, Running, Goto, donationVars, chainVars
<1>5. CASE ChainTurn(t)
  BY <1>5 DEF ChainTurn, Running, Goto, donationVars, chainVars
<1>6. CASE ReadLock(t)
  BY <1>6 DEF ReadLock, Running, Goto, donationVars, chainVars
<1>7. CASE ReadHolder(t)
  BY <1>7 DEF ReadHolder, Running, Goto, donationVars, chainVars
<1>8. CASE Peek(t)
  BY <1>8 DEF Peek, Running, Goto, donationVars, chainVars
<1>9. CASE Compare(t)
  BY <1>9 DEF Compare, Running, Goto, donationVars, chainVars
<1>10. CASE Give(t)
  BY <1>10 DEF Give, Running, Goto, donationVars, chainVars
<1>11. CASE Put(t)
  BY <1>11 DEF Put, Running, Goto, donationVars, chainVars
<1> QED
  BY <1>1, <1>2, <1>3, <1>4, <1>5, <1>6, <1>7, <1>8, <1>9, <1>10, <1>11
     DEF ChainWork
-----------------------------------------------------------------------------
(* Every step keeps the types ...                                          *)
LEMMA TypeStep ==
  ASSUME LockTypeOK, LocalInv, [Next]_vars
  PROVE  LockTypeOK'
<1> USE DonationAssumption DEF LockTypeOK, LocalInv, Points, AllThreads
<1>1. CASE UNCHANGED vars
  BY <1>1 DEF vars, lockVars, localVars, donationVars, chainVars, coreVars
<1>2. ASSUME NEW t \in Threads, NEW l \in Locks,
             lock_acquire(t, l)
      PROVE  LockTypeOK'
  BY <1>2 DEF lock_acquire, Running, Goto, lockVars,
     donationVars, chainVars, coreVars, sched
<1>3. ASSUME NEW t \in Threads, NEW l \in Locks,
             lock_try_acquire(t, l)
      PROVE  LockTypeOK'
  BY <1>3 DEF lock_try_acquire, Running, Goto, lockVars,
     donationVars, chainVars, coreVars, sched
<1>4. ASSUME NEW t \in Threads, NEW l \in Locks,
             lock_release(t, l)
      PROVE  LockTypeOK'
  BY <1>4 DEF lock_release, Running, Goto, lockVars,
     donationVars, chainVars, coreVars, sched
<1>5. ASSUME NEW t \in Threads, NEW p \in Priorities,
             thread_set_priority(t, p)
      PROVE  LockTypeOK'
  BY <1>5 DEF thread_set_priority, Running, Goto, lockVars,
     donationVars, chainVars, coreVars, sched
<1>6. ASSUME NEW t \in Threads, ChainWork(t)
      PROVE  LockTypeOK'
  BY <1>6, ChainFrame, ChainTypes DEF ChainPoints
<1>7. ASSUME NEW t \in Threads, Held(t)
      PROVE  LockTypeOK'
  BY <1>7 DEF Held, Running, Goto, lockVars,
     donationVars, chainVars, coreVars, sched
<1>8. ASSUME NEW t \in Threads, Down(t)
      PROVE  LockTypeOK'
  BY <1>8 DEF Down, sema_down, Running, Goto, lockVars,
     donationVars, chainVars, coreVars, sched
<1>9. ASSUME NEW t \in Threads, Got(t)
      PROVE  LockTypeOK'
  BY <1>9 DEF Got, Running, Goto, lockVars,
     donationVars, chainVars, coreVars, sched
<1>10. ASSUME NEW t \in Threads, Tried(t)
      PROVE  LockTypeOK'
  BY <1>10 DEF Tried, Running, Goto, lockVars,
     donationVars, chainVars, coreVars, sched
<1>11. ASSUME NEW t \in Threads, Undonate(t)
      PROVE  LockTypeOK'
  BY <1>11 DEF Undonate, Running, Goto, lockVars,
     donationVars, chainVars, coreVars, sched
<1>12. ASSUME NEW t \in Threads, Recal(t)
      PROVE  LockTypeOK'
  BY <1>12 DEF Recal, Running, Goto, lockVars,
     donationVars, chainVars, coreVars, sched
<1>13. ASSUME NEW t \in Threads, Store(t)
      PROVE  LockTypeOK'
  BY <1>13 DEF Store, Running, Goto, lockVars,
     donationVars, chainVars, coreVars, sched
<1>14. ASSUME NEW t \in Threads, Up(t)
      PROVE  LockTypeOK'
  BY <1>14 DEF Up, sema_up, Running, Goto, lockVars,
     donationVars, chainVars, coreVars, sched
<1>15. ASSUME NEW t \in Threads, PreemptTest(t)
      PROVE  LockTypeOK'
  BY <1>15 DEF PreemptTest, Running, Goto, lockVars,
     donationVars, chainVars, coreVars, sched
<1>16. ASSUME NEW t \in Threads, PreemptFront(t)
      PROVE  LockTypeOK'
  BY <1>16 DEF PreemptFront, Running, Goto, lockVars,
     donationVars, chainVars, coreVars, sched
<1>17. ASSUME NEW t \in Threads, PreemptYield(t)
      PROVE  LockTypeOK'
  BY <1>17 DEF PreemptYield, Running, Goto, lockVars,
     donationVars, chainVars, coreVars, sched
<1>18. CASE Tick
  BY <1>18 DEF Tick, lockVars, localVars, donationVars, chainVars
<1> QED
  BY <1>1, <1>2, <1>3, <1>4, <1>5, <1>6, <1>7, <1>8, <1>9, <1>10,
     <1>11, <1>12, <1>13, <1>14, <1>15, <1>16, <1>17, <1>18
     DEF Next, LockCall, PriorityCall, Continue, ChainWork

(* A thread's local `lock' is set exactly inside the two functions.        *)
LEMMA LocalStep ==
  ASSUME LockTypeOK, LocalInv, [Next]_vars
  PROVE  LocalInv'
<1> USE DonationAssumption DEF LockTypeOK, LocalInv, ChainPoints
<1>1. CASE UNCHANGED vars
  BY <1>1 DEF vars, lockVars, localVars, donationVars, chainVars, coreVars
<1>2. ASSUME NEW t \in Threads, NEW l \in Locks,
             lock_acquire(t, l)
      PROVE  LocalInv'
  BY <1>2 DEF lock_acquire, Running, Goto, lockVars,
     donationVars, chainVars, coreVars, sched
<1>3. ASSUME NEW t \in Threads, NEW l \in Locks,
             lock_try_acquire(t, l)
      PROVE  LocalInv'
  BY <1>3 DEF lock_try_acquire, Running, Goto, lockVars,
     donationVars, chainVars, coreVars, sched
<1>4. ASSUME NEW t \in Threads, NEW l \in Locks,
             lock_release(t, l)
      PROVE  LocalInv'
  BY <1>4 DEF lock_release, Running, Goto, lockVars,
     donationVars, chainVars, coreVars, sched
<1>5. ASSUME NEW t \in Threads, NEW p \in Priorities,
             thread_set_priority(t, p)
      PROVE  LocalInv'
  BY <1>5 DEF thread_set_priority, Running, Goto, lockVars,
     donationVars, chainVars, coreVars, sched
<1>6. ASSUME NEW t \in Threads, ChainWork(t)
      PROVE  LocalInv'
  BY <1>6, ChainFrame, ChainReads DEF ChainPoints
<1>7. ASSUME NEW t \in Threads, Held(t)
      PROVE  LocalInv'
  BY <1>7 DEF Held, Running, Goto, lockVars,
     donationVars, chainVars, coreVars, sched
<1>8. ASSUME NEW t \in Threads, Down(t)
      PROVE  LocalInv'
  BY <1>8 DEF Down, sema_down, Running, Goto, lockVars,
     donationVars, chainVars, coreVars, sched
<1>9. ASSUME NEW t \in Threads, Got(t)
      PROVE  LocalInv'
  BY <1>9 DEF Got, Running, Goto, lockVars,
     donationVars, chainVars, coreVars, sched
<1>10. ASSUME NEW t \in Threads, Tried(t)
      PROVE  LocalInv'
  BY <1>10 DEF Tried, Running, Goto, lockVars,
     donationVars, chainVars, coreVars, sched
<1>11. ASSUME NEW t \in Threads, Undonate(t)
      PROVE  LocalInv'
  BY <1>11 DEF Undonate, Running, Goto, lockVars,
     donationVars, chainVars, coreVars, sched
<1>12. ASSUME NEW t \in Threads, Recal(t)
      PROVE  LocalInv'
  BY <1>12 DEF Recal, Running, Goto, lockVars,
     donationVars, chainVars, coreVars, sched
<1>13. ASSUME NEW t \in Threads, Store(t)
      PROVE  LocalInv'
  BY <1>13 DEF Store, Running, Goto, lockVars,
     donationVars, chainVars, coreVars, sched
<1>14. ASSUME NEW t \in Threads, Up(t)
      PROVE  LocalInv'
  BY <1>14 DEF Up, sema_up, Running, Goto, lockVars,
     donationVars, chainVars, coreVars, sched
<1>15. ASSUME NEW t \in Threads, PreemptTest(t)
      PROVE  LocalInv'
  BY <1>15 DEF PreemptTest, Running, Goto, lockVars,
     donationVars, chainVars, coreVars, sched
<1>16. ASSUME NEW t \in Threads, PreemptFront(t)
      PROVE  LocalInv'
  BY <1>16 DEF PreemptFront, Running, Goto, lockVars,
     donationVars, chainVars, coreVars, sched
<1>17. ASSUME NEW t \in Threads, PreemptYield(t)
      PROVE  LocalInv'
  BY <1>17 DEF PreemptYield, Running, Goto, lockVars,
     donationVars, chainVars, coreVars, sched
<1>18. CASE Tick
  BY <1>18 DEF Tick, lockVars, localVars, donationVars, chainVars
<1> QED
  BY <1>1, <1>2, <1>3, <1>4, <1>5, <1>6, <1>7, <1>8, <1>9, <1>10,
     <1>11, <1>12, <1>13, <1>14, <1>15, <1>16, <1>17, <1>18
     DEF Next, LockCall, PriorityCall, Continue, ChainWork

(* Taking the semaphore makes an owner of a lock that had none; releasing *)
(* it leaves one that has none.                                            *)
LEMMA OwnerStep ==
  ASSUME LockTypeOK, LocalInv, OwnerInv, [Next]_vars
  PROVE  OwnerInv'
<1> USE DonationAssumption DEF LockTypeOK, LocalInv, OwnerInv, Passing
<1>1. CASE UNCHANGED vars
  BY <1>1 DEF vars, lockVars, localVars, donationVars, chainVars, coreVars
<1>2. ASSUME NEW t \in Threads, NEW l \in Locks,
             lock_acquire(t, l)
      PROVE  OwnerInv'
  BY <1>2 DEF lock_acquire, Running, Goto, lockVars,
     donationVars, chainVars, coreVars, sched
<1>3. ASSUME NEW t \in Threads, NEW l \in Locks,
             lock_try_acquire(t, l)
      PROVE  OwnerInv'
  BY <1>3 DEF lock_try_acquire, Running, Goto, lockVars,
     donationVars, chainVars, coreVars, sched
<1>4. ASSUME NEW t \in Threads, NEW l \in Locks,
             lock_release(t, l)
      PROVE  OwnerInv'
  <2>1. t # NULL /\ l # NULL
    BY DEF AllThreads
  <2>2. /\ value[l] = 0 /\ lock[t] = NULL
        /\ \A u \in Threads : ~ (lock[u] = l /\ pc[u] \in Passing)
        /\ \A u \in Threads : ~ (lock[u] = l /\ pc[u] = "held")
    BY <1>4, <2>1 DEF lock_release, Running
  <2>3. /\ holder' = [holder EXCEPT ![l] = NULL] /\ value' = value
        /\ lock' = [lock EXCEPT ![t] = l]
        /\ pc' = [pc EXCEPT ![t] = "undonate"]
    BY <1>4 DEF lock_release, Goto
  <2> QED
    BY <2>1, <2>2, <2>3
<1>5. ASSUME NEW t \in Threads, NEW p \in Priorities,
             thread_set_priority(t, p)
      PROVE  OwnerInv'
  BY <1>5 DEF thread_set_priority, Running, Goto, lockVars,
     donationVars, chainVars, coreVars, sched
<1>6. ASSUME NEW t \in Threads, ChainWork(t)
      PROVE  OwnerInv'
  <2>1. PICK point \in ChainPoints \cup {"down", "fault"} :
           pc' = [pc EXCEPT ![t] = point]
    BY <1>6, ChainFrame
  <2>2. point \notin Passing /\ point # "held"
    BY DEF ChainPoints
  <2> QED
    BY <1>6, <2>1, <2>2, ChainFrame
<1>7. ASSUME NEW t \in Threads, Held(t)
      PROVE  OwnerInv'
  BY <1>7 DEF Held, Running, Goto, lockVars,
     donationVars, chainVars, coreVars, sched
<1>8. ASSUME NEW t \in Threads, Down(t)
      PROVE  OwnerInv'
  BY <1>8 DEF Down, sema_down, Running, Goto, lockVars,
     donationVars, chainVars, coreVars, sched
<1>9. ASSUME NEW t \in Threads, Got(t)
      PROVE  OwnerInv'
  <2> DEFINE l == lock[t]
  <2>1. /\ l \in Locks /\ value[l] = 0 /\ holder[l] = NULL
        /\ NULL \notin Threads /\ NULL \notin Locks
        /\ \A u \in Threads \ {t} : ~ (lock[u] = l /\ pc[u] \in Passing)
        /\ \A u \in Threads : ~ (lock[u] = l /\ pc[u] = "held")
    BY <1>9 DEF Got, Running, AllThreads
  <2>2. /\ holder' = [holder EXCEPT ![l] = t] /\ value' = value
        /\ lock' = lock /\ pc' = [pc EXCEPT ![t] = "held"]
    BY <1>9 DEF Got, Goto
  <2> QED
    BY <2>1, <2>2
<1>10. ASSUME NEW t \in Threads, Tried(t)
      PROVE  OwnerInv'
  <2> DEFINE l == lock[t]
  <2>1. /\ l \in Locks /\ value[l] = 0 /\ holder[l] = NULL
        /\ NULL \notin Threads /\ NULL \notin Locks
        /\ \A u \in Threads \ {t} : ~ (lock[u] = l /\ pc[u] \in Passing)
        /\ \A u \in Threads : ~ (lock[u] = l /\ pc[u] = "held")
    BY <1>10 DEF Tried, Running, AllThreads
  <2>2. /\ holder' = [holder EXCEPT ![l] = t] /\ value' = value
        /\ lock' = [lock EXCEPT ![t] = NULL]
        /\ pc' = [pc EXCEPT ![t] = "run"]
    BY <1>10 DEF Tried, Goto
  <2> QED
    BY <2>1, <2>2
<1>11. ASSUME NEW t \in Threads, Undonate(t)
      PROVE  OwnerInv'
  BY <1>11 DEF Undonate, Running, Goto, lockVars,
     donationVars, chainVars, coreVars, sched
<1>12. ASSUME NEW t \in Threads, Recal(t)
      PROVE  OwnerInv'
  BY <1>12 DEF Recal, Running, Goto, lockVars,
     donationVars, chainVars, coreVars, sched
<1>13. ASSUME NEW t \in Threads, Store(t)
      PROVE  OwnerInv'
  BY <1>13 DEF Store, Running, Goto, lockVars,
     donationVars, chainVars, coreVars, sched
<1>14. ASSUME NEW t \in Threads, Up(t)
      PROVE  OwnerInv'
  <2> DEFINE l == lock[t]
  <2>1. /\ l \in Locks /\ value[l] = 0 /\ holder[l] = NULL
        /\ \A u \in Threads \ {t} : ~ (lock[u] = l /\ pc[u] \in Passing)
        /\ NULL \notin Threads /\ NULL \notin Locks
    BY <1>14 DEF Up, Running, AllThreads
  <2>2. /\ value'[l] = 1 /\ holder' = holder
        /\ \A k \in Locks \ {l} : value'[k] = value[k]
        /\ lock'[t] = NULL /\ pc'[t] = "run"
        /\ \A u \in Threads \ {t} : lock'[u] = lock[u] /\ pc'[u] = pc[u]
    BY <1>14, <2>1 DEF Up, sema_up, Goto
  <2> QED
    BY <2>1, <2>2
<1>15. ASSUME NEW t \in Threads, PreemptTest(t)
      PROVE  OwnerInv'
  BY <1>15 DEF PreemptTest, Running, Goto, lockVars,
     donationVars, chainVars, coreVars, sched
<1>16. ASSUME NEW t \in Threads, PreemptFront(t)
      PROVE  OwnerInv'
  BY <1>16 DEF PreemptFront, Running, Goto, lockVars,
     donationVars, chainVars, coreVars, sched
<1>17. ASSUME NEW t \in Threads, PreemptYield(t)
      PROVE  OwnerInv'
  BY <1>17 DEF PreemptYield, Running, Goto, lockVars,
     donationVars, chainVars, coreVars, sched
<1>18. CASE Tick
  BY <1>18 DEF Tick, lockVars, localVars, donationVars, chainVars
<1> QED
  BY <1>1, <1>2, <1>3, <1>4, <1>5, <1>6, <1>7, <1>8, <1>9, <1>10,
     <1>11, <1>12, <1>13, <1>14, <1>15, <1>16, <1>17, <1>18
     DEF Next, LockCall, PriorityCall, Continue, ChainWork

(* A priority is given to a holder as it was read.                         *)
LEMMA ChainPriorities ==
  ASSUME LockTypeOK, PriorityTypeOK, NEW t \in Threads, ChainWork(t)
  PROVE  PriorityTypeOK'
<1> USE DonationAssumption DEF LockTypeOK, PriorityTypeOK, AllThreads, PRI_MIN,
    PRI_MAX
<1>1. CASE Donate(t)
  BY <1>1 DEF Donate, Running, donationVars, chainVars, coreVars, sched
<1>2. CASE Join(t)
  BY <1>2 DEF Join, Running, donationVars, chainVars, coreVars, sched
<1>3. CASE Link(t)
  BY <1>3 DEF Link, Running, donationVars, chainVars, coreVars, sched
<1>4. CASE ChainEnd(t)
  BY <1>4 DEF ChainEnd, Running, donationVars, chainVars, coreVars, sched
<1>5. CASE ChainTurn(t)
  BY <1>5 DEF ChainTurn, Running, donationVars, chainVars, coreVars, sched
<1>6. CASE ReadLock(t)
  BY <1>6 DEF ReadLock, Running, donationVars, chainVars, coreVars, sched
<1>7. CASE ReadHolder(t)
  BY <1>7 DEF ReadHolder, Running, donationVars, chainVars, coreVars, sched
<1>8. CASE Peek(t)
  BY <1>8 DEF Peek, Running, donationVars, chainVars, coreVars, sched
<1>9. CASE Compare(t)
  BY <1>9 DEF Compare, Running, donationVars, chainVars, coreVars, sched
<1>10. CASE Give(t)
  BY <1>10 DEF Give, Running, donationVars, chainVars, coreVars, sched
<1>11. CASE Put(t)
  <2>1. /\ priority' = [priority EXCEPT ![new_holder[t]] = max_p[t]]
        /\ max_p' = [max_p EXCEPT ![t] = PRI_MIN]
        /\ base_priority' = base_priority
    BY <1>11 DEF Put, donationVars
  <2>2. priority' \in [AllThreads -> PRI_MIN .. PRI_MAX]
    BY <2>1
  <2> QED
    BY <2>1, <2>2
<1> QED
  BY <1>1, <1>2, <1>3, <1>4, <1>5, <1>6, <1>7, <1>8, <1>9, <1>10, <1>11
     DEF ChainWork

(* ... and the priorities functions.                                       *)
LEMMA PriorityTypeStep ==
  ASSUME LockTypeOK, PriorityTypeOK, [Next]_vars
  PROVE  PriorityTypeOK'
<1> USE DonationAssumption DEF LockTypeOK, PriorityTypeOK, AllThreads
<1>1. CASE UNCHANGED vars
  BY <1>1 DEF vars, lockVars, localVars, donationVars, chainVars, coreVars
<1>2. ASSUME NEW t \in Threads, NEW l \in Locks,
             lock_acquire(t, l)
      PROVE  PriorityTypeOK'
  BY <1>2 DEF lock_acquire, Running, Goto, lockVars,
     donationVars, chainVars, coreVars, sched
<1>3. ASSUME NEW t \in Threads, NEW l \in Locks,
             lock_try_acquire(t, l)
      PROVE  PriorityTypeOK'
  BY <1>3 DEF lock_try_acquire, Running, Goto, lockVars,
     donationVars, chainVars, coreVars, sched
<1>4. ASSUME NEW t \in Threads, NEW l \in Locks,
             lock_release(t, l)
      PROVE  PriorityTypeOK'
  BY <1>4 DEF lock_release, Running, Goto, lockVars,
     donationVars, chainVars, coreVars, sched
<1>5. ASSUME NEW t \in Threads, NEW p \in Priorities,
             thread_set_priority(t, p)
      PROVE  PriorityTypeOK'
  BY <1>5, ThreadsAssumption DEF thread_set_priority, Running, Goto, lockVars,
     donationVars, chainVars, coreVars, sched
<1>6. ASSUME NEW t \in Threads, ChainWork(t)
      PROVE  PriorityTypeOK'
  BY <1>6, ChainPriorities
<1>7. ASSUME NEW t \in Threads, Held(t)
      PROVE  PriorityTypeOK'
  BY <1>7 DEF Held, Running, Goto, lockVars,
     donationVars, chainVars, coreVars, sched
<1>8. ASSUME NEW t \in Threads, Down(t)
      PROVE  PriorityTypeOK'
  BY <1>8 DEF Down, sema_down, Running, Goto, lockVars,
     donationVars, chainVars, coreVars, sched
<1>9. ASSUME NEW t \in Threads, Got(t)
      PROVE  PriorityTypeOK'
  BY <1>9 DEF Got, Running, Goto, lockVars,
     donationVars, chainVars, coreVars, sched
<1>10. ASSUME NEW t \in Threads, Tried(t)
      PROVE  PriorityTypeOK'
  BY <1>10 DEF Tried, Running, Goto, lockVars,
     donationVars, chainVars, coreVars, sched
<1>11. ASSUME NEW t \in Threads, Undonate(t)
      PROVE  PriorityTypeOK'
  BY <1>11 DEF Undonate, Running, Goto, lockVars,
     donationVars, chainVars, coreVars, sched
<1>12. ASSUME NEW t \in Threads, Recal(t)
       PROVE  PriorityTypeOK'
  <2> DEFINE P == {base_priority[t]} \cup {priority[u] : u \in donations[t]}
  <2>1. 63 \in Nat /\ P \subseteq 0 .. 63 /\ P # {}
    BY DEF PRI_MIN, PRI_MAX
  <2>2. max_p' = [max_p EXCEPT ![t] = Max(P)]
    BY <1>12 DEF Recal
  <2> HIDE DEF P
  <2>3. Max(P) \in P
    BY <2>1, MaxOfBounded
  <2>4. Max(P) \in PRI_MIN .. PRI_MAX
    BY <2>1, <2>3 DEF PRI_MIN, PRI_MAX
  <2>5. UNCHANGED <<priority, base_priority>>
    BY <1>12 DEF Recal, coreVars, donationVars, chainVars
  <2> QED
    BY <2>2, <2>4, <2>5
<1>13. ASSUME NEW t \in Threads, Store(t)
      PROVE  PriorityTypeOK'
  <2>1. /\ priority' = [priority EXCEPT ![t] = max_p[t]]
        /\ max_p' = [max_p EXCEPT ![t] = PRI_MIN]
        /\ UNCHANGED base_priority
    BY <1>13 DEF Store, donationVars, chainVars
  <2>2. PRI_MIN \in PRI_MIN .. PRI_MAX
    BY DEF PRI_MIN, PRI_MAX
  <2> QED
    BY <2>1, <2>2
<1>14. ASSUME NEW t \in Threads, Up(t)
      PROVE  PriorityTypeOK'
  BY <1>14 DEF Up, sema_up, Running, Goto, lockVars,
     donationVars, chainVars, coreVars, sched
<1>15. ASSUME NEW t \in Threads, PreemptTest(t)
      PROVE  PriorityTypeOK'
  BY <1>15 DEF PreemptTest, Running, Goto, lockVars,
     donationVars, chainVars, coreVars, sched
<1>16. ASSUME NEW t \in Threads, PreemptFront(t)
      PROVE  PriorityTypeOK'
  BY <1>16 DEF PreemptFront, Running, Goto, lockVars,
     donationVars, chainVars, coreVars, sched
<1>17. ASSUME NEW t \in Threads, PreemptYield(t)
      PROVE  PriorityTypeOK'
  BY <1>17 DEF PreemptYield, Running, Goto, lockVars,
     donationVars, chainVars, coreVars, sched
<1>18. CASE Tick
  BY <1>18 DEF Tick, lockVars, localVars, donationVars, chainVars
<1> QED
  BY <1>1, <1>2, <1>3, <1>4, <1>5, <1>6, <1>7, <1>8, <1>9, <1>10,
     <1>11, <1>12, <1>13, <1>14, <1>15, <1>16, <1>17, <1>18
     DEF Next, LockCall, PriorityCall, Continue, ChainWork
-----------------------------------------------------------------------------
(* list_insert_ordered (&waiters, ..., cmp_priority_only) adds the thread  *)
(* it is given, and no other, to the waiters.                              *)
LEMMA WaitersInsert ==
  ASSUME NEW s \in Seq(Threads), NEW t \in Threads
  PROVE  /\ InsertOrdered(s, t, cmp_priority_only) \in Seq(Threads)
         /\ Range(InsertOrdered(s, t, cmp_priority_only)) = Range(s) \cup {t}
         /\ IsInjective(s) /\ t \notin Range(s) =>
              IsInjective(InsertOrdered(s, t, cmp_priority_only))
<1> DEFINE L == {i \in 1 .. Len(s) : cmp_priority_only(t, s[i])}
           r == InsertAt(s, Min(L \cup {Len(s) + 1}), t)
<1>1. L \subseteq 1 .. Len(s)
  OBVIOUS
<1>2. InsertOrdered(s, t, cmp_priority_only) = r
  BY DEF InsertOrdered
<1> HIDE DEF L
<1>3. /\ r \in Seq(Threads)
      /\ Range(r) = Range(s) \cup {t}
      /\ IsInjective(s) /\ t \notin Range(s) => IsInjective(r)
  BY <1>1, InsertMin
<1> QED
  BY <1>2, <1>3

(* list_sort (&waiters, cmp_priority_only) leaves the same threads.        *)
LEMMA WaitersSort ==
  ASSUME CoreTypeOK, NEW s \in Seq(Threads)
  PROVE  /\ SortedByPriority(s) \in Seq(Threads)
         /\ Len(SortedByPriority(s)) = Len(s)
         /\ Range(SortedByPriority(s)) = Range(s)
         /\ IsInjective(s) => IsInjective(SortedByPriority(s))
         /\ Descending(SortedByPriority(s), priority)
<1> DEFINE r == SortedByPriority(s)
           n == Len(s)
           rank(i) == Cardinality({j \in 1 .. n :
                        \/ cmp_priority_only(s[j], s[i])
                        \/ j <= i /\ ~ cmp_priority_only(s[i], s[j])})
<1>1. s \in Seq(AllThreads) /\ priority \in [AllThreads -> Int]
  BY OverAllThreads, PriorityType
<1>2. \A i \in 1 .. n : rank(i) = Cardinality(NotBehind(s, priority)[i])
  BY DEF NotBehind, cmp_priority_only
<1>3. r = [k \in 1 .. n |-> s[CHOOSE i \in 1 .. n : rank(i) = k]]
  BY DEF SortedByPriority
<1>4. \A k \in 1 .. n : \E i \in 1 .. n :
        Cardinality(NotBehind(s, priority)[i]) = k
  BY <1>1, SortRanks
<1> HIDE DEF r, rank
<1>5. \A k \in 1 .. n : \E i \in 1 .. n : rank(i) = k /\ r[k] = s[i]
  <2> SUFFICES ASSUME NEW k \in 1 .. n
               PROVE  \E i \in 1 .. n : rank(i) = k /\ r[k] = s[i]
    OBVIOUS
  <2> DEFINE c == CHOOSE i \in 1 .. n : rank(i) = k
  <2>1. \E i \in 1 .. n : rank(i) = k
    BY <1>2, <1>4
  <2>2. c \in 1 .. n /\ rank(c) = k
    BY <2>1
  <2>3. r[k] = s[c]
    BY <1>3
  <2> HIDE DEF c
  <2> QED
    BY <2>2, <2>3
<1>6. ByRank(s, priority, r) /\ r = [k \in 1 .. n |-> r[k]]
  BY <1>2, <1>3, <1>5 DEF ByRank
<1>7. /\ r \in Seq(AllThreads) /\ Len(r) = Len(s) /\ Range(r) = Range(s)
      /\ IsInjective(s) => IsInjective(r)
      /\ Descending(r, priority)
  BY <1>1, <1>6, SortPermutes
<1>8. r \in Seq(Threads)
  <2>1. \A k \in 1 .. n : r[k] \in Threads
    BY <1>5
  <2>2. r \in [1 .. n -> Threads]
    BY <1>3, <2>1
  <2> QED
    BY <2>2, FunIsSeq
<1> QED
  BY <1>7, <1>8 DEF r
-----------------------------------------------------------------------------
(* A step that wakes nobody and puts nobody to sleep, and whose threads    *)
(* wait on as they did but for one that takes its lock.                    *)
LEMMA AwakeStep ==
  ASSUME LockTypeOK, SleepTypeOK, SleepInv, LocalInv,
         SwitchedFrom(status),
         priority' \in [AllThreads -> PRI_MIN .. PRI_MAX],
         wakeup_ticks' = wakeup_ticks,
         waiters' = waiters,
         cnt' \in [Threads -> 0 .. DonationDepth],
         \A t \in Threads : pc[t] = "wait" =>
            \/ pc'[t] = "wait" /\ lock'[t] = lock[t]
            \/ status[t] = "RUNNING" /\ value'[lock[t]] = 0,
         \A l \in Locks : value'[l] > 0 /\ waiters[l] # <<>> => value[l] > 0
  PROVE  SleepTypeOK' /\ SleepInv'
<1> USE DEF SleepTypeOK, SleepInv, SwitchedFrom
<1>1. SleepTypeOK'
  BY DEF CoreTypeOK
<1>2. \A t \in Threads :
        /\ status'[t] = "BLOCKED" <=> status[t] = "BLOCKED"
        /\ status[t] = "BLOCKED" => pc'[t] = "wait" /\ lock'[t] = lock[t]
        /\ status'[t] \in {"RUNNING", "READY", "BLOCKED"}
  OBVIOUS
<1>3. ElemInOneList'
  <2>1. \A l \in Locks : IsInjective(waiters'[l])
    BY DEF ElemInOneList
  <2>2. \A l \in Locks, t \in Threads :
          t \in Range(waiters[l]) <=> status[t] = "BLOCKED" /\ lock[t] = l
    BY DEF ElemInOneList
  <2>3. \A l \in Locks, t \in Threads :
          t \in Range(waiters'[l]) <=> status'[t] = "BLOCKED" /\ lock'[t] = l
    <3> SUFFICES ASSUME NEW l \in Locks, NEW t \in Threads
                 PROVE  t \in Range(waiters'[l]) <=>
                          status'[t] = "BLOCKED" /\ lock'[t] = l
      OBVIOUS
    <3>1. waiters'[l] = waiters[l]
      OBVIOUS
    <3>2. status'[t] = "BLOCKED" <=> status[t] = "BLOCKED"
      BY <1>2
    <3>3. status[t] = "BLOCKED" => lock'[t] = lock[t]
      BY <1>2
    <3> QED
      BY <2>2, <3>1, <3>2, <3>3, Zenon
  <2> QED
    BY <2>1, <2>3 DEF ElemInOneList
<1>4. NoLostWakeup'
  <2> SUFFICES ASSUME NEW l \in Locks, value'[l] > 0, waiters[l] # <<>>
               PROVE  \E t \in Threads : /\ pc'[t] = "wait" /\ lock'[t] = l
                                         /\ status'[t] \in {"READY", "RUNNING"}
    BY DEF NoLostWakeup
  <2>1. PICK t \in Threads : /\ pc[t] = "wait" /\ lock[t] = l
                             /\ status[t] \in {"READY", "RUNNING"}
    BY DEF NoLostWakeup
  <2>2. pc'[t] = "wait" /\ lock'[t] = l
    BY <2>1, 0 \in Nat
  <2> QED
    BY <2>1, <2>2
<1> QED
  BY <1>1, <1>2, <1>3, <1>4

(* Most steps only move the current thread: the rest is as it was.         *)
LEMMA LocalOnly ==
  ASSUME LockTypeOK, PriorityTypeOK', SleepTypeOK, SleepInv, LocalInv,
         NEW t \in Threads, current = t, pc[t] # "wait",
         UNCHANGED sched, wakeup_ticks' = wakeup_ticks, waiters' = waiters,
         cnt' \in [Threads -> 0 .. DonationDepth],
         \A u \in Threads \ {t} : pc'[u] = pc[u] /\ lock'[u] = lock[u],
         \A l \in Locks : value'[l] > 0 => value[l] > 0
  PROVE  SleepTypeOK' /\ SleepInv'
<1>1. SwitchedFrom(status)
  BY DEF SwitchedFrom, SleepTypeOK, CoreTypeOK, SleepInv, ElemInOneList,
     ReadyQueueOK, sched
<1> QED
  BY <1>1, AwakeStep DEF PriorityTypeOK
(* Going to sleep: t joins the waiters of its lock, which is taken.        *)
LEMMA BlockStep ==
  ASSUME LockTypeOK, PriorityTypeOK', SleepTypeOK, SleepInv, LocalInv,
         NEW t \in Threads, Down(t), value[lock[t]] = 0, thread_block,
         waiters' = [waiters EXCEPT ![lock[t]] =
                       InsertOrdered(@, t, cmp_priority_only)],
         pc' = [pc EXCEPT ![t] = "wait"], value' = value
  PROVE  SleepTypeOK' /\ SleepInv'
<1> DEFINE l == lock[t]
           w == InsertOrdered(waiters[l], t, cmp_priority_only)
<1>1. /\ current = t /\ l \in Locks
      /\ UNCHANGED <<priority, wakeup_ticks, lock, cnt>>
  BY DEF Down, Running, LocalInv, donationVars, chainVars
<1>2. /\ t \in AllThreads /\ status[t] = "RUNNING" /\ ReadyQueueOK
      /\ t \notin Range(waiters[l]) /\ IsInjective(waiters[l])
      /\ waiters[l] \in Seq(Threads)
  BY <1>1 DEF SleepTypeOK, SleepInv, ElemInOneList, ReadyQueueOK, AllThreads
<1>3. /\ w \in Seq(Threads) /\ IsInjective(w)
      /\ Range(w) = Range(waiters[l]) \cup {t}
  BY <1>2, WaitersInsert
<1>4. waiters' = [waiters EXCEPT ![l] = w]
  OBVIOUS
<1>5. /\ Switched /\ destruction_req' = destruction_req
      /\ status'[t] = "BLOCKED"
      /\ \A u \in Threads \ {t} :
           status[u] \in {"RUNNING", "READY"} =>
             status'[u] \in {"RUNNING", "READY"}
  BY <1>1, <1>2, BlockOK DEF SleepTypeOK
<1> HIDE DEF w, l
<1>6. \A u \in Threads \ {t} :
        /\ status'[u] = "BLOCKED" <=> status[u] = "BLOCKED"
        /\ status'[u] \in {"RUNNING", "READY", "BLOCKED"}
  BY <1>5 DEF SleepInv, Switched
<1>7. SleepTypeOK'
  <2>1. waiters' \in [Locks -> Seq(Threads)]
    BY <1>1, <1>3, <1>4 DEF SleepTypeOK
  <2> QED
    BY <1>1, <1>5, <2>1 DEF SleepTypeOK, CoreTypeOK, Switched, PriorityTypeOK
<1>8. ElemInOneList'
  <2>1. \A k \in Locks : IsInjective(waiters'[k])
    BY <1>1, <1>3, <1>4 DEF SleepInv, ElemInOneList, SleepTypeOK
  <2>2. \A k \in Locks, u \in Threads :
          u \in Range(waiters[k]) <=> status[u] = "BLOCKED" /\ lock[u] = k
    BY DEF SleepInv, ElemInOneList
  <2>3. /\ Range(waiters'[l]) = Range(waiters[l]) \cup {t}
        /\ \A k \in Locks \ {l} : waiters'[k] = waiters[k]
    BY <1>1, <1>3, <1>4 DEF SleepTypeOK
  <2>4. \A k \in Locks, u \in Threads :
          u \in Range(waiters'[k]) <=> status'[u] = "BLOCKED" /\ lock'[u] = k
    <3> SUFFICES ASSUME NEW k \in Locks, NEW u \in Threads
                 PROVE  u \in Range(waiters'[k])
                          <=> status'[u] = "BLOCKED" /\ lock[u] = k
      BY <1>1
    <3>1. CASE u = t
      BY <1>2, <1>5, <2>2, <2>3, <3>1 DEF l
    <3>2. CASE u # t
      BY <1>6, <2>2, <2>3, <3>2
    <3> QED
      BY <3>1, <3>2
  <2> QED
    BY <1>5, <2>1, <2>4 DEF ElemInOneList, Switched
<1>9. NoLostWakeup'
  <2> SUFFICES ASSUME NEW k \in Locks, value'[k] > 0, waiters'[k] # <<>>
               PROVE  \E u \in Threads : /\ pc'[u] = "wait" /\ lock'[u] = k
                                         /\ status'[u] \in {"READY", "RUNNING"}
    BY DEF NoLostWakeup
  <2>1. k # l /\ value[k] > 0 /\ waiters[k] # <<>>
    BY <1>1, <1>4, 0 \in Nat DEF l, SleepTypeOK
  <2>2. PICK u \in Threads : /\ pc[u] = "wait" /\ lock[u] = k
                             /\ status[u] \in {"READY", "RUNNING"}
    BY <2>1 DEF SleepInv, NoLostWakeup
  <2>3. u # t
    BY <2>1, <2>2 DEF l
  <2> QED
    BY <1>1, <1>5, <2>2, <2>3 DEF LockTypeOK
<1>10. \A u \in Threads : status'[u] = "BLOCKED" => pc'[u] = "wait"
  BY <1>6 DEF SleepInv, LockTypeOK
<1> QED
  BY <1>5, <1>6, <1>7, <1>8, <1>9, <1>10 DEF SleepInv

(* sema_up() with threads asleep: the first of the sorted waiters goes     *)
(* from the waiters to the ready list, and is the one the free lock is     *)
(* promised to.                                                            *)
LEMMA WakeStep ==
  ASSUME LockTypeOK, PriorityTypeOK', SleepTypeOK, SleepInv, LocalInv,
         NEW t \in Threads, Up(t), waiters[lock[t]] # <<>>
  PROVE  SleepTypeOK' /\ SleepInv'
<1> DEFINE l == lock[t]
           sorted == SortedByPriority(waiters[l])
           w == Head(sorted)
           st_of == [status EXCEPT ![w] = "READY"]
           rl == ReadyInsert(w, ready_list, priority, wakeup_ticks)
<1>1. /\ current = t /\ pc[t] = "up" /\ l \in Locks
      /\ lock' = [lock EXCEPT ![t] = NULL]
      /\ pc' = [pc EXCEPT ![t] = "run"]
      /\ value' = [value EXCEPT ![l] = @ + 1]
      /\ UNCHANGED <<priority, wakeup_ticks, cnt>>
  BY DEF Up, sema_up, Running, Goto, LocalInv, donationVars, chainVars
<1>2. /\ waiters' = [waiters EXCEPT ![l] = Tail(sorted)]
      /\ PreemptFrom(st_of, rl)
  BY DEF Up, sema_up
<1>3. /\ t \in AllThreads /\ status[t] = "RUNNING" /\ ReadyQueueOK
      /\ IsInjective(waiters[l]) /\ waiters[l] \in Seq(Threads)
      /\ CoreTypeOK
  BY <1>1 DEF SleepTypeOK, SleepInv, ElemInOneList, ReadyQueueOK, AllThreads
<1>4. /\ sorted \in Seq(Threads) /\ IsInjective(sorted)
      /\ Range(sorted) = Range(waiters[l]) /\ sorted # <<>>
  <2>1. /\ sorted \in Seq(Threads) /\ Len(sorted) = Len(waiters[l])
        /\ Range(sorted) = Range(waiters[l]) /\ IsInjective(sorted)
    BY <1>3, WaitersSort
  <2> HIDE DEF sorted
  <2> QED
    BY <1>3, <2>1
<1> HIDE DEF sorted
<1>5. /\ Tail(sorted) \in Seq(Threads) /\ IsInjective(Tail(sorted))
      /\ Range(Tail(sorted)) = Range(waiters[l]) \ {w}
      /\ w \in Range(waiters[l]) /\ w \in Threads
  BY <1>4, TailPointwise, TailSet
<1> HIDE DEF w
<1>6. \A k \in Locks, u \in Threads :
        u \in Range(waiters[k]) <=> status[u] = "BLOCKED" /\ lock[u] = k
  BY DEF SleepInv, ElemInOneList
<1>7. /\ status[w] = "BLOCKED" /\ lock[w] = l /\ pc[w] = "wait" /\ w # t
      /\ w \notin Range(ready_list) /\ w \in AllThreads
  BY <1>1, <1>3, <1>5, <1>6 DEF SleepInv, ReadyQueueOK, AllThreads
<1>8. SwitchedFrom(st_of)
  <2>1. /\ rl \in Seq(Threads) /\ IsInjective(rl)
        /\ Range(rl) = Range(ready_list) \cup {w}
    BY <1>3, <1>5, <1>7, ReadyInsertSet DEF CoreTypeOK, ReadyQueueOK
  <2> HIDE DEF rl
  <2>2. Queued(st_of, rl)
    BY <1>3, <1>7, <2>1
       DEF Queued, CoreTypeOK, ReadyQueueOK, AllThreads, Statuses
  <2> HIDE DEF st_of
  <2> QED
    BY <1>2, <1>3, <2>2, PreemptFromOK
<1>9. /\ status'[w] \in {"RUNNING", "READY"}
      /\ \A u \in Threads \ {w} :
           /\ status'[u] = "BLOCKED" <=> status[u] = "BLOCKED"
           /\ status'[u] \in {"RUNNING", "READY", "BLOCKED"}
  <2>1. /\ st_of[w] = "READY"
        /\ \A u \in Threads \ {w} : st_of[u] = status[u]
    BY <1>3, <1>7 DEF CoreTypeOK, AllThreads
  <2> HIDE DEF st_of
  <2> QED
    BY <1>5, <1>8, <2>1 DEF SwitchedFrom, SleepInv
<1>10. /\ waiters' \in [Locks -> Seq(Threads)]
       /\ \A k \in Locks : IsInjective(waiters'[k])
       /\ Range(waiters'[l]) = Range(waiters[l]) \ {w}
       /\ \A k \in Locks \ {l} : waiters'[k] = waiters[k]
  BY <1>1, <1>2, <1>5 DEF SleepTypeOK, SleepInv, ElemInOneList
<1> HIDE DEF st_of, rl, l
<1>10a. \A k \in Locks, u \in Threads :
         u \in Range(waiters'[k]) <=>
           u \in Range(waiters[k]) /\ ~ (k = l /\ u = w)
  <2> SUFFICES ASSUME NEW k \in Locks, NEW u \in Threads
               PROVE  u \in Range(waiters'[k]) <=>
                        u \in Range(waiters[k]) /\ ~ (k = l /\ u = w)
    OBVIOUS
  <2>1. CASE k = l
    BY <1>10, <2>1
  <2>2. CASE k # l
    BY <1>10, <2>2
  <2> QED
    BY <2>1, <2>2
<1>11. SleepTypeOK'
  BY <1>1, <1>8, <1>10
     DEF SleepTypeOK, CoreTypeOK, SwitchedFrom, PriorityTypeOK
<1>12. \A u \in Threads \ {t} : pc'[u] = pc[u] /\ lock'[u] = lock[u]
  BY <1>1 DEF LockTypeOK
<1>13. \A k \in Locks, u \in Threads :
         u \in Range(waiters'[k]) <=> status'[u] = "BLOCKED" /\ lock'[u] = k
  <2> SUFFICES ASSUME NEW k \in Locks, NEW u \in Threads
               PROVE  u \in Range(waiters'[k])
                        <=> status'[u] = "BLOCKED" /\ lock'[u] = k
    OBVIOUS
  <2>1. CASE u = t
    <3>1. status[t] # "BLOCKED" /\ status'[t] # "BLOCKED"
      BY <1>3, <1>7, <1>9
    <3> QED
      BY <1>6, <1>10a, <2>1, <3>1
  <2>2. CASE u = w
    BY <1>6, <1>7, <1>9, <1>10a, <2>2
  <2>3. CASE u # t /\ u # w
    <3>1. status'[u] = "BLOCKED" <=> status[u] = "BLOCKED"
      BY <1>9, <2>3
    <3> QED
      BY <1>6, <1>12, <1>10a, <2>3, <3>1
  <2> QED
    BY <2>1, <2>2, <2>3
<1>14. NoLostWakeup'
  <2> SUFFICES ASSUME NEW k \in Locks, value'[k] > 0, waiters'[k] # <<>>
               PROVE  \E u \in Threads : /\ pc'[u] = "wait" /\ lock'[u] = k
                                         /\ status'[u] \in {"READY", "RUNNING"}
    BY DEF NoLostWakeup
  <2>1. CASE k = l
    BY <1>5, <1>7, <1>9, <1>12, <2>1
  <2>2. CASE k # l
    <3>1. value[k] > 0 /\ waiters[k] # <<>>
      BY <1>1, <1>10, <2>2 DEF LockTypeOK
    <3>2. PICK u \in Threads : /\ pc[u] = "wait" /\ lock[u] = k
                               /\ status[u] \in {"READY", "RUNNING"}
      BY <3>1 DEF SleepInv, NoLostWakeup
    <3>3. u # t /\ u # w
      BY <1>1, <1>7, <2>2, <3>2
    <3>4. status'[u] \in {"READY", "RUNNING"}
      BY <1>9, <3>2, <3>3
    <3> QED
      BY <1>12, <3>2, <3>3, <3>4
  <2> QED
    BY <2>1, <2>2
<1>15. \A u \in Threads : status'[u] = "BLOCKED" => pc'[u] = "wait"
  BY <1>3, <1>9, <1>12 DEF SleepInv
<1>16. ElemInOneList' /\ destruction_req' = {}
  BY <1>8, <1>10, <1>13 DEF ElemInOneList, SwitchedFrom, SleepInv
<1> QED
  BY <1>9, <1>11, <1>14, <1>15, <1>16 DEF SleepInv

(* The turns of lock_acquire()'s loop stay within its limit.               *)
LEMMA ChainCount ==
  ASSUME cnt \in [Threads -> 0 .. DonationDepth],
         NEW t \in Threads, ChainWork(t)
  PROVE  cnt' \in [Threads -> 0 .. DonationDepth]
<1> USE DonationAssumption
<1>1. CASE Donate(t)
  BY <1>1 DEF Donate, chainVars
<1>2. CASE Join(t)
  BY <1>2 DEF Join, chainVars
<1>3. CASE Link(t)
  BY <1>3 DEF Link, chainVars
<1>4. CASE ChainEnd(t)
  BY <1>4 DEF ChainEnd, chainVars
<1>5. CASE ChainTurn(t)
  BY <1>5 DEF ChainTurn, chainVars
<1>6. CASE ReadLock(t)
  BY <1>6 DEF ReadLock, chainVars
<1>7. CASE ReadHolder(t)
  BY <1>7 DEF ReadHolder, chainVars
<1>8. CASE Peek(t)
  BY <1>8 DEF Peek, chainVars
<1>9. CASE Compare(t)
  BY <1>9 DEF Compare, chainVars
<1>10. CASE Give(t)
  BY <1>10 DEF Give, chainVars
<1>11. CASE Put(t)
  BY <1>11 DEF Put, chainVars
<1> QED
  BY <1>1, <1>2, <1>3, <1>4, <1>5, <1>6, <1>7, <1>8, <1>9, <1>10, <1>11
     DEF ChainWork

(* Nobody sleeps unseen: a thread is asleep exactly while it is among the  *)
(* waiters of its lock, and a free lock with waiters is promised.          *)
LEMMA SleepStep ==
  ASSUME LockTypeOK, PriorityTypeOK, PriorityTypeOK', SleepTypeOK, SleepInv,
         LocalInv, OwnerInv, [Next]_vars
  PROVE  SleepTypeOK' /\ SleepInv'
<1> USE DEF LockTypeOK
<1>1. CASE UNCHANGED vars
  BY <1>1 DEF vars, lockVars, localVars, donationVars, chainVars, coreVars,
     SleepTypeOK, CoreTypeOK, SleepInv, ElemInOneList, ReadyQueueOK,
     NoLostWakeup
<1>2. ASSUME NEW t \in Threads, NEW l \in Locks,
             lock_acquire(t, l)
      PROVE  SleepTypeOK' /\ SleepInv'
  BY <1>2, LocalOnly DEF lock_acquire, Running, Goto, lockVars, donationVars,
     chainVars, localVars, coreVars, sched, SleepTypeOK
<1>3. ASSUME NEW t \in Threads, NEW l \in Locks,
             lock_try_acquire(t, l)
      PROVE  SleepTypeOK' /\ SleepInv'
  BY <1>3, LocalOnly
  DEF lock_try_acquire, Running, Goto, lockVars, donationVars,
     chainVars, localVars, coreVars, sched, SleepTypeOK
<1>4. ASSUME NEW t \in Threads, NEW l \in Locks,
             lock_release(t, l)
      PROVE  SleepTypeOK' /\ SleepInv'
  BY <1>4, LocalOnly DEF lock_release, Running, Goto, lockVars, donationVars,
     chainVars, localVars, coreVars, sched, SleepTypeOK
<1>5. ASSUME NEW t \in Threads, NEW p \in Priorities,
             thread_set_priority(t, p)
      PROVE  SleepTypeOK' /\ SleepInv'
  BY <1>5, LocalOnly DEF thread_set_priority, Running, Goto, lockVars,
     donationVars, chainVars, localVars, coreVars, sched, SleepTypeOK
<1>6. ASSUME NEW t \in Threads, ChainWork(t)
      PROVE  SleepTypeOK' /\ SleepInv'
  <2>1. cnt' \in [Threads -> 0 .. DonationDepth]
    BY <1>6, ChainCount DEF SleepTypeOK
  <2>2. /\ current = t /\ pc[t] # "wait"
        /\ UNCHANGED sched /\ wakeup_ticks' = wakeup_ticks
        /\ waiters' = waiters
        /\ \A u \in Threads \ {t} : pc'[u] = pc[u] /\ lock'[u] = lock[u]
        /\ \A l \in Locks : value'[l] > 0 => value[l] > 0
    BY <1>6, ChainFrame DEF ChainPoints
  <2> QED
    BY <2>1, <2>2, LocalOnly
<1>7. ASSUME NEW t \in Threads, Held(t)
      PROVE  SleepTypeOK' /\ SleepInv'
  BY <1>7, LocalOnly DEF Held, Running, Goto, lockVars, chainVars,
     localVars, coreVars, sched, SleepTypeOK
<1>8. ASSUME NEW t \in Threads, Got(t)
      PROVE  SleepTypeOK' /\ SleepInv'
  BY <1>8, LocalOnly DEF Got, Running, Goto, lockVars, donationVars,
     chainVars, localVars, coreVars, sched, SleepTypeOK
<1>9. ASSUME NEW t \in Threads, Tried(t)
      PROVE  SleepTypeOK' /\ SleepInv'
  BY <1>9, LocalOnly DEF Tried, Running, Goto, lockVars, donationVars,
     chainVars, localVars, coreVars, sched, SleepTypeOK
<1>10. ASSUME NEW t \in Threads, Undonate(t)
      PROVE  SleepTypeOK' /\ SleepInv'
  BY <1>10, LocalOnly DEF Undonate, Running, Goto, lockVars, donationVars,
     chainVars, localVars, coreVars, sched, SleepTypeOK
<1>11. ASSUME NEW t \in Threads, Recal(t)
      PROVE  SleepTypeOK' /\ SleepInv'
  BY <1>11, LocalOnly DEF Recal, Running, Goto, lockVars, donationVars,
     chainVars, localVars, coreVars, sched, SleepTypeOK
<1>12. ASSUME NEW t \in Threads, Store(t)
      PROVE  SleepTypeOK' /\ SleepInv'
  BY <1>12, LocalOnly DEF Store, Running, Goto, lockVars, donationVars,
     chainVars, localVars, coreVars, sched, SleepTypeOK
<1>13. ASSUME NEW t \in Threads, PreemptTest(t)
      PROVE  SleepTypeOK' /\ SleepInv'
  BY <1>13, LocalOnly DEF PreemptTest, Running, Goto, lockVars, donationVars,
     chainVars, localVars, coreVars, sched, SleepTypeOK
<1>14. ASSUME NEW t \in Threads, PreemptFront(t)
      PROVE  SleepTypeOK' /\ SleepInv'
  BY <1>14, LocalOnly DEF PreemptFront, Running, Goto, lockVars, donationVars,
     chainVars, localVars, coreVars, sched, SleepTypeOK
<1>15. ASSUME NEW t \in Threads, Down(t)
       PROVE  SleepTypeOK' /\ SleepInv'
  <2>1. CASE value[lock[t]] = 0
    BY <1>15, <2>1, BlockStep DEF Down, sema_down, Goto
  <2>2. CASE value[lock[t]] # 0
    <3>1. /\ current = t /\ lock[t] \in Locks /\ value[lock[t]] = 1
          /\ value' = [value EXCEPT ![lock[t]] = @ - 1]
          /\ PreemptFrom(status, ready_list)
          /\ pc' = [pc EXCEPT ![t] = "got"]
          /\ UNCHANGED <<waiters, wakeup_ticks, lock, cnt>>
      BY <1>15, <2>2
         DEF Down, sema_down, Goto, Running, LocalInv, OwnerInv, donationVars,
         chainVars
    <3>2. SwitchedFrom(status)
      BY <3>1, QueuedNow, PreemptFromOK
         DEF SleepTypeOK, SleepInv, ElemInOneList
    <3>2a. status[t] = "RUNNING"
      BY <3>1 DEF SleepInv, ElemInOneList, ReadyQueueOK, AllThreads
    <3>3. /\ value'[lock[t]] = 0
          /\ \A l \in Locks : value'[l] > 0 => value[l] > 0
      BY <3>1
    <3>4. \A u \in Threads \ {t} : pc'[u] = pc[u]
      BY <3>1
    <3> QED
      BY <3>1, <3>2, <3>2a, <3>3, <3>4, AwakeStep
      DEF PriorityTypeOK, SleepTypeOK
  <2> QED
    BY <2>1, <2>2
<1>16. ASSUME NEW t \in Threads, Up(t)
       PROVE  SleepTypeOK' /\ SleepInv'
  <2>1. CASE waiters[lock[t]] # <<>>
    BY <1>16, <2>1, WakeStep
  <2>2. CASE waiters[lock[t]] = <<>>
    <3>1. /\ current = t /\ pc[t] = "up" /\ lock[t] \in Locks
          /\ value' = [value EXCEPT ![lock[t]] = @ + 1]
          /\ PreemptFrom(status, ready_list)
          /\ pc' = [pc EXCEPT ![t] = "run"]
          /\ lock' = [lock EXCEPT ![t] = NULL]
          /\ UNCHANGED <<waiters, wakeup_ticks, cnt>>
      BY <1>16, <2>2
         DEF Up, sema_up, Goto, Running, LocalInv, donationVars, chainVars
    <3>2. SwitchedFrom(status)
      BY <3>1, QueuedNow, PreemptFromOK
         DEF SleepTypeOK, SleepInv, ElemInOneList
    <3>3. \A l \in Locks : value'[l] > 0 /\ waiters[l] # <<>> => value[l] > 0
      BY <2>2, <3>1
    <3>4. \A u \in Threads : pc[u] = "wait" =>
             pc'[u] = "wait" /\ lock'[u] = lock[u]
      BY <3>1
    <3> QED
      BY <3>1, <3>2, <3>3, <3>4, AwakeStep DEF PriorityTypeOK, SleepTypeOK
  <2> QED
    BY <2>1, <2>2
<1>17. ASSUME NEW t \in Threads, PreemptYield(t)
       PROVE  SleepTypeOK' /\ SleepInv'
  <2>1. /\ thread_yield /\ pc[t] = "yield"
        /\ pc' = [pc EXCEPT ![t] = "run"]
        /\ UNCHANGED <<value, waiters, wakeup_ticks, lock, cnt>>
    BY <1>17 DEF PreemptYield, Running, Goto, lockVars, chainVars
  <2>2. SwitchedFrom(status)
    BY <2>1, YieldOK DEF SleepTypeOK, SleepInv, ElemInOneList
  <2>3. \A u \in Threads : pc[u] = "wait" => pc'[u] = "wait"
    BY <2>1
  <2> QED
    BY <2>1, <2>2, <2>3, AwakeStep DEF PriorityTypeOK, SleepTypeOK
<1>18. CASE Tick
  <2>1. UNCHANGED <<pc, value, waiters, wakeup_ticks, lock, cnt>>
    BY <1>18 DEF Tick, lockVars, chainVars, localVars
  <2>2. SwitchedFrom(status)
    <3>1. CASE thread_yield
      BY <3>1, YieldOK DEF SleepTypeOK, SleepInv, ElemInOneList
    <3>2. CASE /\ thread_ticks' = thread_ticks + 1
               /\ UNCHANGED <<status, ready_list, destruction_req, current>>
      BY <3>2 DEF SwitchedFrom, SleepTypeOK, CoreTypeOK, SleepInv,
         ElemInOneList, ReadyQueueOK
    <3> QED
      BY <1>18, <3>1, <3>2 DEF Tick
  <2> QED
    BY <2>1, <2>2, AwakeStep DEF PriorityTypeOK, SleepTypeOK
<1> QED
  BY <1>1, <1>2, <1>3, <1>4, <1>5, <1>6, <1>7, <1>8, <1>9, <1>10,
     <1>11, <1>12, <1>13, <1>14, <1>15, <1>16, <1>17, <1>18
     DEF Next, LockCall, PriorityCall, Continue, ChainWork
-----------------------------------------------------------------------------
(* An order of the threads that SetToSeqs offers has each of them once.    *)
LEMMA AllThreadsInOrder ==
  ASSUME NEW order \in SetToSeqs(Threads), Main \in Threads
  PROVE  /\ order \in Seq(Threads) /\ order # <<>> /\ IsInjective(order)
         /\ Range(order) = Threads
<1> DEFINE n == Cardinality(Threads)
<1>1. /\ order \in [1 .. n -> Threads]
      /\ \A i, j \in 1 .. n : order[i] = order[j] => i = j
  BY DEF SetToSeqs
<1>2. n \in Nat /\ n # 0
  BY DonationAssumption, FS_CardinalityType, FS_EmptySet
<1>3. Cardinality(1 .. n) = n
  BY <1>2, FS_Interval
<1>4. order \in Injection(1 .. n, Threads)
  BY <1>1 DEF Injection, IsInjective
<1>5. order \in Surjection(1 .. n, Threads)
  BY <1>3, <1>4, DonationAssumption, FS_Injection
<1> HIDE DEF n
<1>6. order \in Seq(Threads) /\ Len(order) = n
  BY <1>1, <1>2, FunIsSeq
<1>7. Range(order) = Threads
  BY <1>1, <1>5 DEF Range, Surjection
<1>8. IsInjective(order) /\ order # <<>>
  BY <1>1, <1>2, <1>6, SeqSet
<1> QED
  BY <1>6, <1>7, <1>8

(* The initial state satisfies the invariant, and every step keeps it.     *)
LEMMA InitIInv == Init => IInv
<1> SUFFICES ASSUME Init
             PROVE  IInv
  OBVIOUS
<1> USE DonationAssumption
<1>1. LockTypeOK
  BY DEF Init, LockTypeOK, Points
<1>2. PriorityTypeOK
  <2>1. priority \in [AllThreads -> Priorities \cup {PRI_MIN}]
    BY DEF Init
  <2>2. priority \in [AllThreads -> PRI_MIN .. PRI_MAX]
    <3>1. Priorities \cup {PRI_MIN} \subseteq PRI_MIN .. PRI_MAX
      BY ThreadsAssumption DEF PRI_MIN, PRI_MAX
    <3> QED
      BY <2>1, <3>1
  <2>3. max_p \in [Threads -> PRI_MIN .. PRI_MAX] /\ base_priority = priority
    BY DEF Init, PRI_MIN, PRI_MAX
  <2> QED
    BY <2>2, <2>3 DEF PriorityTypeOK
<1>3. LocalInv
  BY DEF Init, LocalInv, ChainPoints
<1>4. OwnerInv
  BY DEF Init, OwnerInv, Passing, AllThreads
<1>5. SleepTypeOK /\ SleepInv
  <2>1. PICK order \in SetToSeqs(Threads) :
           current = Head(order) /\ ready_list = Tail(order)
    BY DEF Init
  <2>2. /\ order \in Seq(Threads) /\ order # <<>> /\ IsInjective(order)
        /\ Range(order) = Threads
    BY <2>1, AllThreadsInOrder, ThreadsAssumption
  <2>3. /\ current \in Threads /\ ready_list \in Seq(Threads)
        /\ IsInjective(ready_list) /\ Range(ready_list) = Threads \ {current}
    BY <2>1, <2>2, TailPointwise, TailSet
  <2>4. /\ status = [t \in AllThreads |->
                       IF t = current THEN "RUNNING" ELSE "READY"]
        /\ waiters = [l \in Locks |-> <<>>] /\ destruction_req = {}
        /\ wakeup_ticks = [t \in AllThreads |-> 0] /\ thread_ticks = 0
        /\ cnt = [t \in Threads |-> 0]
    BY DEF Init
  <2>5. ReadyQueueOK
    BY <2>3, <2>4 DEF ReadyQueueOK, AllThreads
  <2>6. SleepTypeOK
    BY <1>2, <2>3, <2>4
       DEF SleepTypeOK, CoreTypeOK, PriorityTypeOK, AllThreads, Statuses
  <2>7. \A l \in Locks : IsInjective(waiters[l]) /\ Range(waiters[l]) = {}
    BY <2>4 DEF IsInjective, Range
  <2>8. \A t \in Threads : status[t] \in {"RUNNING", "READY"}
    BY <2>4 DEF AllThreads
  <2>9. ElemInOneList
    BY <2>5, <2>7, <2>8 DEF ElemInOneList
  <2>10. NoLostWakeup
    BY <2>4 DEF NoLostWakeup
  <2> QED
    BY <2>4, <2>6, <2>8, <2>9, <2>10 DEF SleepInv
<1> QED
  BY <1>1, <1>2, <1>3, <1>4, <1>5 DEF IInv

LEMMA NextIInv == IInv /\ [Next]_vars => IInv'
  BY TypeStep, LocalStep, OwnerStep, PriorityTypeStep, SleepStep DEF IInv

(* IInv is an invariant of the locks, for any threads and locks.           *)
THEOREM Invariance == Spec => []IInv
  BY InitIInv, NextIInv, PTL DEF Spec

(* Every variable keeps its type; a priority stays between PRI_MIN and     *)
(* PRI_MAX however it is donated and restored.                             *)
THEOREM TypeCorrect == Spec => []TypeOK
<1>1. IInv => TypeOK
  BY DEF IInv, LockTypeOK, PriorityTypeOK, SleepTypeOK, TypeOK
<1> QED
  BY <1>1, Invariance, PTL

(* t->elem, which the run queue and the waiters of a semaphore share, is   *)
(* in one of the lists at a time: sema_up() takes a thread off the waiters *)
(* before thread_unblock() queues it.                                      *)
THEOREM ElemShared == Spec => []ElemInOneList
<1>1. IInv => ElemInOneList
  BY DEF IInv, SleepInv
<1> QED
  BY <1>1, Invariance, PTL

(* No release is lost: a lock that is free while threads wait for it has   *)
(* woken one of them, which has yet to run sema_down()'s loop again.       *)
THEOREM NoWakeupLost == Spec => []NoLostWakeup
<1>1. IInv => NoLostWakeup
  BY DEF IInv, SleepInv
<1> QED
  BY <1>1, Invariance, PTL

(* A lock has at most one owner, from the end of its sema_down() to its    *)
(* sema_up(), and nobody gets past sema_down() while it has one.           *)
THEOREM LocksExclude == Spec => []MutualExclusion
<1>1. IInv => MutualExclusion
  BY DonationAssumption DEF IInv, OwnerInv, Passing, MutualExclusion, Owns,
     AllThreads
<1> QED
  BY <1>1, Invariance, PTL
=============================================================================
