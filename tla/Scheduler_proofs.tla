-------------------------- MODULE Scheduler_proofs --------------------------
(***************************************************************************)
(* Theorems of Scheduler, for any number of threads, any priorities and    *)
(* durations: the type invariant, that a thread's elem is in one list at a *)
(* time, that the ready list is in order and its highest thread runs, and  *)
(* that sleepers are woken neither early nor late.                         *)
(*                                                                         *)
(* The invariant is ElemInOneList itself, the types, and IdleInv: the idle *)
(* thread is outside every function but its own loop, so that it neither   *)
(* sleeps nor dies, which schedule() relies on.  AlarmInv, further down,   *)
(* is what the alarm clock needs besides.                                  *)
(***************************************************************************)
EXTENDS Scheduler, Threads_proofs

(* Between its blocks the idle thread is in no other kernel function.       *)
IdleInv == pc[Idle] \in {"run", "hlt"}

IInv == TypeOK /\ ElemInOneList /\ IdleInv

(* The idle thread is never asleep.                                      *)
LEMMA Sleepers ==
  ASSUME TypeOK
  PROVE  \A t \in Range(sleep_list) : t \in Threads
<1>1. sleep_list \in Seq(Threads)
  BY DEF TypeOK
<1> QED
  BY <1>1, SeqSet

(* thread_sleep() adds its caller, and no other thread, to the sleep list.  *)
LEMMA SleepInsert ==
  ASSUME IInv, NEW t \in AllThreads, thread_sleep(t)
  PROVE  /\ t \in Threads /\ current = t
         /\ sleep_list' \in Seq(Threads) /\ IsInjective(sleep_list')
         /\ Range(sleep_list') = Range(sleep_list) \cup {t}
<1>1. t \in Threads /\ current = t
  BY DEF thread_sleep, Running, IInv, IdleInv, AllThreads
<1>2. t \notin Range(sleep_list)
  BY <1>1 DEF IInv, TypeOK, ElemInOneList, ReadyQueueOK, AllThreads
<1> DEFINE wake == [wakeup_ticks EXCEPT ![t] = until[t]]
           later == {i \in 1 .. Len(sleep_list) :
                       wake[t] < wake[sleep_list[i]]}
           r == InsertAt(sleep_list, Min(later \cup {Len(sleep_list) + 1}), t)
<1>3. sleep_list' = r
  BY DEF thread_sleep, InsertOrdered
<1> HIDE DEF wake
<1>4. later \subseteq 1 .. Len(sleep_list)
  OBVIOUS
<1>5. sleep_list \in Seq(Threads) /\ IsInjective(sleep_list)
  BY DEF IInv, TypeOK, ElemInOneList
<1> HIDE DEF later
<1>6. /\ r \in Seq(Threads)
      /\ Range(r) = Range(sleep_list) \cup {t}
      /\ IsInjective(sleep_list) /\ t \notin Range(sleep_list) =>
           IsInjective(r)
  BY <1>1, <1>4, <1>5, InsertMin
<1> HIDE DEF r
<1> QED
  BY <1>1, <1>2, <1>3, <1>5, <1>6

(* A step that only switches threads, and moves pc and child, keeps      *)
(* IInv.                                                                 *)
LEMMA SwitchOK ==
  ASSUME IInv, Switched,
         priority' \in [AllThreads -> PRI_MIN .. PRI_MAX],
         wakeup_ticks' \in [AllThreads -> Nat],
         UNCHANGED <<ticks, awake_closest_tick, sleep_list, irq, until>>,
         child' \in [AllThreads -> AllThreads],
         pc' \in [AllThreads -> Points], IdleInv'
  PROVE  IInv'
<1>1. \A t \in Range(sleep_list) : t \in Threads
  BY Sleepers DEF IInv
<1> QED
  BY <1>1 DEF IInv, TypeOK, CoreTypeOK, ElemInOneList, Switched

(* The smaller of two numbers.                                           *)
LEMMA MinPair ==
  ASSUME NEW a \in Nat, NEW b \in Nat
  PROVE  Min({a, b}) \in Nat /\ Min({a, b}) <= a /\ Min({a, b}) <= b
  BY MinOfNats

(* Every step of the scheduler keeps IInv.                               *)
LEMMA NextIInv ==
  ASSUME IInv, [Next]_vars
  PROVE  IInv'
<1> USE ThreadsAssumption, SchedulerAssumption
<1>0. /\ TypeOK /\ CoreTypeOK /\ ReadyQueueOK /\ Idle \notin Threads
      /\ Idle \in AllThreads /\ Threads \subseteq AllThreads /\ IdleInv
  BY DEF IInv, TypeOK, ElemInOneList, AllThreads
<1>1. CASE UNCHANGED vars
  BY <1>1 DEF vars, coreVars, alarmVars, localVars, IInv, TypeOK, CoreTypeOK,
     ElemInOneList, ReadyQueueOK, IdleInv
<1>2. ASSUME NEW t \in AllThreads, NEW c \in Threads, NEW p \in Priorities,
             thread_create(t, c, p)
      PROVE  IInv'
  <2> DEFINE rl == ReadyInsert(c, ready_list, priority', wakeup_ticks')
  <2>1. /\ status[c] = "FREE" /\ ready_list' = rl
        /\ status' = [status EXCEPT ![c] = "READY"]
        /\ priority' \in [AllThreads -> PRI_MIN .. PRI_MAX]
        /\ wakeup_ticks' \in [AllThreads -> Nat]
        /\ UNCHANGED <<destruction_req, current, thread_ticks, ticks,
                       awake_closest_tick, sleep_list, until, irq>>
    BY <1>0, <1>2 DEF thread_create, CoreTypeOK, alarmVars
  <2>2. /\ pc' \in [AllThreads -> Points]
        /\ child' \in [AllThreads -> AllThreads]
        /\ IdleInv'
    BY <1>0, <1>2 DEF thread_create, TypeOK, Points, IdleInv
  <2>3. c \notin Range(ready_list)
    BY <1>0, <2>1 DEF ReadyQueueOK
  <2>4. /\ rl \in Seq(Threads) /\ Range(rl) = Range(ready_list) \cup {c}
        /\ IsInjective(rl)
    BY <1>0, <2>3, ReadyInsertSet DEF CoreTypeOK, ReadyQueueOK
  <2> HIDE DEF rl
  <2>5. ReadyQueueOK'
    BY <1>0, <2>1, <2>4 DEF ReadyQueueOK, CoreTypeOK
  <2>6. status' \in [AllThreads -> Statuses]
    BY <1>0, <2>1 DEF CoreTypeOK, Statuses
  <2>7. \A x \in Range(sleep_list) : status'[x] = "BLOCKED"
    <3>1. \A x \in Range(sleep_list) : x \in Threads /\ status[x] = "BLOCKED"
      BY <1>0, Sleepers DEF IInv, ElemInOneList
    <3> QED
      BY <1>0, <2>1, <3>1 DEF CoreTypeOK
  <2> QED
    BY <2>1, <2>2, <2>4, <2>5, <2>6, <2>7
    DEF IInv, TypeOK, CoreTypeOK, ElemInOneList
<1>3. ASSUME NEW t \in AllThreads, NEW d \in Durations, timer_sleep(t, d)
      PROVE  IInv'
  <2>1. /\ UNCHANGED <<coreVars, alarmVars, child, irq>>
        /\ pc' \in [AllThreads -> Points]
        /\ until' \in [AllThreads -> 0 .. MaxTick]
        /\ IdleInv'
    BY <1>0, <1>3 DEF timer_sleep, Goto, Running, TypeOK, Points, IdleInv
  <2> QED
    BY <2>1 DEF IInv, TypeOK, CoreTypeOK, ElemInOneList, ReadyQueueOK,
       coreVars, alarmVars
<1>4. ASSUME NEW t \in AllThreads, NEW p \in Priorities,
             thread_set_priority(t, p)
      PROVE  IInv'
  <2>1. /\ UNCHANGED <<status, wakeup_ticks, ready_list, destruction_req,
                       current, thread_ticks, alarmVars, until, child, irq>>
        /\ pc' \in [AllThreads -> Points]
        /\ priority' \in [AllThreads -> PRI_MIN .. PRI_MAX]
        /\ IdleInv'
    BY <1>0, <1>4 DEF thread_set_priority, Goto, Running, TypeOK, CoreTypeOK,
       Points, IdleInv
  <2> QED
    BY <2>1 DEF IInv, TypeOK, CoreTypeOK, ElemInOneList, ReadyQueueOK,
       alarmVars
<1>5. ASSUME NEW t \in AllThreads, Yield(t)
      PROVE  IInv'
  BY <1>0, <1>5, YieldOK, SwitchOK DEF Yield, TypeOK, CoreTypeOK, IdleInv,
     alarmVars, localVars
<1>6. ASSUME NEW t \in AllThreads, thread_exit(t)
      PROVE  IInv'
  BY <1>0, <1>6, DieOK, SwitchOK DEF thread_exit, Running, TypeOK,
     CoreTypeOK, IdleInv, alarmVars, localVars
<1>7. ASSUME NEW t \in AllThreads, CreateYield(t)
      PROVE  IInv'
  <2>1. /\ pc' \in [AllThreads -> Points]
        /\ child' \in [AllThreads -> AllThreads] /\ IdleInv'
        /\ UNCHANGED <<priority, wakeup_ticks, alarmVars, until, irq>>
    BY <1>0, <1>7 DEF CreateYield, Goto, Running, TypeOK, Points, IdleInv
  <2>2. CASE thread_yield
    BY <1>0, <2>1, <2>2, YieldOK, SwitchOK DEF TypeOK, CoreTypeOK, alarmVars
  <2>3. CASE UNCHANGED <<status, ready_list, destruction_req, current,
                         thread_ticks>>
    BY <2>1, <2>3 DEF IInv, TypeOK, CoreTypeOK, ElemInOneList, ReadyQueueOK,
       alarmVars
  <2> QED
    BY <1>7, <2>2, <2>3 DEF CreateYield
<1>8. ASSUME NEW t \in AllThreads, thread_sleep(t)
      PROVE  IInv'
  <2>1. /\ t \in Threads /\ current = t
        /\ sleep_list' \in Seq(Threads) /\ IsInjective(sleep_list')
        /\ Range(sleep_list') = Range(sleep_list) \cup {t}
    BY <1>8, SleepInsert
  <2>2. /\ wakeup_ticks' = [wakeup_ticks EXCEPT ![t] = until[t]]
        /\ awake_closest_tick' = Min({awake_closest_tick, until[t]})
        /\ thread_block
        /\ pc' = [pc EXCEPT ![t] = "run"]
        /\ until' = [until EXCEPT ![t] = 0]
        /\ UNCHANGED <<priority, ticks, child, irq>>
    BY <1>8 DEF thread_sleep, Goto
  <2>3. /\ pc' \in [AllThreads -> Points] /\ IdleInv'
        /\ until[t] \in 0 .. MaxTick /\ until[t] \in Nat
        /\ until' \in [AllThreads -> 0 .. MaxTick]
    <3>1. pc' \in [AllThreads -> Points] /\ IdleInv'
      BY <1>0, <2>1, <2>2 DEF TypeOK, Points, IdleInv
    <3>2. until[t] \in 0 .. MaxTick
      BY <1>0, <2>1 DEF TypeOK
    <3>3. until' \in [AllThreads -> 0 .. MaxTick]
      BY <1>0, <2>2 DEF TypeOK
    <3> QED
      BY <3>1, <3>2, <3>3
  <2>4. wakeup_ticks' \in [AllThreads -> Nat]
    BY <1>0, <2>2, <2>3 DEF CoreTypeOK
  <2>5. awake_closest_tick' \in 0 .. INT64_MAX
    <3>1. awake_closest_tick \in 0 .. INT64_MAX
      BY <1>0 DEF TypeOK
    <3>2. /\ Min({awake_closest_tick, until[t]}) \in Nat
          /\ Min({awake_closest_tick, until[t]}) <= awake_closest_tick
      BY <2>3, <3>1, MinPair
    <3> QED
      BY <2>2, <3>1, <3>2
  <2>6. Switched /\ status'[t] = "BLOCKED"
    BY <1>0, <2>1, <2>2, BlockOK
  <2>7. \A x \in Range(sleep_list') : status'[x] = "BLOCKED"
    BY <1>0, <2>1, <2>6, Sleepers DEF Switched, IInv, ElemInOneList
  <2> QED
    BY <1>0, <2>1, <2>2, <2>3, <2>4, <2>5, <2>6, <2>7
    DEF IInv, TypeOK, CoreTypeOK, ElemInOneList, Switched
<1>9. ASSUME NEW t \in AllThreads, PreemptTest(t) \/ PreemptFront(t)
      PROVE  IInv'
  <2>1. /\ UNCHANGED <<coreVars, alarmVars, until, child, irq>>
        /\ pc' \in [AllThreads -> Points]
        /\ IdleInv'
    BY <1>0, <1>9 DEF PreemptTest, PreemptFront, Goto, Running, TypeOK,
       Points, IdleInv
  <2> QED
    BY <2>1 DEF IInv, TypeOK, CoreTypeOK, ElemInOneList, ReadyQueueOK,
       coreVars, alarmVars
<1>10. ASSUME NEW t \in AllThreads, PreemptYield(t)
       PROVE  IInv'
  <2>1. /\ pc' \in [AllThreads -> Points] /\ IdleInv'
        /\ UNCHANGED <<priority, wakeup_ticks, alarmVars, until, child, irq>>
        /\ thread_yield
    BY <1>0, <1>10 DEF PreemptYield, Goto, Running, TypeOK, Points, IdleInv
  <2> QED
    BY <1>0, <2>1, YieldOK, SwitchOK DEF TypeOK, CoreTypeOK, alarmVars
<1>11. CASE idle
  <2>1. /\ pc' \in [AllThreads -> Points] /\ IdleInv'
        /\ UNCHANGED <<priority, wakeup_ticks, alarmVars, until, child, irq>>
        /\ thread_block
    BY <1>0, <1>11 DEF idle, Goto, Running, TypeOK, Points, IdleInv
  <2> QED
    BY <1>0, <2>1, BlockOK, SwitchOK DEF TypeOK, CoreTypeOK, alarmVars
<1>12. CASE TimerInterrupt
  <2>1. /\ ticks' \in 0 .. MaxTick /\ thread_ticks' \in Nat
        /\ awake_closest_tick' \in 0 .. INT64_MAX
        /\ irq' \in {"none", "awake", "return"}
    BY <1>0, <1>12 DEF TimerInterrupt, TypeOK, CoreTypeOK
  <2>2. pc' \in [AllThreads -> Points] /\ IdleInv'
    BY <1>0, <1>12 DEF TimerInterrupt, Goto, TypeOK, Points, IdleInv
  <2>3. UNCHANGED <<status, priority, wakeup_ticks, ready_list,
                    destruction_req, current, sleep_list, until, child>>
    BY <1>12 DEF TimerInterrupt
  <2> QED
    BY <2>1, <2>2, <2>3
    DEF IInv, TypeOK, CoreTypeOK, ElemInOneList, ReadyQueueOK
<1>13. CASE AwakeFront
  <2> DEFINE t == Head(sleep_list)
             rl == ReadyInsert(t, ready_list, priority, wakeup_ticks)
  <2>1. /\ sleep_list # <<>> /\ sleep_list' = Tail(sleep_list)
        /\ status' = [status EXCEPT ![t] = "READY"]
        /\ ready_list' = rl
        /\ UNCHANGED <<priority, wakeup_ticks, destruction_req, current,
                       thread_ticks, ticks, awake_closest_tick, pc, until,
                       child, irq>>
    BY <1>13 DEF AwakeFront, localVars
  <2>2. sleep_list \in Seq(Threads) /\ IsInjective(sleep_list)
    BY <1>0 DEF IInv, TypeOK, ElemInOneList
  <2>3. /\ t \in Threads /\ t \in Range(sleep_list)
        /\ Tail(sleep_list) \in Seq(Threads) /\ IsInjective(Tail(sleep_list))
        /\ Range(Tail(sleep_list)) = Range(sleep_list) \ {t}
    BY <2>1, <2>2, TailSet, TailPointwise
  <2> HIDE DEF t
  <2>4. status[t] = "BLOCKED" /\ t \notin Range(ready_list)
    BY <1>0, <2>3 DEF IInv, ElemInOneList, ReadyQueueOK
  <2>5. /\ rl \in Seq(Threads) /\ Range(rl) = Range(ready_list) \cup {t}
        /\ IsInjective(rl)
    BY <1>0, <2>3, <2>4, ReadyInsertSet DEF CoreTypeOK, ReadyQueueOK
  <2> HIDE DEF rl
  <2>6. ReadyQueueOK'
    BY <1>0, <2>1, <2>3, <2>4, <2>5 DEF ReadyQueueOK, CoreTypeOK
  <2>7. status' \in [AllThreads -> Statuses]
    BY <1>0, <2>1 DEF CoreTypeOK, Statuses
  <2>8. \A x \in Range(sleep_list') : status'[x] = "BLOCKED"
    <3>1. \A x \in Range(sleep_list) : x \in Threads /\ status[x] = "BLOCKED"
      BY <1>0, Sleepers DEF IInv, ElemInOneList
    <3> QED
      BY <1>0, <2>1, <2>3, <3>1 DEF CoreTypeOK
  <2> QED
    BY <2>1, <2>3, <2>5, <2>6, <2>7, <2>8
    DEF IInv, TypeOK, CoreTypeOK, ElemInOneList, IdleInv
<1>14. CASE AwakeDone
  <2>1. irq' = "return" /\ UNCHANGED <<coreVars, ticks, sleep_list, localVars>>
    BY <1>14 DEF AwakeDone
  <2>2. awake_closest_tick' \in 0 .. INT64_MAX
    <3>1. CASE sleep_list = <<>>
      BY <1>0, <1>14, <3>1 DEF AwakeDone, TypeOK
    <3>2. CASE sleep_list # <<>>
      <4>1. Head(sleep_list) \in Threads
        BY <1>0, <3>2 DEF TypeOK
      <4>2. wakeup_ticks[Head(sleep_list)] \in Nat
        BY <1>0, <4>1 DEF CoreTypeOK
      <4>3. awake_closest_tick' =
              Min({awake_closest_tick, wakeup_ticks[Head(sleep_list)]})
        BY <1>14, <3>2 DEF AwakeDone
      <4>4. awake_closest_tick \in 0 .. INT64_MAX
        BY <1>0 DEF TypeOK
      <4>5. /\ awake_closest_tick' \in Nat
            /\ awake_closest_tick' <= awake_closest_tick
        BY <4>2, <4>3, <4>4, MinPair
      <4> QED
        BY <4>4, <4>5
    <3> QED
      BY <3>1, <3>2
  <2> QED
    BY <2>1, <2>2 DEF IInv, TypeOK, CoreTypeOK, ElemInOneList, ReadyQueueOK,
       IdleInv, coreVars, localVars
<1>15. CASE InterruptReturn
  <2>1. /\ irq' = "none"
        /\ UNCHANGED <<priority, wakeup_ticks, alarmVars, localVars>>
    BY <1>15 DEF InterruptReturn
  <2>2. CASE thread_yield
    <3>1. Switched
      BY <1>0, <2>2, YieldOK
    <3>2. \A x \in Range(sleep_list) : x \in Threads
      BY <1>0, Sleepers
    <3> QED
      BY <2>1, <3>1, <3>2 DEF IInv, TypeOK, CoreTypeOK, ElemInOneList,
         Switched, IdleInv, alarmVars, localVars
  <2>3. CASE UNCHANGED <<status, ready_list, destruction_req, current,
                         thread_ticks>>
    BY <2>1, <2>3 DEF IInv, TypeOK, CoreTypeOK, ElemInOneList, ReadyQueueOK,
       IdleInv, alarmVars, localVars
  <2> QED
    BY <1>15, <2>2, <2>3 DEF InterruptReturn
<1> QED
  BY <1>1, <1>2, <1>3, <1>4, <1>5, <1>6, <1>7, <1>8, <1>9, <1>10, <1>11,
     <1>12, <1>13, <1>14, <1>15 DEF Next, Call, Continue, Interrupt

(* The state thread_start() leaves satisfies IInv.                       *)
LEMMA InitIInv == Init => IInv
<1> SUFFICES ASSUME Init
             PROVE  IInv
  OBVIOUS
<1> USE ThreadsAssumption, SchedulerAssumption
<1>1. CoreTypeOK
  <2>1. priority \in [AllThreads -> PRI_MIN .. PRI_MAX]
    BY DEF Init, CoreInit, PRI_MIN, PRI_MAX, AllThreads
  <2> QED
    BY <2>1 DEF Init, CoreInit, CoreTypeOK, Statuses, AllThreads
<1>2. TypeOK /\ IdleInv
  BY <1>1 DEF Init, TypeOK, Points, IdleInv, AllThreads
<1>3. \A v : v \notin Range(<<>>)
  BY DEF Range
<1>4. IsInjective(<<>>)
  BY DEF IsInjective
<1>5. ReadyQueueOK
  BY <1>3, <1>4 DEF Init, CoreInit, ReadyQueueOK, AllThreads
<1> QED
  BY <1>2, <1>3, <1>4, <1>5 DEF IInv, ElemInOneList, Init

(* The inductive invariant holds in every reachable state.               *)
THEOREM Invariance == Spec => []IInv
<1>1. IInv /\ [Next]_vars => IInv'
  BY NextIInv
<1> QED
  BY <1>1, InitIInv, PTL DEF Spec

(* Type correctness of the scheduler and the alarm clock (thread.c,      *)
(* timer.c).                                                             *)
THEOREM TypeCorrect == Spec => []TypeOK
<1>1. IInv => TypeOK
  BY DEF IInv
<1> QED
  BY <1>1, Invariance, PTL

(* t->elem, which thread.h shares between the run queue and other lists, *)
(* is in one list at a time, and the run queue holds exactly the READY   *)
(* threads.                                                              *)
THEOREM OneListOnly == Spec => []ElemInOneList
<1>1. IInv => ElemInOneList
  BY DEF IInv
<1> QED
  BY <1>1, Invariance, PTL
-----------------------------------------------------------------------------
(* What every switch promises of the thread it chooses.                    *)
Outranked(pri) ==
  current' # current => \A t \in Range(ready_list') : pri[current'] >= pri[t]

(* The ready list stays in order: the priority of a thread changes when it *)
(* is created or runs, never while it is queued.                           *)
LEMMA ReadyOrderedStep ==
  ASSUME IInv, ReadyOrdered, [Next]_vars
  PROVE  ReadyOrdered' /\ Outranked(priority')
<1> USE DEF Outranked
<1>0. /\ CoreTypeOK /\ ReadyQueueOK /\ Descending(ready_list, priority)
      /\ ready_list \in Seq(Threads) /\ ready_list \in Seq(AllThreads)
      /\ Range(ready_list) \subseteq Threads
      /\ priority \in [AllThreads -> Int]
      /\ Threads \subseteq AllThreads
  <2>1. CoreTypeOK /\ ReadyQueueOK
    BY DEF IInv, TypeOK, ElemInOneList
  <2> QED
    BY <2>1, OverAllThreads, PriorityType
       DEF CoreTypeOK, ReadyOrdered, Descending, AllThreads
<1>1. ASSUME UNCHANGED <<ready_list, priority, current>>
      PROVE  ReadyOrdered' /\ Outranked(priority')
  BY <1>1 DEF ReadyOrdered
<1>2. ASSUME thread_yield, UNCHANGED priority
      PROVE  ReadyOrdered' /\ Outranked(priority')
  BY <1>0, <1>2, YieldOrdered DEF ReadyOrdered, Descending
<1>3. ASSUME NEW st, NEW freed, Schedule(st, status, ready_list, freed),
             UNCHANGED priority
      PROVE  ReadyOrdered' /\ Outranked(priority')
  BY <1>0, <1>3, ScheduleOrdered DEF ReadyOrdered, Descending
<1>4. ASSUME NEW t \in AllThreads, NEW c \in Threads, NEW p \in Priorities,
             thread_create(t, c, p)
      PROVE  ReadyOrdered' /\ Outranked(priority')
  <2>1. /\ status[c] = "FREE" /\ c \in AllThreads
        /\ ready_list' = ReadyInsert(c, ready_list, priority', wakeup_ticks')
        /\ priority' = [priority EXCEPT ![c] = p] /\ p \in Int
        /\ UNCHANGED current
    BY <1>0, <1>4, ThreadsAssumption DEF thread_create, PRI_MIN, PRI_MAX
  <2>2. \A x \in Range(ready_list) : x # c
    BY <1>0, <2>1 DEF ReadyQueueOK
  <2>3. \A x \in Range(ready_list) : priority'[x] = priority[x]
    BY <1>0, <2>1, <2>2
  <2>4. priority' \in [AllThreads -> Int] /\ Descending(ready_list, priority')
    BY <1>0, <2>1, <2>3, SameKeysOrdered
  <2>5. Descending(ready_list', priority')
    BY <1>0, <2>1, <2>4, ReadyInsertOrdered
  <2> QED
    BY <2>1, <2>5 DEF ReadyOrdered, Descending
<1>5. ASSUME NEW t \in AllThreads, NEW p \in Priorities,
             thread_set_priority(t, p)
      PROVE  ReadyOrdered' /\ Outranked(priority')
  <2>1. /\ current = t /\ UNCHANGED <<ready_list, current>>
        /\ priority' = [priority EXCEPT ![t] = p]
    BY <1>5 DEF thread_set_priority, Running
  <2>2. \A x \in Range(ready_list) : x # t
    BY <1>0, <2>1 DEF ReadyQueueOK
  <2>3. \A x \in Range(ready_list) : priority'[x] = priority[x]
    BY <1>0, <2>2, <2>1
  <2>4. Descending(ready_list, priority')
    BY <1>0, <2>3, SameKeysOrdered
  <2> QED
    BY <2>1, <2>4 DEF ReadyOrdered, Descending
<1>6. ASSUME NEW t \in AllThreads, thread_sleep(t)
      PROVE  ReadyOrdered' /\ Outranked(priority')
  BY <1>3, <1>6 DEF thread_sleep, thread_block
<1>7. CASE idle
  BY <1>3, <1>7 DEF idle, thread_block
<1>8. ASSUME NEW t \in AllThreads, thread_exit(t)
      PROVE  ReadyOrdered' /\ Outranked(priority')
  BY <1>3, <1>8 DEF thread_exit, do_schedule
<1>9. CASE AwakeFront
  <2> DEFINE t == Head(sleep_list)
  <2>1. /\ sleep_list # <<>> /\ sleep_list \in Seq(Threads)
        /\ ready_list' = ReadyInsert(t, ready_list, priority, wakeup_ticks)
        /\ UNCHANGED <<priority, current>>
    BY <1>9 DEF AwakeFront, IInv, TypeOK
  <2>2. t \in AllThreads
    BY <1>0, <2>1, TailPointwise
  <2> HIDE DEF t
  <2>3. Descending(ready_list', priority)
    BY <1>0, <2>1, <2>2, ReadyInsertOrdered
  <2> QED
    BY <2>1, <2>3 DEF ReadyOrdered, Descending
<1>10. ASSUME NEW t \in AllThreads,
              CreateYield(t) \/ PreemptYield(t) \/ Yield(t)
       PROVE  ReadyOrdered' /\ Outranked(priority')
  BY <1>1, <1>2, <1>10 DEF CreateYield, PreemptYield, Yield
<1>11. CASE InterruptReturn
  BY <1>1, <1>2, <1>11 DEF InterruptReturn
<1>12. ASSUME NEW t \in AllThreads,
              \/ PreemptTest(t) \/ PreemptFront(t)
              \/ \E d \in Durations : timer_sleep(t, d)
       PROVE  ReadyOrdered' /\ Outranked(priority')
  BY <1>1, <1>12 DEF PreemptTest, PreemptFront, timer_sleep, coreVars
<1>13. CASE TimerInterrupt \/ AwakeDone \/ UNCHANGED vars
  BY <1>1, <1>13 DEF TimerInterrupt, AwakeDone, vars, coreVars
<1> QED
  BY <1>4, <1>5, <1>6, <1>7, <1>8, <1>9, <1>10, <1>11, <1>12, <1>13
     DEF Next, Call, Continue, Interrupt

(* The run queue is always in descending order of priority.                *)
THEOREM QueueOrdered == Spec => []ReadyOrdered
<1>1. Init => ReadyOrdered
  BY DEF Init, CoreInit, ReadyOrdered
<1>2. IInv /\ ReadyOrdered /\ [Next]_vars => ReadyOrdered'
  BY ReadyOrderedStep
<1> QED
  BY <1>1, <1>2, Invariance, PTL DEF Spec

(* Every switch, whatever its cause, gives the CPU to a thread that no     *)
(* ready thread outranks.                                                  *)
THEOREM HighestRuns == Spec => RunsHighest
<1>1. IInv /\ ReadyOrdered /\ [Next]_vars =>
        [current' # current =>
           \A t \in Range(ready_list') :
              priority'[current'] >= priority'[t]]_coreVars
  BY ReadyOrderedStep DEF Outranked
<1> QED
  BY <1>1, Invariance, QueueOrdered, PTL DEF Spec, RunsHighest
-----------------------------------------------------------------------------
(* The alarm clock.  The sleep list is in order of wakeup_ticks, and,      *)
(* but while the handler walks it, awake_closest_tick is no later than the *)
(* wake-up tick of any sleeper.                                            *)
Earliest(s, wake) == \A i, j \in 1 .. Len(s) : i < j => wake[s[i]] <= wake[s[j]]

AlarmInv ==
  /\ Earliest(sleep_list, wakeup_ticks)
  /\ irq # "awake" =>
       \A t \in Range(sleep_list) : awake_closest_tick <= wakeup_ticks[t]
  /\ NoDueSleeper

(* list_insert_ordered (&sleep_list, ...) keeps the earliest first.        *)
LEMMA SleepOrdered ==
  ASSUME IInv, Earliest(sleep_list, wakeup_ticks), NEW t \in AllThreads,
         thread_sleep(t)
  PROVE  Earliest(sleep_list', wakeup_ticks')
<1>1. /\ t \in Threads /\ current = t /\ until[t] \in Nat
      /\ wakeup_ticks' = [wakeup_ticks EXCEPT ![t] = until[t]]
      /\ sleep_list \in Seq(Threads) /\ wakeup_ticks \in [AllThreads -> Nat]
  <2>1. t \in Threads /\ current = t
    BY SleepInsert
  <2>2. until[t] \in 0 .. MaxTick
    BY DEF IInv, TypeOK
  <2>3. until[t] \in Nat
    BY <2>2, SchedulerAssumption
  <2> QED
    BY <2>1, <2>3 DEF thread_sleep, IInv, TypeOK, CoreTypeOK
<1> DEFINE wake == [wakeup_ticks EXCEPT ![t] = until[t]]
           key == [x \in Threads |-> 0 - wake[x]]
           later == {i \in 1 .. Len(sleep_list) :
                       wake[t] < wake[sleep_list[i]]}
           r == InsertAt(sleep_list, Min(later \cup {Len(sleep_list) + 1}), t)
<1>2. sleep_list' = r
  BY DEF thread_sleep, InsertOrdered
<1>3. \A i \in 1 .. Len(sleep_list) :
         /\ sleep_list[i] \in Threads /\ sleep_list[i] # t
         /\ wake[sleep_list[i]] = wakeup_ticks[sleep_list[i]]
  <2>1. \A x \in Range(sleep_list) : x \in Threads /\ x # t
    BY <1>1, Sleepers DEF IInv, ElemInOneList, ReadyQueueOK, AllThreads
  <2>2. \A i \in 1 .. Len(sleep_list) : sleep_list[i] \in Range(sleep_list)
    BY <1>1, SeqSet
  <2> QED
    BY <1>1, <2>1, <2>2
<1>4. wake \in [AllThreads -> Nat] /\ \A x \in Threads : wake[x] \in Nat
  BY <1>1 DEF AllThreads
<1> HIDE DEF wake
<1>5. key \in [Threads -> Int] /\ \A x \in Threads : key[x] = 0 - wake[x]
  BY <1>4
<1> HIDE DEF key
<1>6. Descending(sleep_list, key)
  <2>1. \A i \in 1 .. Len(sleep_list) :
          /\ key[sleep_list[i]] = 0 - wakeup_ticks[sleep_list[i]]
          /\ wakeup_ticks[sleep_list[i]] \in Nat
    BY <1>3, <1>4, <1>5
  <2>2. \A i, j \in 1 .. Len(sleep_list) : i < j =>
          wakeup_ticks[sleep_list[i]] <= wakeup_ticks[sleep_list[j]]
    BY DEF Earliest
  <2> QED
    BY <2>1, <2>2 DEF Descending
<1>7. later \subseteq 1 .. Len(sleep_list)
  OBVIOUS
<1>8. \A i \in later : key[t] >= key[sleep_list[i]]
  BY <1>1, <1>3, <1>4, <1>5
<1>9. \A i \in (1 .. Len(sleep_list)) \ later : key[sleep_list[i]] >= key[t]
  BY <1>1, <1>3, <1>4, <1>5
<1> HIDE DEF later
<1>10. r \in Seq(Threads) /\ Descending(r, key)
  BY <1>1, <1>5, <1>6, <1>7, <1>8, <1>9, InsertMin, InsertMinOrdered
<1> HIDE DEF r
<1>11. \A i \in 1 .. Len(r) : r[i] \in Threads
  BY <1>10
<1>12. Earliest(r, wake)
  <2> SUFFICES ASSUME NEW i \in 1 .. Len(r), NEW j \in 1 .. Len(r), i < j
               PROVE  wake[r[i]] <= wake[r[j]]
    BY DEF Earliest
  <2>1. key[r[i]] >= key[r[j]]
    BY <1>10 DEF Descending
  <2>2. r[i] \in Threads /\ r[j] \in Threads
    BY <1>11
  <2>3. wake[r[i]] \in Nat /\ wake[r[j]] \in Nat
    BY <1>4, <2>2
  <2>4. key[r[i]] = 0 - wake[r[i]] /\ key[r[j]] = 0 - wake[r[j]]
    BY <1>5, <2>2
  <2> QED
    BY <2>1, <2>3, <2>4
<1> QED
  BY <1>1, <1>2, <1>12 DEF wake

(* A step that leaves the sleep list, the sleepers' wake-up ticks, the     *)
(* clock and the handler alone keeps AlarmInv.                             *)
LEMMA AlarmSame ==
  ASSUME TypeOK, AlarmInv,
         UNCHANGED <<sleep_list, awake_closest_tick, ticks, irq>>,
         \A t \in Range(sleep_list) : wakeup_ticks'[t] = wakeup_ticks[t]
  PROVE  AlarmInv'
<1>1. \A i \in 1 .. Len(sleep_list) : sleep_list[i] \in Range(sleep_list)
  BY SeqSet DEF TypeOK
<1> QED
  BY <1>1 DEF AlarmInv, Earliest, NoDueSleeper

(* Every step keeps AlarmInv: thread_sleep() lowers awake_closest_tick to  *)
(* its caller's wake-up tick, and the handler stops at the first sleeper   *)
(* that is not due, which is the earliest of those left.                   *)
LEMMA AlarmStep ==
  ASSUME IInv, AlarmInv, [Next]_vars
  PROVE  AlarmInv'
<1>0. /\ TypeOK /\ CoreTypeOK /\ ReadyQueueOK
      /\ sleep_list \in Seq(Threads) /\ IsInjective(sleep_list)
      /\ wakeup_ticks \in [AllThreads -> Nat]
      /\ awake_closest_tick \in Nat /\ ticks \in Nat
      /\ Threads \subseteq AllThreads
      /\ \A x \in Range(sleep_list) : /\ x \in Threads
                                      /\ status[x] = "BLOCKED"
                                      /\ wakeup_ticks[x] \in Nat
      /\ \A i \in 1 .. Len(sleep_list) : sleep_list[i] \in Range(sleep_list)
  <2>1. /\ TypeOK /\ CoreTypeOK /\ ReadyQueueOK
        /\ sleep_list \in Seq(Threads) /\ IsInjective(sleep_list)
        /\ wakeup_ticks \in [AllThreads -> Nat]
        /\ awake_closest_tick \in Nat /\ ticks \in Nat
    BY SchedulerAssumption DEF IInv, TypeOK, CoreTypeOK, ElemInOneList
  <2>2. Threads \subseteq AllThreads
    BY DEF AllThreads
  <2>3. \A x \in Range(sleep_list) : x \in Threads /\ status[x] = "BLOCKED"
    BY <2>1, Sleepers DEF IInv, ElemInOneList
  <2>4. \A i \in 1 .. Len(sleep_list) : sleep_list[i] \in Range(sleep_list)
    BY <2>1, SeqSet
  <2> QED
    BY <2>1, <2>2, <2>3, <2>4
<1>1. CASE UNCHANGED <<wakeup_ticks, alarmVars, irq>>
  BY <1>0, <1>1, AlarmSame DEF alarmVars
<1>2. ASSUME NEW t \in AllThreads, NEW c \in Threads, NEW p \in Priorities,
             thread_create(t, c, p)
      PROVE  AlarmInv'
  <2>1. /\ UNCHANGED <<sleep_list, awake_closest_tick, ticks, irq>>
        /\ status[c] = "FREE"
        /\ wakeup_ticks' = [wakeup_ticks EXCEPT ![c] = 0]
    BY <1>2 DEF thread_create, alarmVars
  <2>2. \A x \in Range(sleep_list) : wakeup_ticks'[x] = wakeup_ticks[x]
    BY <1>0, <2>1
  <2> QED
    BY <1>0, <2>1, <2>2, AlarmSame
<1>3. ASSUME NEW t \in AllThreads, thread_sleep(t)
      PROVE  AlarmInv'
  <2>1. /\ t \in Threads /\ irq = "none" /\ irq' = "none"
        /\ wakeup_ticks' = [wakeup_ticks EXCEPT ![t] = until[t]]
        /\ awake_closest_tick' = Min({awake_closest_tick, until[t]})
        /\ Range(sleep_list') = Range(sleep_list) \cup {t}
        /\ until[t] \in Nat
    <3>1. until[t] \in 0 .. MaxTick
      BY <1>0 DEF TypeOK
    <3>2. until[t] \in Nat
      BY <3>1, SchedulerAssumption
    <3> QED
      BY <1>3, <3>2, SleepInsert DEF thread_sleep, Running
  <2>2. Earliest(sleep_list', wakeup_ticks')
    BY <1>3, SleepOrdered DEF AlarmInv
  <2>3. /\ awake_closest_tick' \in Nat
        /\ awake_closest_tick' <= awake_closest_tick
        /\ awake_closest_tick' <= until[t]
    BY <1>0, <2>1, MinPair
  <2>4. \A x \in Range(sleep_list') : awake_closest_tick' <= wakeup_ticks'[x]
    <3>1. \A x \in Range(sleep_list) : awake_closest_tick <= wakeup_ticks[x]
      BY <2>1 DEF AlarmInv
    <3>2. wakeup_ticks'[t] = until[t]
      BY <1>0, <2>1
    <3>3. \A x \in Range(sleep_list) :
             x # t => wakeup_ticks'[x] = wakeup_ticks[x]
      BY <1>0, <2>1
    <3> QED
      BY <1>0, <2>1, <2>3, <3>1, <3>2, <3>3
  <2> QED
    BY <2>1, <2>2, <2>4 DEF AlarmInv, NoDueSleeper
<1>4. CASE TimerInterrupt
  <2>1. /\ irq = "none" /\ UNCHANGED <<sleep_list, wakeup_ticks>>
        /\ \/ irq' = "awake"
           \/ /\ irq' = "return" /\ UNCHANGED awake_closest_tick
              /\ ticks' < awake_closest_tick /\ ticks' \in Nat
    BY <1>0, <1>4, SchedulerAssumption DEF TimerInterrupt
  <2>2. \A x \in Range(sleep_list) : awake_closest_tick <= wakeup_ticks[x]
    BY <2>1 DEF AlarmInv
  <2>3. irq' = "return" => \A x \in Range(sleep_list) : wakeup_ticks[x] > ticks'
    BY <1>0, <2>1, <2>2
  <2> QED
    BY <2>1, <2>2, <2>3 DEF AlarmInv, NoDueSleeper
<1>5. CASE AwakeFront
  <2> DEFINE r == Tail(sleep_list)
  <2>1. /\ irq = "awake" /\ irq' = "awake" /\ sleep_list # <<>>
        /\ sleep_list' = r /\ UNCHANGED wakeup_ticks
    BY <1>5 DEF AwakeFront
  <2>2. /\ Len(r) = Len(sleep_list) - 1 /\ Len(sleep_list) \in Nat
        /\ \A i \in 1 .. Len(sleep_list) - 1 : r[i] = sleep_list[i + 1]
    BY <1>0, <2>1, TailPointwise
  <2> HIDE DEF r
  <2>3. \A i \in 1 .. Len(r) : /\ i + 1 \in 1 .. Len(sleep_list)
                                /\ r[i] = sleep_list[i + 1]
    BY <2>2
  <2>4. \A i, j \in 1 .. Len(r) : i < j => i + 1 < j + 1
    OBVIOUS
  <2>5. Earliest(r, wakeup_ticks)
    BY <2>3, <2>4 DEF AlarmInv, Earliest
  <2> QED
    BY <2>1, <2>5 DEF AlarmInv, NoDueSleeper
<1>6. CASE AwakeDone
  <2>1. /\ irq' = "return"
        /\ UNCHANGED <<sleep_list, wakeup_ticks, ticks>>
    BY <1>6 DEF AwakeDone, coreVars
  <2>2. CASE sleep_list = <<>>
    <3>1. \A x : x \notin Range(sleep_list)
      BY <2>2 DEF Range
    <3> QED
      BY <2>1, <3>1 DEF AlarmInv, NoDueSleeper
  <2>3. CASE sleep_list # <<>>
    <3> DEFINE first == wakeup_ticks[Head(sleep_list)]
    <3>1. /\ 1 \in 1 .. Len(sleep_list) /\ Head(sleep_list) = sleep_list[1]
          /\ Head(sleep_list) \in Range(sleep_list)
      BY <1>0, <2>3, TailPointwise
    <3>2. /\ first \in Nat /\ first > ticks
          /\ awake_closest_tick' = Min({awake_closest_tick, first})
      BY <1>0, <1>6, <2>3, <3>1 DEF AwakeDone, Due
    <3>3. \A i \in 1 .. Len(sleep_list) : first <= wakeup_ticks[sleep_list[i]]
      <4>1. \A i \in 1 .. Len(sleep_list) : 1 < i =>
               wakeup_ticks[sleep_list[1]] <= wakeup_ticks[sleep_list[i]]
        BY <3>1 DEF AlarmInv, Earliest
      <4>2. \A i \in 1 .. Len(sleep_list) : i = 1 \/ 1 < i
        OBVIOUS
      <4> QED
        BY <3>1, <3>2, <4>1, <4>2
    <3>4. \A x \in Range(sleep_list) : first <= wakeup_ticks[x]
      BY <1>0, <3>3, SeqSet
    <3> HIDE DEF first
    <3>5. awake_closest_tick' <= first /\ awake_closest_tick' \in Nat
      BY <1>0, <3>2, MinPair
    <3>6. \A x \in Range(sleep_list) : /\ awake_closest_tick' <= wakeup_ticks[x]
                                      /\ wakeup_ticks[x] > ticks
      BY <1>0, <3>2, <3>4, <3>5
    <3> QED
      BY <2>1, <3>6 DEF AlarmInv, NoDueSleeper
  <2> QED
    BY <2>2, <2>3
<1>7. CASE InterruptReturn
  BY <1>7 DEF InterruptReturn, alarmVars, AlarmInv, NoDueSleeper
<1>8. \/ UNCHANGED <<wakeup_ticks, alarmVars, irq>>
      \/ \E t \in AllThreads, c \in Threads, p \in Priorities :
            thread_create(t, c, p)
      \/ \E t \in AllThreads : thread_sleep(t)
      \/ TimerInterrupt \/ AwakeFront \/ AwakeDone \/ InterruptReturn
  BY DEF Next, Call, Continue, Interrupt, CreateYield, timer_sleep,
     thread_set_priority, PreemptTest, PreemptFront, PreemptYield, Yield,
     thread_exit, idle, vars, coreVars
<1> QED
  BY <1>1, <1>2, <1>3, <1>4, <1>5, <1>6, <1>7, <1>8

(* timer_interrupt() returns with no due thread left asleep.               *)
THEOREM SleepersAwoken == Spec => []NoDueSleeper
<1>1. Init => AlarmInv
  <2>1. \A x : x \notin Range(<<>>)
    BY DEF Range
  <2> QED
    BY <2>1 DEF Init, CoreInit, AlarmInv, Earliest, NoDueSleeper
<1>2. IInv /\ AlarmInv /\ [Next]_vars => AlarmInv'
  BY AlarmStep
<1>3. AlarmInv => NoDueSleeper
  BY DEF AlarmInv
<1> QED
  BY <1>1, <1>2, <1>3, Invariance, PTL DEF Spec
=============================================================================
