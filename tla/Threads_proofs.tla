--------------------------- MODULE Threads_proofs ---------------------------
(***************************************************************************)
(* Lemmas on the operators of Threads, for the proofs of the modules that  *)
(* extend it: each way through schedule() keeps ReadyQueueOK and the order *)
(* of the ready list.                                                      *)
(***************************************************************************)
EXTENDS Threads, Lists_proofs

(* list_insert_ordered (&ready_list, ..., cmp_priority) adds the thread  *)
(* it is given, and no other, to the ready list.                         *)
LEMMA ReadyInsertSet ==
  ASSUME NEW S, NEW rl \in Seq(S), NEW t \in S, NEW pri, NEW wake
  PROVE  /\ ReadyInsert(t, rl, pri, wake) \in Seq(S)
         /\ Range(ReadyInsert(t, rl, pri, wake)) = Range(rl) \cup {t}
         /\ IsInjective(rl) /\ t \notin Range(rl) =>
              IsInjective(ReadyInsert(t, rl, pri, wake))
<1> DEFINE L == {i \in 1 .. Len(rl) : cmp_priority(t, rl[i], pri, wake)}
<1>1. L \subseteq 1 .. Len(rl)
  OBVIOUS
<1>2. ReadyInsert(t, rl, pri, wake) =
        InsertAt(rl, Min(L \cup {Len(rl) + 1}), t)
  BY DEF ReadyInsert, InsertOrdered
<1> HIDE DEF L
<1> DEFINE r == InsertAt(rl, Min(L \cup {Len(rl) + 1}), t)
<1>3. /\ r \in Seq(S)
      /\ Range(r) = Range(rl) \cup {t}
      /\ IsInjective(rl) /\ t \notin Range(rl) => IsInjective(r)
  BY <1>1, InsertMin
<1> QED
  BY <1>2, <1>3

-----------------------------------------------------------------------------
(* What schedule() needs of its caller: st is the status the current thread *)
(* gives itself; the others' statuses st_of agree with the ready list rl.   *)
Schedulable(st, st_of, rl, freed) ==
  /\ st \in Statuses \ {"RUNNING"}
  /\ st = "DYING" => current # Idle
  /\ st_of \in [AllThreads -> Statuses]
  /\ rl \in Seq(Threads)
  /\ IsInjective(rl)
  /\ \A t \in Threads \ {current} : t \in Range(rl) <=> st_of[t] = "READY"
  /\ current \in Threads => (current \in Range(rl) <=> st = "READY")
  /\ \A t \in AllThreads \ {current} : st_of[t] # "RUNNING"
  /\ \A t \in destruction_req : t # current /\ st_of[t] = "DYING"
  /\ freed \in {{}, destruction_req}

(* schedule() leaves a run queue that agrees with the statuses, and      *)
(* gives every thread it neither frees nor takes from the list the       *)
(* status its caller asked for.                                          *)
LEMMA ScheduleOK ==
  ASSUME CoreTypeOK, NEW st, NEW st_of, NEW rl, NEW freed,
         Schedulable(st, st_of, rl, freed), Schedule(st, st_of, rl, freed)
  PROVE  /\ status' \in [AllThreads -> Statuses]
         /\ ready_list' \in Seq(Threads)
         /\ destruction_req' \subseteq Threads
         /\ current' \in AllThreads
         /\ thread_ticks' \in Nat
         /\ ReadyQueueOK'
         /\ \A t \in Threads : t \notin freed /\ t \notin Range(rl) =>
              status'[t] = IF t = current THEN st ELSE st_of[t]
         /\ \A t \in Range(rl) : status'[t] \in {"RUNNING", "READY"}
<1> USE DEF CoreTypeOK, Schedulable
<1> DEFINE next == next_thread_to_run(rl)
<1>0. current \in AllThreads /\ Idle \notin Threads /\ Idle \in AllThreads
      /\ Threads \subseteq AllThreads /\ destruction_req \subseteq Threads
  BY ThreadsAssumption DEF AllThreads
<1>1. /\ ready_list' \in Seq(Threads) /\ IsInjective(ready_list')
      /\ Range(ready_list') = Range(rl) \ {next}
      /\ next \in AllThreads
      /\ next # Idle => next \in Range(rl) /\ next \in Threads
      /\ next = Idle => rl = <<>>
  <2>1. CASE rl = <<>>
    <3>1. \A v : v \notin Range(rl)
      BY <2>1 DEF Range
    <3> QED
      BY <1>0, <2>1, <3>1 DEF Schedule, next_thread_to_run
  <2>2. CASE rl # <<>>
    BY <1>0, <2>2, TailSet, TailPointwise DEF Schedule, next_thread_to_run
  <2> QED
    BY <2>1, <2>2
<1>2. /\ current' = next /\ thread_ticks' = 0
      /\ destruction_req' = (destruction_req \ freed) \cup
                 (IF st = "DYING" /\ current # Main THEN {current} ELSE {})
      /\ status' = [t \in AllThreads |->
                      IF t = next THEN "RUNNING"
                      ELSE IF t = current THEN st
                      ELSE IF t \in freed THEN "FREE"
                      ELSE st_of[t]]
  BY DEF Schedule
<1> HIDE DEF next
<1>3. Range(rl) \subseteq Threads
  BY SeqSet
<1>4. /\ \A t \in destruction_req : t \notin Range(rl) /\ t # next
  BY <1>0, <1>1
<1>5. status' \in [AllThreads -> Statuses]
  BY <1>2 DEF Statuses
<1>6. destruction_req' \subseteq Threads
  BY <1>0, <1>2 DEF AllThreads
<1>7. \A t \in Threads : t \in Range(ready_list') <=> status'[t] = "READY"
  BY <1>0, <1>1, <1>2, <1>4
<1>8. \A t \in AllThreads : t = current' <=> status'[t] = "RUNNING"
  BY <1>1, <1>2
<1>9. \A t \in destruction_req' : status'[t] = "DYING"
  BY <1>0, <1>1, <1>2, <1>4, <1>6
<1>10. ReadyQueueOK'
  BY <1>1, <1>7, <1>8, <1>9 DEF ReadyQueueOK
<1>11. \A t \in Threads : t \notin Range(rl) => t # next
  BY <1>0, <1>1
<1>12. \A t \in Range(rl) : status'[t] \in {"RUNNING", "READY"}
  BY <1>0, <1>1, <1>2, <1>3, <1>7
<1> QED
  BY <1>0, <1>1, <1>2, <1>5, <1>6, <1>10, <1>11, <1>12

(* What a switch leaves: all of CoreTypeOK but what no switch changes.     *)
Switched ==
  /\ status' \in [AllThreads -> Statuses]
  /\ ready_list' \in Seq(Threads)
  /\ destruction_req' \subseteq Threads
  /\ current' \in AllThreads
  /\ thread_ticks' \in Nat
  /\ ReadyQueueOK'
  /\ \A t \in Threads : status[t] = "BLOCKED" => status'[t] = "BLOCKED"

(* What a caller with interrupts off hands over: statuses that agree with a *)
(* ready list.                                                             *)
Queued(st_of, rl) ==
  /\ st_of \in [AllThreads -> Statuses]
  /\ rl \in Seq(Threads)
  /\ IsInjective(rl)
  /\ \A t \in Threads : t \in Range(rl) <=> st_of[t] = "READY"
  /\ \A t \in AllThreads : t = current <=> st_of[t] = "RUNNING"
  /\ \A t \in destruction_req : st_of[t] = "DYING"

(* ... and what it gets back: whoever was awake still is, and who was not  *)
(* is not.                                                                 *)
SwitchedFrom(st_of) ==
  /\ status' \in [AllThreads -> Statuses]
  /\ ready_list' \in Seq(Threads)
  /\ destruction_req' \subseteq destruction_req
  /\ current' \in AllThreads
  /\ thread_ticks' \in Nat
  /\ ReadyQueueOK'
  /\ \A t \in Threads : st_of[t] = "BLOCKED" => status'[t] = "BLOCKED"
  /\ \A t \in Threads : st_of[t] \in {"RUNNING", "READY"} =>
                          status'[t] \in {"RUNNING", "READY"}

(* A yield is a legal switch: the current thread goes into the ready list  *)
(* as READY, the idle thread does not.                                     *)
LEMMA YieldFromOK ==
  ASSUME CoreTypeOK, NEW st_of, NEW rl0, Queued(st_of, rl0),
         YieldFrom(st_of, rl0)
  PROVE  SwitchedFrom(st_of)
<1> USE ThreadsAssumption DEF CoreTypeOK
<1> DEFINE rl == IF current = Idle THEN rl0
                 ELSE ReadyInsert(current, rl0, priority, wakeup_ticks)
<1>1. Schedule("READY", st_of, rl, destruction_req)
  BY DEF YieldFrom, do_schedule
<1>2. current # Idle => current \in Threads /\ current \notin Range(rl0)
  BY DEF Queued, AllThreads
<1>3. /\ rl \in Seq(Threads) /\ IsInjective(rl)
      /\ Range(rl) = Range(rl0) \cup
                       (IF current = Idle THEN {} ELSE {current})
  <2>1. CASE current = Idle
    BY <2>1 DEF Queued
  <2>2. CASE current # Idle
    BY <1>2, <2>2, ReadyInsertSet DEF Queued
  <2> QED
    BY <2>1, <2>2
<1> HIDE DEF rl
<1>4. Schedulable("READY", st_of, rl, destruction_req)
  BY <1>2, <1>3 DEF Schedulable, Queued, Statuses, AllThreads
<1>5. \A t \in Threads : st_of[t] = "BLOCKED" =>
          t \notin Range(rl) /\ t # current /\ t \notin destruction_req
  BY <1>2, <1>3 DEF Queued, AllThreads
<1>6. \A t \in Threads :
         st_of[t] \in {"RUNNING", "READY"} => t \in Range(rl)
  BY <1>2, <1>3 DEF Queued, AllThreads
<1>7. destruction_req' \subseteq destruction_req
  BY <1>1 DEF Schedule
<1>8. /\ status' \in [AllThreads -> Statuses]
      /\ ready_list' \in Seq(Threads)
      /\ current' \in AllThreads
      /\ thread_ticks' \in Nat
      /\ ReadyQueueOK'
      /\ \A t \in Threads : t \notin destruction_req /\ t \notin Range(rl) =>
           status'[t] = IF t = current THEN "READY" ELSE st_of[t]
      /\ \A t \in Range(rl) : status'[t] \in {"RUNNING", "READY"}
  BY <1>1, <1>4, ScheduleOK
<1> QED
  BY <1>5, <1>6, <1>7, <1>8 DEF SwitchedFrom

(* A run queue that agrees with the statuses may be handed over.           *)
LEMMA QueuedNow ==
  ASSUME CoreTypeOK, ReadyQueueOK
  PROVE  Queued(status, ready_list)
  BY DEF CoreTypeOK, ReadyQueueOK, Queued

(* preempt_priority() with interrupts off yields, or leaves all as it was  *)
(* handed over.                                                            *)
LEMMA PreemptFromOK ==
  ASSUME CoreTypeOK, NEW st_of, NEW rl, Queued(st_of, rl),
         PreemptFrom(st_of, rl)
  PROVE  SwitchedFrom(st_of)
<1>1. CASE YieldFrom(st_of, rl)
  BY <1>1, YieldFromOK
<1>2. CASE /\ status' = st_of
           /\ ready_list' = rl
           /\ UNCHANGED <<destruction_req, current, thread_ticks>>
  BY <1>2 DEF CoreTypeOK, Queued, SwitchedFrom, ReadyQueueOK
<1> QED
  BY <1>1, <1>2 DEF PreemptFrom

(* thread_yield(), by the same argument.                                   *)
LEMMA YieldOK ==
  ASSUME CoreTypeOK, ReadyQueueOK, thread_yield
  PROVE  Switched /\ SwitchedFrom(status)
<1>1. SwitchedFrom(status)
  BY QueuedNow, YieldFromOK DEF thread_yield
<1> QED
  BY <1>1 DEF SwitchedFrom, Switched, CoreTypeOK

(* thread_block() is a legal switch that leaves the caller BLOCKED.      *)
LEMMA BlockOK ==
  ASSUME CoreTypeOK, ReadyQueueOK, thread_block
  PROVE  /\ Switched
         /\ current \in Threads => status'[current] = "BLOCKED"
         /\ destruction_req' = destruction_req
         /\ \A t \in Threads \ {current} :
              status[t] \in {"RUNNING", "READY"} =>
                status'[t] \in {"RUNNING", "READY"}
<1> USE ThreadsAssumption DEF CoreTypeOK
<1>1. Schedule("BLOCKED", status, ready_list, {})
  BY DEF thread_block
<1>2. Schedulable("BLOCKED", status, ready_list, {})
  BY DEF Schedulable, ReadyQueueOK, Statuses, AllThreads
<1>3. \A t \in Threads : status[t] = "BLOCKED" =>
          t \notin Range(ready_list) /\ t # current
  BY DEF ReadyQueueOK, AllThreads
<1>4. current \in Threads => current \notin Range(ready_list)
  BY DEF ReadyQueueOK, AllThreads
<1>5. /\ status' \in [AllThreads -> Statuses]
      /\ ready_list' \in Seq(Threads)
      /\ destruction_req' \subseteq Threads
      /\ current' \in AllThreads
      /\ thread_ticks' \in Nat
      /\ ReadyQueueOK'
  BY <1>1, <1>2, ScheduleOK
<1>6. \A t \in Threads : t \notin Range(ready_list) =>
        status'[t] = IF t = current THEN "BLOCKED" ELSE status[t]
  <2> DEFINE none == {}
  <2>1. /\ Schedule("BLOCKED", status, ready_list, none)
        /\ Schedulable("BLOCKED", status, ready_list, none)
    BY <1>1, <1>2
  <2> HIDE DEF none
  <2>2. \A t \in Threads : t \notin none /\ t \notin Range(ready_list) =>
          status'[t] = IF t = current THEN "BLOCKED" ELSE status[t]
    BY <2>1, ScheduleOK
  <2> QED
    BY <2>2 DEF none
<1>7. destruction_req' = destruction_req
  BY <1>1 DEF Schedule
<1>8. \A t \in Range(ready_list) : status'[t] \in {"RUNNING", "READY"}
  BY <1>1, <1>2, ScheduleOK
<1>9. \A t \in Threads \ {current} :
        status[t] \in {"RUNNING", "READY"} => t \in Range(ready_list)
  BY DEF ReadyQueueOK, AllThreads
<1> QED
  BY <1>3, <1>4, <1>5, <1>6, <1>7, <1>8, <1>9 DEF Switched

(* The switch at the end of thread_exit() is legal.                      *)
LEMMA DieOK ==
  ASSUME CoreTypeOK, ReadyQueueOK, current # Idle,
         do_schedule("DYING", status, ready_list)
  PROVE  Switched
<1> USE ThreadsAssumption DEF CoreTypeOK
<1>1. Schedule("DYING", status, ready_list, destruction_req)
  BY DEF do_schedule
<1>2. Schedulable("DYING", status, ready_list, destruction_req)
  BY DEF Schedulable, ReadyQueueOK, Statuses, AllThreads
<1>3. \A t \in Threads : status[t] = "BLOCKED" =>
         t \notin Range(ready_list) /\ t # current /\ t \notin destruction_req
  BY DEF ReadyQueueOK, AllThreads
<1> QED
  BY <1>1, <1>2, <1>3, ScheduleOK DEF Switched
-----------------------------------------------------------------------------
(* list_insert_ordered (&ready_list, ..., cmp_priority) keeps the ready    *)
(* list in descending order of priority.                                   *)
LEMMA ReadyInsertOrdered ==
  ASSUME NEW S, NEW rl \in Seq(S), NEW t \in S, NEW pri \in [S -> Int],
         NEW wake, Descending(rl, pri)
  PROVE  Descending(ReadyInsert(t, rl, pri, wake), pri)
<1> DEFINE L == {i \in 1 .. Len(rl) : cmp_priority(t, rl[i], pri, wake)}
<1>1. L \subseteq 1 .. Len(rl) /\ \A i \in 1 .. Len(rl) : rl[i] \in S
  OBVIOUS
<1>2. \A i \in L : pri[t] >= pri[rl[i]]
  BY <1>1 DEF cmp_priority
<1>3. \A i \in (1 .. Len(rl)) \ L : pri[rl[i]] >= pri[t]
  BY <1>1 DEF cmp_priority
<1>4. ReadyInsert(t, rl, pri, wake) =
        InsertAt(rl, Min(L \cup {Len(rl) + 1}), t)
  BY DEF ReadyInsert, InsertOrdered
<1> HIDE DEF L
<1>5. Descending(InsertAt(rl, Min(L \cup {Len(rl) + 1}), t), pri)
  BY <1>1, <1>2, <1>3, InsertMinOrdered
<1> QED
  BY <1>4, <1>5

(* schedule() with an ordered ready list leaves an ordered one, and        *)
(* chooses a thread that nobody left in the list outranks.                 *)
LEMMA ScheduleOrdered ==
  ASSUME NEW st, NEW st_of, NEW rl \in Seq(Threads), NEW freed,
         Descending(rl, priority), Schedule(st, st_of, rl, freed)
  PROVE  /\ Descending(ready_list', priority)
         /\ \A t \in Range(ready_list') : priority[current'] >= priority[t]
<1>1. CASE rl = <<>>
  BY <1>1 DEF Schedule, Range, Descending
<1>2. CASE rl # <<>>
  <2>1. /\ ready_list' = Tail(rl) /\ current' = Head(rl)
    BY <1>2 DEF Schedule, next_thread_to_run
  <2> QED
    BY <1>2, <2>1, TailOrdered
<1> QED
  BY <1>1, <1>2
(* Priorities are numbers.                                                 *)
LEMMA PriorityType ==
  ASSUME CoreTypeOK
  PROVE  priority \in [AllThreads -> Int]
<1>1. priority \in [AllThreads -> 0 .. 63]
  BY DEF CoreTypeOK, PRI_MIN, PRI_MAX
<1> QED
  BY <1>1

(* Lists of threads are lists over all of them.                            *)
LEMMA OverAllThreads ==
  ASSUME NEW s \in Seq(Threads)
  PROVE  s \in Seq(AllThreads) /\ Range(s) \subseteq Threads
  BY SeqSet DEF AllThreads

(* thread_yield() keeps the ready list in order and gives the CPU to a     *)
(* thread that no ready one outranks.                                      *)
LEMMA YieldOrdered ==
  ASSUME CoreTypeOK, ReadyOrdered, thread_yield
  PROVE  /\ Descending(ready_list', priority)
         /\ \A t \in Range(ready_list') : priority[current'] >= priority[t]
<1> DEFINE rl == IF current = Idle THEN ready_list
                 ELSE ReadyInsert(current, ready_list, priority, wakeup_ticks)
<1>1. Schedule("READY", status, rl, destruction_req)
  BY DEF thread_yield, YieldFrom, do_schedule
<1>2. /\ ready_list \in Seq(Threads) /\ ready_list \in Seq(AllThreads)
      /\ current \in AllThreads /\ priority \in [AllThreads -> Int]
      /\ Descending(ready_list, priority)
  BY OverAllThreads, PriorityType DEF CoreTypeOK, ReadyOrdered, Descending
<1>3. rl \in Seq(Threads) /\ Descending(rl, priority)
  <2>1. CASE current = Idle
    BY <1>2, <2>1
  <2>2. CASE current # Idle
    <3>1. current \in Threads
      BY <1>2, <2>2 DEF AllThreads
    <3>2. rl = ReadyInsert(current, ready_list, priority, wakeup_ticks)
      BY <2>2
    <3> HIDE DEF rl
    <3>3. rl \in Seq(Threads)
      BY <1>2, <3>1, <3>2, ReadyInsertSet
    <3> QED
      BY <1>2, <3>2, <3>3, ReadyInsertOrdered
  <2> QED
    BY <2>1, <2>2
<1> HIDE DEF rl
<1> QED
  BY <1>1, <1>3, ScheduleOrdered
=============================================================================
