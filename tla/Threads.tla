------------------------------ MODULE Threads ------------------------------
(***************************************************************************)
(* The part of threads/thread.c every other kernel module stands on: the   *)
(* thread structures, the ready list, the context switch and the deferred  *)
(* freeing of dead threads.  One CPU: a stretch of code that runs with     *)
(* interrupts off is one step, and `current` is the thread the CPU is on.  *)
(*                                                                         *)
(* The operators below are the bodies of kernel functions, to be used as   *)
(* conjuncts of the actions of the modules that extend this one.           *)
(***************************************************************************)
EXTENDS Naturals, Sequences, SequencesExt

CONSTANTS
  Threads,     \* the pages that can hold a struct thread, but the idle one's
  Main,        \* initial_thread
  Idle,        \* idle_thread
  Priorities,  \* the priorities in use
  TimeSlice    \* TIME_SLICE

PRI_MIN == 0
PRI_MAX == 63

ASSUME ThreadsAssumption ==
  /\ Main \in Threads
  /\ Idle \notin Threads
  /\ Priorities \subseteq PRI_MIN .. PRI_MAX
  /\ TimeSlice \in Nat \ {0}

AllThreads == Threads \cup {Idle}

Statuses == {"RUNNING", "READY", "BLOCKED", "DYING", "FREE"}

VARIABLES
  status,           \* t->status; "FREE" when the page holds no thread
  priority,         \* t->priority
  wakeup_ticks,     \* t->wakeup_ticks, never reset once a thread has slept
  ready_list,
  destruction_req,  \* the set of dead threads whose page is still to be freed
  current,          \* thread_current()
  thread_ticks      \* ticks since the last switch

coreVars == <<status, priority, wakeup_ticks, ready_list, destruction_req,
              current, thread_ticks>>
-----------------------------------------------------------------------------
(* list_insert_ordered: in front of the first element x is less than.      *)
InsertOrdered(s, x, Less(_, _)) ==
  LET larger == {i \in 1 .. Len(s) : Less(x, s[i])}
  IN  InsertAt(s, Min(larger \cup {Len(s) + 1}), x)

(* Mutants of cmp_priority: the order of the sleep list; ties go first.    *)
cmp_wakeup_only(a, b, pri, wake) == wake[a] < wake[b]
cmp_priority_lifo(a, b, pri, wake) ==
  IF pri[a] = pri[b] THEN wake[a] <= wake[b] ELSE pri[a] > pri[b]

(* Higher priority first; among equals the smaller wakeup_ticks first.     *)
cmp_priority(a, b, pri, wake) ==
  IF pri[a] = pri[b] THEN wake[a] < wake[b] ELSE pri[a] > pri[b]

(* Mutant of ReadyInsert: list_push_back().                                *)
ReadyPushBack(t, rl, pri, wake) == Append(rl, t)

ReadyInsert(t, rl, pri, wake) ==
  InsertOrdered(rl, t, LAMBDA a, b : cmp_priority(a, b, pri, wake))

next_thread_to_run(rl) == IF rl = <<>> THEN Idle ELSE Head(rl)

(***************************************************************************)
(* schedule() as its callers reach it: the current thread gets status st,  *)
(* st_of and rl are the statuses and the ready list at the call, freed the *)
(* dead threads do_schedule() has just returned to the page allocator.  A  *)
(* thread that dies now waits in destruction_req; initial_thread's page is *)
(* never freed.                                                            *)
(***************************************************************************)
Schedule(st, st_of, rl, freed) ==
  LET next == next_thread_to_run(rl)
  IN  /\ status' = [t \in AllThreads |->
                      IF t = next THEN "RUNNING"
                      ELSE IF t = current THEN st
                      ELSE IF t \in freed THEN "FREE"
                      ELSE st_of[t]]
      /\ ready_list' = IF rl = <<>> THEN rl ELSE Tail(rl)
      /\ current' = next
      /\ thread_ticks' = 0
      /\ destruction_req' = (destruction_req \ freed) \cup
                 (IF st = "DYING" /\ current # Main THEN {current} ELSE {})

do_schedule(st, st_of, rl) == Schedule(st, st_of, rl, destruction_req)

thread_block == Schedule("BLOCKED", status, ready_list, {})

(* Mutant of YieldFrom: no test for the idle thread.                       *)
YieldQueuesIdle(st_of, rl) ==
  do_schedule("READY", st_of, ReadyInsert(current, rl, priority, wakeup_ticks))

(* thread_yield() from statuses st_of and ready list rl: the idle thread   *)
(* is never queued, so a yield leaves it READY and in no list.             *)
YieldFrom(st_of, rl) ==
  do_schedule("READY", st_of,
              IF current = Idle THEN rl
              ELSE ReadyInsert(current, rl, priority, wakeup_ticks))

thread_yield == YieldFrom(status, ready_list)

(* preempt_priority() called with interrupts off.                          *)
PreemptFrom(st_of, rl) ==
  IF rl # <<>> /\ priority[current] < priority[Head(rl)]
  THEN YieldFrom(st_of, rl)
  ELSE /\ status' = st_of
       /\ ready_list' = rl
       /\ UNCHANGED <<destruction_req, current, thread_ticks>>
-----------------------------------------------------------------------------
(* The state thread_start() leaves: the main thread runs, and the idle     *)
(* thread has yielded to it inside sema_up(idle_started).                  *)
CoreInit ==
  /\ \E p \in Priorities : priority = [t \in AllThreads |->
                                         IF t = Idle THEN PRI_MIN ELSE p]
  /\ status = [t \in AllThreads |-> CASE t = Main -> "RUNNING"
                                      [] t = Idle -> "READY"
                                      [] OTHER    -> "FREE"]
  /\ wakeup_ticks = [t \in AllThreads |-> 0]
  /\ ready_list = <<>>
  /\ destruction_req = {}
  /\ current = Main
  /\ thread_ticks = 0

CoreTypeOK ==
  /\ status \in [AllThreads -> Statuses]
  /\ priority \in [AllThreads -> PRI_MIN .. PRI_MAX]
  /\ wakeup_ticks \in [AllThreads -> Nat]
  /\ ready_list \in Seq(Threads)
  /\ destruction_req \subseteq Threads
  /\ current \in AllThreads
  /\ thread_ticks \in Nat

(***************************************************************************)
(* The run queue and the statuses agree: a thread other than the idle one  *)
(* is READY exactly when it is queued, once, and exactly the current       *)
(* thread is RUNNING.  A dead thread stays off the CPU until its page is   *)
(* freed.  (thread.h: "only a thread in the ready state is on the run      *)
(* queue".)                                                                *)
(***************************************************************************)
ReadyQueueOK ==
  /\ IsInjective(ready_list)
  /\ \A t \in Threads : t \in Range(ready_list) <=> status[t] = "READY"
  /\ \A t \in AllThreads : t = current <=> status[t] = "RUNNING"
  /\ \A t \in destruction_req : status[t] = "DYING"

(* The ready list is in descending order of priority, so that its front is *)
(* a highest-priority ready thread.                                        *)
ReadyOrdered ==
  \A i, j \in 1 .. Len(ready_list) :
     i < j => priority[ready_list[i]] >= priority[ready_list[j]]

(* Every switch gives the CPU to a thread that no ready thread outranks.   *)
RunsHighest ==
  [][current' # current =>
       \A t \in Range(ready_list') :
          priority'[current'] >= priority'[t]]_coreVars
=============================================================================
