----------------------------- MODULE Scheduler -----------------------------
(***************************************************************************)
(* Priority scheduling and the alarm clock of threads/thread.c and         *)
(* devices/timer.c, in the kernel of the threads project (no USERPROG).    *)
(*                                                                         *)
(* pc[t] is the point thread t has reached in the kernel; "run" is any     *)
(* point outside the functions modelled.  Between two steps interrupts are *)
(* on, so the timer interrupt may come between any two of them.            *)
(***************************************************************************)
EXTENDS Threads

CONSTANTS
  Durations,   \* the arguments timer_sleep() is called with
  MaxTick,     \* the clock saturates here; see TimerInterrupt
  INT64_MAX    \* above every clock value

ASSUME SchedulerAssumption ==
  /\ Durations \subseteq Nat \ {0}
  /\ MaxTick \in Nat
  /\ INT64_MAX \in Nat
  /\ INT64_MAX > MaxTick

VARIABLES
  ticks,               \* the clock, in timer ticks
  awake_closest_tick,  \* no sleeper is due before this tick
  sleep_list,          \* the sleeping threads, earliest wake-up first
  irq,                 \* how far the timer interrupt handler has got
  pc,
  until,               \* timer_sleep's wakeup_tick, a local of the thread
  child                \* thread_create's t, a local of the thread

alarmVars == <<ticks, awake_closest_tick, sleep_list>>
localVars == <<pc, until, child>>
vars == <<coreVars, alarmVars, localVars, irq>>

Points == {"run", "created", "sleep", "preempt", "front", "yield", "hlt",
           "panic"}

Running(t, point) == current = t /\ irq = "none" /\ pc[t] = point
Goto(t, point) == pc' = [pc EXCEPT ![t] = point]
-----------------------------------------------------------------------------
(***************************************************************************)
(* thread_create(): a page is taken, the child is unblocked, and only then *)
(* its priority is compared with the creator's.  What comes before the     *)
(* child is ready is left out: the wait for tid_lock (allocate_tid), which *)
(* delays a creation, and the parent's child_list (see Process).           *)
(***************************************************************************)
thread_create(t, c, p) ==
  LET pri  == [priority EXCEPT ![c] = p]
      wake == [wakeup_ticks EXCEPT ![c] = 0]
  IN  /\ Running(t, "run") /\ t # Idle
      /\ status[c] = "FREE"
      /\ priority' = pri
      /\ wakeup_ticks' = wake
      /\ status' = [status EXCEPT ![c] = "READY"]
      /\ ready_list' = ReadyInsert(c, ready_list, pri, wake)
      /\ pc' = [pc EXCEPT ![t] = "created", ![c] = "run"]
      /\ child' = [child EXCEPT ![t] = c]
      /\ UNCHANGED <<destruction_req, current, thread_ticks, alarmVars,
                     until, irq>>

(* The comparison reads the child's page.  If the child has died meanwhile *)
(* and its page was freed, the read finds 0xcc bytes: a negative number.   *)
CreateYield(t) ==
  /\ Running(t, "created")
  /\ IF status[child[t]] # "FREE" /\ priority[child[t]] > priority[t]
     THEN thread_yield
     ELSE UNCHANGED <<status, ready_list, destruction_req, current,
                      thread_ticks>>
  /\ Goto(t, "run")
  /\ child' = [child EXCEPT ![t] = t]
  /\ UNCHANGED <<priority, wakeup_ticks, alarmVars, until, irq>>

(* timer_sleep(d) reads the clock with interrupts on ...                   *)
timer_sleep(t, d) ==
  /\ Running(t, "run") /\ t # Idle
  /\ ticks + d <= MaxTick
  /\ until' = [until EXCEPT ![t] = ticks + d]
  /\ Goto(t, "sleep")
  /\ UNCHANGED <<coreVars, alarmVars, child, irq>>

(* ... and thread_sleep() blocks until a tick that may have passed by then.*)
thread_sleep(t) ==
  LET wake == [wakeup_ticks EXCEPT ![t] = until[t]]
  IN  /\ Running(t, "sleep")
      /\ wakeup_ticks' = wake
      /\ awake_closest_tick' = Min({awake_closest_tick, until[t]})
      /\ sleep_list' = InsertOrdered(sleep_list, t,
                                     LAMBDA a, b : wake[a] < wake[b])
      /\ thread_block
      /\ Goto(t, "run")
      /\ until' = [until EXCEPT ![t] = 0]
      /\ UNCHANGED <<priority, ticks, child, irq>>

(* thread_set_priority(p) of a thread that has received no donation.       *)
thread_set_priority(t, p) ==
  /\ Running(t, "run") /\ t # Idle
  /\ priority' = [priority EXCEPT ![t] = p]
  /\ Goto(t, "preempt")
  /\ UNCHANGED <<status, wakeup_ticks, ready_list, destruction_req, current,
                 thread_ticks, alarmVars, until, child, irq>>

(* preempt_priority() with interrupts on: the test for an empty list ...   *)
PreemptTest(t) ==
  /\ Running(t, "preempt")
  /\ Goto(t, IF ready_list = <<>> THEN "run" ELSE "front")
  /\ UNCHANGED <<coreVars, alarmVars, until, child, irq>>

(* ... list_front(), whose assertion fails on an empty list ...            *)
PreemptFront(t) ==
  /\ Running(t, "front")
  /\ Goto(t, IF ready_list = <<>> THEN "panic"
             ELSE IF priority[t] < priority[Head(ready_list)] THEN "yield"
             ELSE "run")
  /\ UNCHANGED <<coreVars, alarmVars, until, child, irq>>

(* ... and the yield.                                                      *)
PreemptYield(t) ==
  /\ Running(t, "yield")
  /\ thread_yield
  /\ Goto(t, "run")
  /\ UNCHANGED <<priority, wakeup_ticks, alarmVars, until, child, irq>>

Yield(t) ==
  /\ Running(t, "run") /\ t # Idle
  /\ thread_yield
  /\ UNCHANGED <<priority, wakeup_ticks, alarmVars, localVars, irq>>

thread_exit(t) ==
  /\ Running(t, "run") /\ t # Idle
  /\ do_schedule("DYING", status, ready_list)
  /\ UNCHANGED <<priority, wakeup_ticks, alarmVars, localVars, irq>>

(* idle(): its loop blocks, and when it is chosen anew it halts the CPU    *)
(* until an interrupt (TimerInterrupt) returns it to the top of the loop.  *)
idle ==
  /\ Running(Idle, "run")
  /\ thread_block
  /\ Goto(Idle, "hlt")
  /\ UNCHANGED <<priority, wakeup_ticks, alarmVars, until, child, irq>>
-----------------------------------------------------------------------------
(***************************************************************************)
(* The timer interrupt handler, with interrupts off from TimerInterrupt to *)
(* InterruptReturn.  The clock saturates at MaxTick: no thread asks to     *)
(* sleep beyond it, so comparing a saturated clock with a wake-up tick     *)
(* gives what the unbounded clock gives.                                   *)
(***************************************************************************)
TimerInterrupt ==
  LET now == IF ticks < MaxTick THEN ticks + 1 ELSE ticks
  IN  /\ irq = "none" /\ pc[current] # "panic"
      /\ ticks' = now
      /\ thread_ticks' = thread_ticks + 1
      /\ IF awake_closest_tick <= now
         THEN irq' = "awake" /\ awake_closest_tick' = INT64_MAX
         ELSE irq' = "return" /\ UNCHANGED awake_closest_tick
      /\ IF pc[current] = "hlt" THEN Goto(current, "run") ELSE UNCHANGED pc
      /\ UNCHANGED <<status, priority, wakeup_ticks, ready_list,
                     destruction_req, current, sleep_list, until, child>>

Due(t) == ticks >= wakeup_ticks[t] /\ status[t] = "BLOCKED"

(* Mutants of AwakeFront: the sleeper is made ready and stays in the list, *)
(* or is taken off the list and not made ready.                            *)
AwakeKeepsListed ==
  /\ irq = "awake"
  /\ sleep_list # <<>> /\ Due(Head(sleep_list))
  /\ status' = [status EXCEPT ![Head(sleep_list)] = "READY"]
  /\ ready_list' = ReadyInsert(Head(sleep_list), ready_list, priority,
                               wakeup_ticks)
  /\ UNCHANGED <<priority, wakeup_ticks, destruction_req, current,
                 thread_ticks, alarmVars, localVars, irq>>

AwakeDropsSleeper ==
  /\ irq = "awake"
  /\ sleep_list # <<>> /\ Due(Head(sleep_list))
  /\ sleep_list' = Tail(sleep_list)
  /\ UNCHANGED <<coreVars, ticks, awake_closest_tick, localVars, irq>>

(* One turn of thread_awake()'s loop that wakes the front sleeper ...      *)
AwakeFront ==
  LET t == Head(sleep_list)
  IN  /\ irq = "awake"
      /\ sleep_list # <<>>
      /\ Due(t)
      /\ sleep_list' = Tail(sleep_list)
      /\ status' = [status EXCEPT ![t] = "READY"]
      /\ ready_list' = ReadyInsert(t, ready_list, priority, wakeup_ticks)
      /\ UNCHANGED <<priority, wakeup_ticks, destruction_req, current,
                     thread_ticks, ticks, awake_closest_tick, localVars, irq>>

(* Mutant of AwakeDone: no update_closest_tick().                          *)
AwakeForgetsClosest ==
  /\ irq = "awake"
  /\ sleep_list # <<>> => ~ Due(Head(sleep_list))
  /\ irq' = "return"
  /\ UNCHANGED <<coreVars, alarmVars, localVars>>

(* ... and the end of the loop, at the first sleeper that is not due.      *)
AwakeDone ==
  /\ irq = "awake"
  /\ IF sleep_list = <<>>
     THEN UNCHANGED awake_closest_tick
     ELSE LET t == Head(sleep_list)
          IN  /\ ~ Due(t)
              /\ awake_closest_tick' =
                     Min({awake_closest_tick, wakeup_ticks[t]})
  /\ irq' = "return"
  /\ UNCHANGED <<coreVars, ticks, sleep_list, localVars>>

(* The slice has expired if thread_tick() asked for a yield on return.     *)
InterruptReturn ==
  /\ irq = "return"
  /\ irq' = "none"
  /\ IF thread_ticks >= TimeSlice
     THEN thread_yield
     ELSE UNCHANGED <<status, ready_list, destruction_req, current,
                      thread_ticks>>
  /\ UNCHANGED <<priority, wakeup_ticks, alarmVars, localVars>>

Interrupt == TimerInterrupt \/ AwakeFront \/ AwakeDone \/ InterruptReturn
-----------------------------------------------------------------------------
Init ==
  /\ CoreInit
  /\ ticks = 0
  /\ awake_closest_tick = 0
  /\ sleep_list = <<>>
  /\ irq = "none"
  /\ pc = [t \in AllThreads |-> "run"]
  /\ until = [t \in AllThreads |-> 0]
  /\ child = [t \in AllThreads |-> t]

(* The steps of a call the kernel is in the middle of.                     *)
Continue(t) ==
  \/ CreateYield(t)
  \/ thread_sleep(t)
  \/ PreemptTest(t)
  \/ PreemptFront(t)
  \/ PreemptYield(t)

(* The calls a thread may make.                                            *)
Call(t) ==
  \/ \E c \in Threads, p \in Priorities : thread_create(t, c, p)
  \/ \E d \in Durations : timer_sleep(t, d)
  \/ \E p \in Priorities : thread_set_priority(t, p)
  \/ Yield(t)
  \/ thread_exit(t)

Next ==
  \/ \E t \in AllThreads : Call(t) \/ Continue(t)
  \/ idle
  \/ Interrupt

Spec == Init /\ [][Next]_vars

(***************************************************************************)
(* The timer never stops and its handler runs to its end; the CPU executes *)
(* the kernel code of the thread it is on.  Nothing is assumed of what     *)
(* threads do outside the kernel.                                          *)
(***************************************************************************)
Fairness ==
  /\ WF_vars(Interrupt)
  /\ WF_vars(idle)
  /\ \A t \in Threads : WF_vars(Continue(t))

FairSpec == Spec /\ Fairness
-----------------------------------------------------------------------------
TypeOK ==
  /\ CoreTypeOK
  /\ ticks \in 0 .. MaxTick
  /\ awake_closest_tick \in 0 .. INT64_MAX
  /\ sleep_list \in Seq(Threads)
  /\ irq \in {"none", "awake", "return"}
  /\ pc \in [AllThreads -> Points]
  /\ until \in [AllThreads -> 0 .. MaxTick]
  /\ child \in [AllThreads -> AllThreads]

(***************************************************************************)
(* t->elem is in one list at a time (thread.h, "The `elem' member has a    *)
(* dual purpose"): the run queue agrees with the statuses, and a sleeper   *)
(* is BLOCKED, hence in no other list, and asleep once.                    *)
(***************************************************************************)
ElemInOneList ==
  /\ ReadyQueueOK
  /\ IsInjective(sleep_list)
  /\ \A t \in Range(sleep_list) : status[t] = "BLOCKED"

(* timer_interrupt() returns with no due thread left asleep, even one that *)
(* was preempted between reading the clock and going to sleep.             *)
NoDueSleeper ==
  irq = "return" => \A t \in Range(sleep_list) : wakeup_ticks[t] > ticks

(* Every sleeper is made ready again, or the kernel has panicked.          *)
SleepersWake ==
  \A t \in Threads :
     t \in Range(sleep_list) ~> (status[t] = "READY" \/ pc[current] = "panic")

(***************************************************************************)
(* A ready thread that cmp_priority() places before no runnable thread     *)
(* gets the CPU, at the latest when the slices of those queued ahead of it *)
(* end: with equal keys the list is first-in first-out.  (A thread whose   *)
(* wakeup_ticks, which nothing resets, stay above another's of its         *)
(* priority has no such promise.)                                          *)
(***************************************************************************)
FirstInLine(t) ==
  \A u \in AllThreads \ {t} :
     status[u] \in {"READY", "RUNNING"} =>
       /\ priority[u] <= priority[t]
       /\ priority[u] = priority[t] => wakeup_ticks[u] >= wakeup_ticks[t]

FirstInLineRuns ==
  \A t \in Threads :
     (status[t] = "READY" /\ FirstInLine(t))
       ~> (current = t \/ ~ FirstInLine(t) \/ pc[current] = "panic")
=============================================================================
