---------------------------- MODULE MCScheduler ----------------------------
(* The instance of Scheduler for TLC.  Any thread is created with any of   *)
(* the priorities, again and again; Main alone changes its own, as often   *)
(* as it likes.                                                            *)
EXTENDS Scheduler

CONSTANTS t1, t2, t3

MCNext ==
  \/ \E t \in AllThreads :
       \/ \E c \in Threads, p \in Priorities : thread_create(t, c, p)
       \/ \E d \in Durations : timer_sleep(t, d)
       \/ Yield(t) \/ thread_exit(t)
       \/ Continue(t)
  \/ \E p \in Priorities : thread_set_priority(Main, p)
  \/ idle
  \/ Interrupt

MCSpec == Init /\ [][MCNext]_vars /\ Fairness
=============================================================================
