----------------------------- MODULE MCDonation -----------------------------
(* Instances of Donation for TLC.  The timer ends a bounded number of      *)
(* slices, at any points of the code, and priorities, arbitrary at first,  *)
(* change a bounded number of times.  The use of the locks and the kernel's *)
(* own switches, at a semaphore or by preempt_priority(), have no bound.   *)
EXTENDS Donation

CONSTANTS t1, t2, t3, l1, l2,
          MaxSlices,      \* the slices the timer may end, TimeSlice being 1
          MaxChanges      \* the calls of thread_set_priority()

VARIABLES slices, changes

mcVars == <<vars, slices, changes>>

(* No thread and no lock is distinguished: Main matters to a thread that   *)
(* dies only, and none dies here.                                          *)
MCSymmetry == Permutations(Threads) \cup Permutations(Locks)

MCInit == Init /\ slices = 0 /\ changes = 0

MCNext ==
  \/ /\ \E t \in Threads : LockCall(t) \/ Continue(t)
     /\ UNCHANGED <<slices, changes>>
  \/ /\ changes < MaxChanges
     /\ \E t \in Threads : PriorityCall(t)
     /\ changes' = changes + 1
     /\ UNCHANGED slices
  \/ /\ slices < MaxSlices
     /\ Tick
     /\ slices' = slices + 1
     /\ UNCHANGED changes

MCSpec == MCInit /\ [][MCNext]_mcVars
=============================================================================
