------------------------------ MODULE Monitor ------------------------------
(***************************************************************************)
(* What a lock and its condition variables promise, "Mesa" style: to wait  *)
(* is to leave the monitor and join the waiters in one step; a waiter is   *)
(* resumed by a signal and by nothing else, and gets back in when nobody   *)
(* is inside.                                                              *)
(***************************************************************************)
CONSTANTS Threads, Conds, Nobody

VARIABLES
  inside,       \* the thread in the monitor
  waiting,      \* the threads that wait for each condition
  resumed       \* those that have been signalled and are not back inside

vars == <<inside, waiting, resumed>>

Init ==
  /\ inside = Nobody
  /\ waiting = [c \in Conds |-> {}]
  /\ resumed = {}

Enter(t) ==
  /\ inside = Nobody
  /\ t \notin UNION {waiting[c] : c \in Conds}
  /\ inside' = t
  /\ resumed' = resumed \ {t}
  /\ UNCHANGED waiting

Leave(t) ==
  /\ inside = t
  /\ inside' = Nobody
  /\ UNCHANGED <<waiting, resumed>>

Wait(t, c) ==
  /\ inside = t
  /\ inside' = Nobody
  /\ waiting' = [waiting EXCEPT ![c] = @ \cup {t}]
  /\ UNCHANGED resumed

Signal(t, c) ==
  /\ inside = t
  /\ \E w \in waiting[c] :
       /\ waiting' = [waiting EXCEPT ![c] = @ \ {w}]
       /\ resumed' = resumed \cup {w}
  /\ UNCHANGED inside

Next ==
  \E t \in Threads :
     Enter(t) \/ Leave(t) \/ \E c \in Conds : Wait(t, c) \/ Signal(t, c)

Spec == Init /\ [][Next]_vars
=============================================================================
