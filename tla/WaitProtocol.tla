---------------------------- MODULE WaitProtocol ----------------------------
(***************************************************************************)
(* What fork, exit and wait promise a program, whatever handshakes carry   *)
(* it: a process asks for the status of a child once, is answered with     *)
(* what the child exited with, and not before it has let go of what it     *)
(* holds; and the child's thread structure goes away only after that.      *)
(***************************************************************************)
EXTENDS Integers

CONSTANTS
  Pids,
  Root,         \* one of Pids: there from the start, and stays
  ExitCodes

VARIABLES
  life,         \* what has become of each process
  parent,
  status,       \* the exit status
  asked,        \* the processes whose parent has asked for their status
  answer        \* the answers it was given

vars == <<life, parent, status, asked, answer>>

Init ==
  /\ life = [c \in Pids |-> IF c = Root THEN "alive" ELSE "unborn"]
  /\ parent = [c \in Pids |-> c]
  /\ status = [c \in Pids |-> 0]
  /\ asked = {}
  /\ answer = [c \in Pids |-> <<>>]

Fork(p, c) ==
  /\ life[p] = "alive" /\ life[c] = "unborn"
  /\ life' = [life EXCEPT ![c] = "alive"]
  /\ parent' = [parent EXCEPT ![c] = p]
  /\ UNCHANGED <<status, asked, answer>>

Exit(c, s) ==
  /\ life[c] = "alive" /\ c # Root
  /\ life' = [life EXCEPT ![c] = "exiting"]
  /\ status' = [status EXCEPT ![c] = s]
  /\ UNCHANGED <<parent, asked, answer>>

(* It has let go of everything.  Nothing says that it ever does.           *)
Leave(c) ==
  /\ life[c] = "exiting"
  /\ life' = [life EXCEPT ![c] = "exited"]
  /\ UNCHANGED <<parent, status, asked, answer>>

Ask(c) ==
  /\ life[c] # "unborn" /\ c \notin asked
  /\ life[parent[c]] = "alive"
  /\ asked' = asked \cup {c}
  /\ UNCHANGED <<life, parent, status, answer>>

Answer(c) ==
  /\ c \in asked /\ answer[c] = <<>>
  /\ life[c] = "exited" /\ life[parent[c]] = "alive"
  /\ answer' = [answer EXCEPT ![c] = <<status[c]>>]
  /\ UNCHANGED <<life, parent, status, asked>>

Bury(c) ==
  /\ life[c] = "exited" /\ answer[c] # <<>>
  /\ life' = [life EXCEPT ![c] = "gone"]
  /\ UNCHANGED <<parent, status, asked, answer>>

Next ==
  \/ \E p, c \in Pids : Fork(p, c)
  \/ \E c \in Pids : Leave(c) \/ Ask(c) \/ Answer(c) \/ Bury(c)
  \/ \E c \in Pids, s \in ExitCodes : Exit(c, s)

Spec == Init /\ [][Next]_vars

(* An answer that can be given is given, and what can be freed is freed.   *)
FairSpec == Spec /\ \A c \in Pids : WF_vars(Answer(c)) /\ WF_vars(Bury(c))
=============================================================================
