------------------------------ MODULE Process ------------------------------
(***************************************************************************)
(* Fork, wait and exit of user processes: userprog/process.c and the       *)
(* system calls of userprog/syscall.c that reach it.                       *)
(*                                                                         *)
(* Each process is one kernel thread.  Interrupts are on in all this code, *)
(* so any process that is not blocked may take the next step; which one    *)
(* the scheduler picks is left open.  A semaphore is its value: each of a  *)
(* process's three has one thread that downs it.  Process ids are never    *)
(* used twice (allocate_tid).  process_exec() keeps the process what it    *)
(* is; one that fails ends in a page fault, hence in exit(-1).             *)
(***************************************************************************)
EXTENDS Integers, Sequences

CONSTANTS
  Pids,       \* process ids; Main's is the kernel's main thread
  Main,
  ExitCodes   \* what processes exit with, exit(-1) of the kernel included

TID_ERROR == -1

ASSUME ProcessAssumption ==
  /\ Main \in Pids
  /\ ExitCodes \subseteq Int
  /\ TID_ERROR \in ExitCodes
  /\ 0 \in ExitCodes

VARIABLES
  pc,           \* where the process is
  arg,          \* the child it is forking or waiting for, a local
  parent,
  child_list,   \* a set: it is only searched by pid
  waited,       \* the set of processes whose waited flag is set
  exit_status,
  sema_fork,
  sema_wait,
  sema_exit,
  (* What has happened to each pid, for the properties only.               *)
  forked,       \* what process_fork() returned: the child's pid or a status
  returned      \* the statuses of the child that process_wait() returned

semaVars == <<sema_fork, sema_wait, sema_exit>>
history == <<forked, returned>>
vars == <<pc, arg, parent, child_list, waited, exit_status, semaVars, history>>

(***************************************************************************)
(* "boot": the kernel main thread before it waits for initd.  "none": a    *)
(* pid not given out yet.  "new": a child in __do_fork() or initd().       *)
(* "user": user mode.  "forking": a parent in sema_down(sema_fork);        *)
(* "forked": behind it.  "wait": in sema_down(sema_wait); "reap": behind   *)
(* it.  "exit": in process_exit(), closing its files; "closed": behind     *)
(* that, up to sema_up(sema_wait).  "zombie": in sema_down(sema_exit).     *)
(* "dead": behind it.                                                      *)
(***************************************************************************)
Points == {"boot", "none", "new", "user", "forking", "forked", "wait", "reap",
           "exit", "closed", "zombie", "dead"}

Goto(p, point) == pc' = [pc EXCEPT ![p] = point]
up(sema, p) == [sema EXCEPT ![p] = @ + 1]
down(sema, p) == [sema EXCEPT ![p] = @ - 1]
-----------------------------------------------------------------------------
(* thread_create(): the child joins the creator's child_list and may run.  *)
thread_create(p, c, point) ==
  /\ pc[c] = "none"
  /\ pc' = [pc EXCEPT ![p] = point, ![c] = "new"]
  /\ arg' = [arg EXCEPT ![p] = c]
  /\ parent' = [parent EXCEPT ![c] = p]
  /\ child_list' = [child_list EXCEPT ![p] = @ \cup {c}]
  /\ UNCHANGED <<waited, exit_status, semaVars, history>>

(* process_wait(c) up to sema_down(sema_wait): -1 at once for a pid that   *)
(* is not a child or that has been waited for.                             *)
process_wait(p, c) ==
  /\ \/ /\ c \in child_list[p] \ waited
        /\ waited' = waited \cup {c}
        /\ arg' = [arg EXCEPT ![p] = c]
        /\ Goto(p, "wait")
     \/ /\ c \notin child_list[p] \ waited
        /\ Goto(p, "user")
        /\ UNCHANGED <<waited, arg>>
  /\ UNCHANGED <<parent, child_list, exit_status, semaVars, returned>>

(* Mutant of WaitDown: process_wait() does not wait.                       *)
WaitDownNow(p) ==
  /\ pc[p] = "wait"
  /\ sema_wait' = down(sema_wait, arg[p])
  /\ Goto(p, "reap")
  /\ UNCHANGED <<arg, parent, child_list, waited, exit_status, sema_fork,
                 sema_exit, history>>

WaitDown(p) ==
  /\ pc[p] = "wait"
  /\ sema_wait[arg[p]] > 0
  /\ sema_wait' = down(sema_wait, arg[p])
  /\ Goto(p, "reap")
  /\ UNCHANGED <<arg, parent, child_list, waited, exit_status, sema_fork,
                 sema_exit, history>>

(* The rest of process_wait().  The kernel main thread has no user mode to *)
(* go back to: it is done with its task and exits.                         *)
Reap(p) ==
  LET c == arg[p]
  IN  /\ pc[p] = "reap"
      /\ returned' = [returned EXCEPT ![c] = Append(@, exit_status[c])]
      /\ child_list' = [child_list EXCEPT ![p] = @ \ {c}]
      /\ sema_exit' = up(sema_exit, c)
      /\ Goto(p, IF p = Main THEN "exit" ELSE "user")
      /\ UNCHANGED <<arg, parent, waited, exit_status, sema_fork, sema_wait,
                     forked>>
-----------------------------------------------------------------------------
(* run_task(): process_wait(process_create_initd()).                       *)
process_create_initd(c) ==
  /\ pc[Main] = "boot" /\ child_list[Main] = {}
  /\ thread_create(Main, c, "boot")

InitdWait ==
  /\ pc[Main] = "boot" /\ child_list[Main] # {}
  /\ process_wait(Main, arg[Main])
  /\ UNCHANGED forked

wait(p, c) == pc[p] = "user" /\ process_wait(p, c) /\ UNCHANGED forked

(* process_fork(): the parent waits for its clone ...                      *)
process_fork(p, c) == pc[p] = "user" /\ thread_create(p, c, "forking")

ForkDown(p) ==
  /\ pc[p] = "forking"
  /\ sema_fork[arg[p]] > 0
  /\ sema_fork' = down(sema_fork, arg[p])
  /\ Goto(p, "forked")
  /\ UNCHANGED <<arg, parent, child_list, waited, exit_status, sema_wait,
                 sema_exit, history>>

(* Mutant of ForkReturn: a clone that failed is not waited for.            *)
ForkReturnNoReap(p) ==
  /\ pc[p] = "forked"
  /\ forked' = [forked EXCEPT ![arg[p]] =
                   IF exit_status[arg[p]] < 0 THEN "status" ELSE "pid"]
  /\ Goto(p, "user")
  /\ UNCHANGED <<arg, parent, child_list, waited, exit_status, semaVars,
                 returned>>

(* ... and returns its pid, unless its exit status is negative by now.     *)
ForkReturn(p) ==
  LET c == arg[p]
  IN  /\ pc[p] = "forked"
      /\ \/ /\ exit_status[c] < 0
            /\ process_wait(p, c)
            /\ forked' = [forked EXCEPT ![c] = "status"]
         \/ /\ exit_status[c] >= 0
            /\ forked' = [forked EXCEPT ![c] = "pid"]
            /\ Goto(p, "user")
            /\ UNCHANGED <<arg, parent, child_list, waited, exit_status,
                           semaVars, returned>>

(* __do_fork() in the child: a clone goes to user mode ...                 *)
DoFork(c) ==
  /\ pc[c] = "new" /\ parent[c] # Main
  /\ sema_fork' = up(sema_fork, c)
  /\ Goto(c, "user")
  /\ UNCHANGED <<arg, parent, child_list, waited, exit_status, sema_wait,
                 sema_exit, forked, returned>>

(* Mutant of DoForkFails: no sema_up(sema_fork) on the error path.         *)
DoForkFailsSilent(c) ==
  /\ pc[c] = "new" /\ parent[c] # Main
  /\ exit_status' = [exit_status EXCEPT ![c] = TID_ERROR]
  /\ Goto(c, "exit")
  /\ UNCHANGED <<arg, parent, child_list, waited, semaVars, history>>

(* ... and one that cannot copy its parent exits.                          *)
DoForkFails(c) ==
  /\ pc[c] = "new" /\ parent[c] # Main
  /\ exit_status' = [exit_status EXCEPT ![c] = TID_ERROR]
  /\ sema_fork' = up(sema_fork, c)
  /\ Goto(c, "exit")
  /\ UNCHANGED <<arg, parent, child_list, waited, sema_wait, sema_exit,
                 history>>

(* initd(): the program is loaded.                                         *)
initd(c) ==
  /\ pc[c] = "new" /\ parent[c] = Main
  /\ Goto(c, "user")
  /\ UNCHANGED <<arg, parent, child_list, waited, exit_status, semaVars,
                 history>>

(* exit(s), by the process or by the page fault handler for it.  A system  *)
(* call with an unknown number is an exit(0).                              *)
exit(p, s) ==
  /\ pc[p] = "user"
  /\ exit_status' = [exit_status EXCEPT ![p] = s]
  /\ Goto(p, "exit")
  /\ UNCHANGED <<arg, parent, child_list, waited, semaVars, history>>

(* kill(): an exception other than a page fault, which sets no status.     *)
kill(p) ==
  /\ pc[p] = "user"
  /\ Goto(p, "exit")
  /\ UNCHANGED <<arg, parent, child_list, waited, exit_status, semaVars,
                 forked, returned>>

(* process_exit(): the files are closed, each under the lock of the file   *)
(* system, and the page directory goes.  Whoever holds that lock may keep  *)
(* it: a read of the keyboard does until a key is pressed.                 *)
CloseFiles(p) ==
  /\ pc[p] = "exit"
  /\ Goto(p, "closed")
  /\ UNCHANGED <<arg, parent, child_list, waited, exit_status, semaVars,
                 history>>

(* Mutant of ExitUp: the parent is not told.                               *)
ExitUpSilent(p) ==
  /\ pc[p] = "closed"
  /\ Goto(p, "zombie")
  /\ UNCHANGED <<arg, parent, child_list, waited, exit_status, semaVars,
                 history>>

(* The parent is told; the page is kept until it is done.                  *)
ExitUp(p) ==
  /\ pc[p] = "closed"
  /\ sema_wait' = up(sema_wait, p)
  /\ Goto(p, "zombie")
  /\ UNCHANGED <<arg, parent, child_list, waited, exit_status, sema_fork,
                 sema_exit, history>>

(* Mutant of ExitDown: the process does not wait to be reaped.             *)
ExitDownNow(p) ==
  /\ pc[p] = "zombie"
  /\ Goto(p, "dead")
  /\ UNCHANGED <<arg, parent, child_list, waited, exit_status, semaVars,
                 history>>

ExitDown(p) ==
  /\ pc[p] = "zombie"
  /\ sema_exit[p] > 0
  /\ sema_exit' = down(sema_exit, p)
  /\ Goto(p, "dead")
  /\ UNCHANGED <<arg, parent, child_list, waited, exit_status, sema_fork,
                 sema_wait, history>>
-----------------------------------------------------------------------------
Init ==
  /\ pc = [p \in Pids |-> IF p = Main THEN "boot" ELSE "none"]
  /\ arg = [p \in Pids |-> p]
  /\ parent = [p \in Pids |-> p]
  /\ child_list = [p \in Pids |-> {}]
  /\ waited = {}
  /\ exit_status = [p \in Pids |-> 0]
  /\ sema_fork = [p \in Pids |-> 0]
  /\ sema_wait = [p \in Pids |-> 0]
  /\ sema_exit = [p \in Pids |-> 0]
  /\ forked = [p \in Pids |-> "no"]
  /\ returned = [p \in Pids |-> <<>>]

(* What a program does in user mode.                                       *)
User(p) ==
  \/ \E c \in Pids : process_fork(p, c) \/ wait(p, c)
  \/ \E s \in ExitCodes : exit(p, s)
  \/ kill(p)

(* What the kernel does for a process without being asked again, closing   *)
(* its files apart.                                                        *)
Kernel(p) ==
  \/ WaitDown(p) \/ Reap(p)
  \/ ForkDown(p) \/ ForkReturn(p)
  \/ DoFork(p) \/ DoForkFails(p) \/ initd(p)
  \/ ExitUp(p) \/ ExitDown(p)

Boot == (\E c \in Pids : process_create_initd(c)) \/ InitdWait

Next == Boot \/ \E p \in Pids : User(p) \/ Kernel(p) \/ CloseFiles(p)

Spec == Init /\ [][Next]_vars

(* The scheduler runs every process that has kernel code to execute; what  *)
(* programs do in user mode, and whether they do anything, is open, and so *)
(* is whether a process that closes its files ever gets the lock for it.   *)
FairSpec == Spec /\ \A p \in Pids : WF_vars(Kernel(p))
-----------------------------------------------------------------------------
TypeOK ==
  /\ pc \in [Pids -> Points]
  /\ arg \in [Pids -> Pids]
  /\ parent \in [Pids -> Pids]
  /\ child_list \in [Pids -> SUBSET Pids]
  /\ waited \subseteq Pids
  /\ exit_status \in [Pids -> ExitCodes]
  /\ sema_fork \in [Pids -> Nat]
  /\ sema_wait \in [Pids -> Nat]
  /\ sema_exit \in [Pids -> Nat]
  /\ forked \in [Pids -> {"no", "pid", "status"}]
  /\ returned \in [Pids -> Seq(ExitCodes)]

(* The thread structure process_wait() reads the status from and unlinks   *)
(* is that of a child that has exited and has not been freed.              *)
ReapedChildIsZombie ==
  \A p \in Pids :
     pc[p] = "reap" => pc[arg[p]] = "zombie" /\ arg[p] \in child_list[p]

(* A process's status is returned once at most, and it is the one it       *)
(* exited with; nobody is freed before its status has been returned.       *)
StatusReturnedOnce ==
  \A c \in Pids :
     /\ Len(returned[c]) <= 1
     /\ Len(returned[c]) = 1 =>
          pc[c] \in {"zombie", "dead"} /\ returned[c] = <<exit_status[c]>>
     /\ pc[c] = "dead" => Len(returned[c]) = 1

(* A fork that fails leaves no child behind: the child it created has been *)
(* reaped, or is being.                                                    *)
FailedForkIsReaped ==
  \A c \in Pids : forked[c] = "status" =>
     c \notin child_list[parent[c]] \/ (arg[parent[c]] = c /\ c \in waited)

(* process_fork() returns, whether the child can be cloned or not, unless  *)
(* the child exits and is kept for ever from closing its files.            *)
ForkReturns ==
  \A p, c \in Pids :
     []<>(pc[c] # "exit") =>
        ((pc[p] = "forking" /\ arg[p] = c) ~> pc[p] = "user")
-----------------------------------------------------------------------------
(* The life of a process as its parent sees it.  The main thread is        *)
(* nobody's child and is there all the time.                               *)
life == [c \in Pids |-> CASE c = Main -> "alive"
                          [] c # Main /\ pc[c] = "none" -> "unborn"
                          [] c # Main /\ pc[c] = "exit" -> "exiting"
                          [] c # Main /\ pc[c] \in {"closed", "zombie"} ->
                               "exited"
                          [] c # Main /\ pc[c] = "dead" -> "gone"
                          [] OTHER -> "alive"]

WP == INSTANCE WaitProtocol WITH
        Root <- Main, status <- exit_status, asked <- waited, answer <- returned

(* The three semaphores and the flag in a child's thread structure keep    *)
(* what wait() and exit() promise, in whatever order parents and children  *)
(* reach them.                                                             *)
ImplementsWait == WP!Spec

(* And under the fairness of the scheduler the answers come, for every     *)
(* child that gets through closing its files.                              *)
ImplementsFairWait == WP!FairSpec
=============================================================================
