--------------------------- MODULE Process_proofs ---------------------------
(***************************************************************************)
(* Proofs about Process, for any number of processes and any exit codes:   *)
(* the thread process_wait() reaps is alive as a zombie, a status is       *)
(* returned at most once, a failed fork leaves no child behind, and the    *)
(* processes together do what WaitProtocol promises.                       *)
(***************************************************************************)
EXTENDS Process, TLAPS

(* A child is on the list of the one process that created it.              *)
ChildrenInv ==
  \A p, c \in Pids : c \in child_list[p] => parent[c] = p /\ pc[c] # "none"

(* A status is on its way from sema_up(sema_wait) to the parent, or the    *)
(* permission to die is on its way back; never both, and never twice.      *)
Token(c) ==
  /\ sema_wait[c] \in {0, 1}
  /\ sema_wait[c] = 1 => pc[c] = "zombie" /\ returned[c] = <<>>
  /\ sema_exit[c] > 0 => returned[c] # <<>>
  /\ pc[c] = "dead" => returned[c] # <<>>
  /\ returned[c] # <<>> =>
       /\ returned[c] = <<exit_status[c]>>
       /\ pc[c] \in {"zombie", "dead"}
       /\ \A p \in Pids : c \notin child_list[p]

TokenInv == \A c \in Pids : Token(c)

(* What a process that waits for its child knows of it.                    *)
ReaperInv ==
  \A p \in Pids :
     /\ pc[p] \in {"wait", "reap"} => arg[p] \in child_list[p]
     /\ pc[p] = "reap" => pc[arg[p]] = "zombie" /\ sema_wait[arg[p]] = 0

(* A child being forked has not been waited for, and one whose fork        *)
(* failed is being waited for as long as it is on the list.                *)
ForkInv ==
  \A c \in Pids :
     /\ pc[c] = "none" => c \notin waited /\ forked[c] = "no"
     /\ pc[c] \in {"forking", "forked"} =>
          arg[c] \in child_list[c] /\ arg[c] \notin waited
     /\ forked[c] = "status" /\ c \in child_list[parent[c]] =>
          /\ pc[parent[c]] \in {"wait", "reap"}
          /\ arg[parent[c]] = c
          /\ c \in waited

IInv == TypeOK /\ ChildrenInv /\ TokenInv /\ ReaperInv /\ ForkInv
-----------------------------------------------------------------------------
(* The part of the type invariant that the steps below need most.          *)
LEMMA Shapes ==
  ASSUME TypeOK
  PROVE  /\ pc \in [Pids -> Points]
         /\ arg \in [Pids -> Pids]
         /\ parent \in [Pids -> Pids]
         /\ child_list \in [Pids -> SUBSET Pids]
  BY DEF TypeOK

(* What thread_create(p, c, point) does, thread by thread.                 *)
LEMMA CreateEffect ==
  ASSUME TypeOK,
         NEW p \in Pids, NEW c \in Pids, NEW point \in Points,
         thread_create(p, c, point), pc[p] # "none"
  PROVE  /\ pc[c] = "none" /\ p # c
         /\ pc'[p] = point /\ pc'[c] = "new"
         /\ arg'[p] = c /\ parent'[c] = p
         /\ \A q \in Pids : q # p /\ q # c => pc'[q] = pc[q]
         /\ \A q \in Pids : q # p => arg'[q] = arg[q]
         /\ \A q \in Pids : q # c => parent'[q] = parent[q]
         /\ \A q, d \in Pids :
              d \in child_list'[q] <=> d \in child_list[q] \/ (q = p /\ d = c)
         /\ UNCHANGED <<waited, exit_status, sema_fork, sema_wait, sema_exit,
                        forked, returned>>
  BY Shapes DEF thread_create, semaVars, history

(* What process_wait(c) of p does up to sema_down(sema_wait).              *)
LEMMA WaitEffect ==
  ASSUME NEW p \in Pids, NEW c \in Pids, process_wait(p, c)
  PROVE  /\ \/ /\ c \in child_list[p] \ waited
               /\ waited' = waited \cup {c}
               /\ arg' = [arg EXCEPT ![p] = c]
               /\ pc' = [pc EXCEPT ![p] = "wait"]
            \/ /\ c \notin child_list[p] \ waited
               /\ waited' = waited
               /\ arg' = arg
               /\ pc' = [pc EXCEPT ![p] = "user"]
         /\ UNCHANGED <<parent, child_list, exit_status, sema_fork, sema_wait,
                        sema_exit, returned>>
  BY DEF process_wait, Goto, semaVars

(* The same, thread by thread.                                             *)
LEMMA WaitEffects ==
  ASSUME TypeOK, NEW p \in Pids, NEW c \in Pids, process_wait(p, c)
  PROVE  /\ \/ /\ c \in child_list[p] \ waited
               /\ waited' = waited \cup {c}
               /\ pc'[p] = "wait" /\ arg'[p] = c
            \/ /\ c \notin child_list[p] \ waited
               /\ waited' = waited
               /\ pc'[p] = "user"
         /\ \A q \in Pids : q # p => pc'[q] = pc[q] /\ arg'[q] = arg[q]
         /\ UNCHANGED <<parent, child_list, exit_status, sema_fork, sema_wait,
                        sema_exit, returned>>
  BY Shapes, WaitEffect

(* process_wait() keeps its variables well typed ...                       *)
LEMMA WaitType ==
  ASSUME TypeOK, NEW p \in Pids, NEW c \in Pids, process_wait(p, c)
  PROVE  /\ pc' \in [Pids -> Points]
         /\ arg' \in [Pids -> Pids]
         /\ waited' \subseteq Pids
<1>1. pc' \in [Pids -> Points]
  BY WaitEffect DEF TypeOK, Points
<1>2. arg' \in [Pids -> Pids]
  <2>1. arg' = arg \/ arg' = [arg EXCEPT ![p] = c]
    BY WaitEffect
  <2>2. arg \in [Pids -> Pids]
    BY DEF TypeOK
  <2> QED
    BY <2>1, <2>2
<1>3. waited' \subseteq Pids
  <2>1. waited' = waited \/ waited' = waited \cup {c}
    BY WaitEffect
  <2> QED
    BY <2>1 DEF TypeOK
<1> QED
  BY <1>1, <1>2, <1>3

(* ... and with them the whole state.                                      *)
LEMMA WaitTypeOK ==
  ASSUME TypeOK, NEW p \in Pids, NEW c \in Pids, process_wait(p, c),
         forked' \in [Pids -> {"no", "pid", "status"}]
  PROVE TypeOK'
  BY WaitEffect, WaitType DEF TypeOK

(* Every step keeps the state well typed.                                  *)
LEMMA TypeStep ==
  ASSUME TypeOK, [Next]_vars
  PROVE  TypeOK'
<1> USE DEF TypeOK, semaVars, history
<1>1. CASE UNCHANGED vars
  BY <1>1 DEF vars
<1>2. ASSUME NEW c \in Pids, process_create_initd(c)
      PROVE  TypeOK'
  BY <1>2, ProcessAssumption DEF process_create_initd, thread_create, Points
<1>3. CASE InitdWait
  BY <1>3, WaitTypeOK, ProcessAssumption DEF InitdWait
<1>4. ASSUME NEW p \in Pids, NEW c \in Pids, process_fork(p, c)
      PROVE  TypeOK'
  BY <1>4 DEF process_fork, thread_create, Points
<1>5. ASSUME NEW p \in Pids, NEW c \in Pids, wait(p, c)
      PROVE  TypeOK'
  BY <1>5, WaitTypeOK DEF wait
<1>6. ASSUME NEW p \in Pids, NEW s \in ExitCodes, exit(p, s)
      PROVE  TypeOK'
  BY <1>6 DEF exit, Goto, Points
<1>7. ASSUME NEW p \in Pids, WaitDown(p)
      PROVE  TypeOK'
  <2>1. sema_wait' \in [Pids -> Nat]
    BY <1>7 DEF WaitDown, down
  <2> QED
    BY <1>7, <2>1 DEF WaitDown, Goto, Points
<1>8. ASSUME NEW p \in Pids, Reap(p)
      PROVE  TypeOK'
  <2>1. /\ returned' \in [Pids -> Seq(ExitCodes)]
        /\ child_list' \in [Pids -> SUBSET Pids]
        /\ sema_exit' \in [Pids -> Nat]
    BY <1>8 DEF Reap, up
  <2>2. pc' \in [Pids -> Points]
    BY <1>8 DEF Reap, Goto, Points
  <2> QED
    BY <1>8, <2>1, <2>2 DEF Reap
<1>9. ASSUME NEW p \in Pids, ForkDown(p)
      PROVE  TypeOK'
  <2>1. sema_fork' \in [Pids -> Nat]
    BY <1>9 DEF ForkDown, down
  <2> QED
    BY <1>9, <2>1 DEF ForkDown, Goto, Points
<1>10. ASSUME NEW p \in Pids, ForkReturn(p)
       PROVE  TypeOK'
  <2>1. CASE /\ process_wait(p, arg[p])
             /\ forked' = [forked EXCEPT ![arg[p]] = "status"]
    BY <2>1, WaitTypeOK
  <2>2. CASE /\ forked' = [forked EXCEPT ![arg[p]] = "pid"]
             /\ Goto(p, "user")
             /\ UNCHANGED <<arg, parent, child_list, waited, exit_status,
                            semaVars, returned>>
    <3>1. pc' \in [Pids -> Points]
      BY <2>2 DEF Goto, Points
    <3> QED
      BY <2>2, <3>1
  <2> QED
    BY <1>10, <2>1, <2>2 DEF ForkReturn
<1>11. ASSUME NEW p \in Pids, DoFork(p)
       PROVE  TypeOK'
  BY <1>11 DEF DoFork, Goto, Points, up
<1>12. ASSUME NEW p \in Pids, DoForkFails(p)
       PROVE  TypeOK'
  <2>1. exit_status' \in [Pids -> ExitCodes]
    BY <1>12, ProcessAssumption DEF DoForkFails
  <2>2. sema_fork' \in [Pids -> Nat]
    BY <1>12 DEF DoForkFails, up
  <2> QED
    BY <1>12, <2>1, <2>2 DEF DoForkFails, Goto, Points
<1>13. ASSUME NEW p \in Pids, initd(p)
       PROVE  TypeOK'
  BY <1>13 DEF initd, Goto, Points
<1>14. ASSUME NEW p \in Pids, ExitUp(p)
       PROVE  TypeOK'
  BY <1>14 DEF ExitUp, Goto, Points, up
<1>15. ASSUME NEW p \in Pids, ExitDown(p)
       PROVE  TypeOK'
  <2>1. sema_exit' \in [Pids -> Nat]
    BY <1>15 DEF ExitDown, down
  <2> QED
    BY <1>15, <2>1 DEF ExitDown, Goto, Points
<1>16. ASSUME NEW p \in Pids, kill(p)
       PROVE  TypeOK'
  BY <1>16 DEF kill, Goto, Points
<1>17. ASSUME NEW p \in Pids, CloseFiles(p)
       PROVE  TypeOK'
  BY <1>17 DEF CloseFiles, Goto, Points
<1> QED
  BY <1>1, <1>2, <1>3, <1>4, <1>5, <1>6, <1>7, <1>8, <1>9, <1>10, <1>11,
     <1>12, <1>13, <1>14, <1>15, <1>16, <1>17
  DEF Next, Boot, User, Kernel

(* thread_create() of a fresh pid adds it to one list only.                *)
LEMMA CreateChildren ==
  ASSUME TypeOK, ChildrenInv,
         NEW p \in Pids, NEW c \in Pids, NEW point \in Points,
         thread_create(p, c, point), pc[p] # "none", point # "none"
  PROVE  ChildrenInv'
  BY CreateEffect DEF ChildrenInv

(* process_wait() up to sema_down() changes no list.                       *)
LEMMA WaitChildren ==
  ASSUME TypeOK, ChildrenInv,
         NEW p \in Pids, NEW c \in Pids, process_wait(p, c)
  PROVE  ChildrenInv'
  BY WaitEffects DEF ChildrenInv

(* Every step keeps each child on its creator's list only.                 *)
LEMMA ChildrenStep ==
  ASSUME TypeOK, ChildrenInv, [Next]_vars
  PROVE  ChildrenInv'
<1> USE Shapes DEF ChildrenInv, semaVars, history,
            Goto, up, down
<1>1. CASE UNCHANGED vars
  BY <1>1 DEF vars
<1>2. ASSUME NEW c \in Pids, process_create_initd(c)
      PROVE  ChildrenInv'
  BY <1>2, CreateChildren, ProcessAssumption DEF process_create_initd, Points
<1>3. CASE InitdWait
  BY <1>3, WaitChildren, ProcessAssumption DEF InitdWait
<1>4. ASSUME NEW p \in Pids, NEW c \in Pids, process_fork(p, c)
      PROVE  ChildrenInv'
  BY <1>4, CreateChildren DEF process_fork, Points
<1>5. ASSUME NEW p \in Pids, NEW c \in Pids, wait(p, c)
      PROVE  ChildrenInv'
  BY <1>5, WaitChildren DEF wait
<1>6. ASSUME NEW p \in Pids, NEW s \in ExitCodes, exit(p, s)
      PROVE  ChildrenInv'
  BY <1>6 DEF exit
<1>7. ASSUME NEW p \in Pids, WaitDown(p)
       PROVE  ChildrenInv'
  BY <1>7 DEF WaitDown
<1>8. ASSUME NEW p \in Pids, Reap(p)
       PROVE  ChildrenInv'
  BY <1>8 DEF Reap
<1>9. ASSUME NEW p \in Pids, ForkDown(p)
       PROVE  ChildrenInv'
  BY <1>9 DEF ForkDown
<1>10. ASSUME NEW p \in Pids, ForkReturn(p)
       PROVE  ChildrenInv'
  <2>1. CASE /\ process_wait(p, arg[p])
             /\ forked' = [forked EXCEPT ![arg[p]] = "status"]
    BY <1>10, <2>1, WaitChildren DEF ForkReturn
  <2>2. CASE /\ forked' = [forked EXCEPT ![arg[p]] = "pid"]
             /\ Goto(p, "user")
             /\ UNCHANGED <<arg, parent, child_list, waited, exit_status,
                            semaVars, returned>>
    BY <1>10, <2>2 DEF ForkReturn
  <2> QED
    BY <1>10, <2>1, <2>2 DEF ForkReturn
<1>11. ASSUME NEW p \in Pids, DoFork(p)
       PROVE  ChildrenInv'
  BY <1>11 DEF DoFork
<1>12. ASSUME NEW p \in Pids, DoForkFails(p)
       PROVE  ChildrenInv'
  BY <1>12 DEF DoForkFails
<1>13. ASSUME NEW p \in Pids, initd(p)
       PROVE  ChildrenInv'
  BY <1>13 DEF initd
<1>14. ASSUME NEW p \in Pids, ExitUp(p)
       PROVE  ChildrenInv'
  BY <1>14 DEF ExitUp
<1>15. ASSUME NEW p \in Pids, ExitDown(p)
       PROVE  ChildrenInv'
  BY <1>15 DEF ExitDown
<1>16. ASSUME NEW p \in Pids, kill(p)
       PROVE  ChildrenInv'
  BY <1>16 DEF kill
<1>17. ASSUME NEW p \in Pids, CloseFiles(p)
       PROVE  ChildrenInv'
  BY <1>17 DEF CloseFiles
<1> QED
  BY <1>1, <1>2, <1>3, <1>4, <1>5, <1>6, <1>7, <1>8, <1>9, <1>10, <1>11,
     <1>12, <1>13, <1>14, <1>15, <1>16, <1>17
  DEF Next, Boot, User, Kernel

(* thread_create() touches no semaphore and no status.                     *)
LEMMA CreateToken ==
  ASSUME TypeOK, TokenInv,
         NEW p \in Pids, NEW c \in Pids, NEW point \in Points,
         thread_create(p, c, point),
         pc[p] \in {"boot", "user"}, point \in {"boot", "forking"}
  PROVE  TokenInv'
  BY CreateEffect DEF Token, TokenInv

(* Nor does process_wait() up to sema_down().                              *)
LEMMA WaitToken ==
  ASSUME TypeOK, TokenInv, NEW p \in Pids, NEW c \in Pids, process_wait(p, c),
         pc[p] \in {"boot", "user", "forked"}
  PROVE  TokenInv'
  BY WaitEffects DEF Token, TokenInv

(* Every step keeps one token on its way: sema_up(sema_wait) makes it, the *)
(* reaper turns it into the status it returns and the permission to die.   *)
LEMMA TokenStep ==
  ASSUME TypeOK, ChildrenInv, TokenInv, ReaperInv, [Next]_vars
  PROVE  TokenInv'
<1> USE Shapes DEF ChildrenInv, ReaperInv, Token, TokenInv, semaVars, history,
            Goto, up, down
<1>1. CASE UNCHANGED vars
  BY <1>1 DEF vars
<1>2. ASSUME NEW c \in Pids, process_create_initd(c)
      PROVE  TokenInv'
  BY <1>2, CreateToken, ProcessAssumption DEF process_create_initd, Points
<1>3. CASE InitdWait
  BY <1>3, WaitToken, ProcessAssumption DEF InitdWait
<1>4. ASSUME NEW p \in Pids, NEW c \in Pids, process_fork(p, c)
      PROVE  TokenInv'
  BY <1>4, CreateToken DEF process_fork, Points
<1>5. ASSUME NEW p \in Pids, NEW c \in Pids, wait(p, c)
      PROVE  TokenInv'
  BY <1>5, WaitToken DEF wait
<1>6. ASSUME NEW p \in Pids, NEW s \in ExitCodes, exit(p, s)
      PROVE  TokenInv'
  BY <1>6 DEF exit
<1>7. ASSUME NEW p \in Pids, WaitDown(p)
       PROVE  TokenInv'
  BY <1>7 DEF WaitDown
<1>8. ASSUME NEW p \in Pids, Reap(p)
       PROVE  TokenInv'
  <2> DEFINE c == arg[p]
  <2>1. /\ c \in Pids /\ c \in child_list[p] /\ pc[c] = "zombie"
        /\ sema_wait[c] = 0 /\ returned[c] = <<>> /\ p # c
    BY <1>8 DEF Reap
  <2>2. /\ returned'[c] = <<exit_status[c]>>
        /\ \A d \in Pids : d # c => returned'[d] = returned[d]
    <3>1. Append(<<>>, exit_status[c]) = <<exit_status[c]>>
      BY DEF TypeOK
    <3> QED
      BY <1>8, <2>1, <3>1 DEF Reap, TypeOK
  <2>3. /\ \A q, d \in Pids :
             d \in child_list'[q] <=> d \in child_list[q] /\ ~ (q = p /\ d = c)
        /\ \A d \in Pids : d # c => sema_exit'[d] = sema_exit[d]
        /\ pc'[c] = "zombie"
        /\ \A d \in Pids \ {p} : pc'[d] = pc[d]
        /\ pc[p] = "reap" /\ pc'[p] \in {"exit", "user"}
        /\ UNCHANGED <<sema_wait, exit_status>>
    BY <1>8, <2>1 DEF Reap, TypeOK
  <2>4. \A q \in Pids : c \notin child_list'[q]
    BY <2>1, <2>3
  <2>5. returned'[c] # <<>>
    BY <2>2
  <2> HIDE DEF c
  <2> SUFFICES ASSUME NEW d \in Pids
               PROVE  Token(d)'
    BY DEF TokenInv
  <2>6. CASE d = c
    BY <2>1, <2>2, <2>3, <2>4, <2>5, <2>6
  <2>7. CASE d # c
    <3>1. Token(d)
      BY <2>1
    <3>2. /\ \A q \in Pids : d \in child_list'[q] <=> d \in child_list[q]
          /\ sema_exit'[d] = sema_exit[d] /\ returned'[d] = returned[d]
      BY <2>2, <2>3, <2>7
    <3> QED
      BY <2>1, <2>3, <2>7, <3>1, <3>2
  <2> QED
    BY <2>6, <2>7
<1>9. ASSUME NEW p \in Pids, ForkDown(p)
       PROVE  TokenInv'
  BY <1>9 DEF ForkDown
<1>10. ASSUME NEW p \in Pids, ForkReturn(p)
       PROVE  TokenInv'
  <2>1. CASE /\ process_wait(p, arg[p])
             /\ forked' = [forked EXCEPT ![arg[p]] = "status"]
    BY <1>10, <2>1, WaitToken DEF ForkReturn
  <2>2. CASE /\ forked' = [forked EXCEPT ![arg[p]] = "pid"]
             /\ Goto(p, "user")
             /\ UNCHANGED <<arg, parent, child_list, waited, exit_status,
                            semaVars, returned>>
    BY <1>10, <2>2 DEF ForkReturn
  <2> QED
    BY <1>10, <2>1, <2>2 DEF ForkReturn
<1>11. ASSUME NEW p \in Pids, DoFork(p)
       PROVE  TokenInv'
  BY <1>11 DEF DoFork
<1>12. ASSUME NEW p \in Pids, DoForkFails(p)
       PROVE  TokenInv'
  BY <1>12 DEF DoForkFails
<1>13. ASSUME NEW p \in Pids, initd(p)
       PROVE  TokenInv'
  BY <1>13 DEF initd
<1>14. ASSUME NEW p \in Pids, ExitUp(p)
       PROVE  TokenInv'
  BY <1>14 DEF ExitUp
<1>15. ASSUME NEW p \in Pids, ExitDown(p)
       PROVE  TokenInv'
  BY <1>15 DEF ExitDown
<1>16. ASSUME NEW p \in Pids, kill(p)
       PROVE  TokenInv'
  BY <1>16 DEF kill
<1>17. ASSUME NEW p \in Pids, CloseFiles(p)
       PROVE  TokenInv'
  BY <1>17 DEF CloseFiles
<1> QED
  BY <1>1, <1>2, <1>3, <1>4, <1>5, <1>6, <1>7, <1>8, <1>9, <1>10, <1>11,
     <1>12, <1>13, <1>14, <1>15, <1>16, <1>17
  DEF Next, Boot, User, Kernel

(* Who creates a thread is not waiting, and who waits is not touched.      *)
LEMMA CreateReaper ==
  ASSUME TypeOK, ReaperInv,
         NEW p \in Pids, NEW c \in Pids, NEW point \in Points,
         thread_create(p, c, point),
         pc[p] \in {"boot", "user"}, point \in {"boot", "forking"}
  PROVE  ReaperInv'
  BY CreateEffect, Shapes DEF ReaperInv

(* A process enters sema_down(sema_wait) for a child on its list only.     *)
LEMMA WaitReaper ==
  ASSUME TypeOK, ReaperInv, NEW p \in Pids, NEW c \in Pids, process_wait(p, c),
         pc[p] \in {"boot", "user", "forked"}
  PROVE  ReaperInv'
  BY WaitEffects, Shapes DEF ReaperInv

(* Every step leaves a waiting process its child, a zombie once the        *)
(* semaphore is down.                                                      *)
LEMMA ReaperStep ==
  ASSUME TypeOK, ChildrenInv, TokenInv, ReaperInv, [Next]_vars
  PROVE  ReaperInv'
<1> USE Shapes DEF ChildrenInv, ReaperInv, Token, TokenInv, semaVars, history,
            Goto, up, down
<1>1. CASE UNCHANGED vars
  BY <1>1 DEF vars
<1>2. ASSUME NEW c \in Pids, process_create_initd(c)
      PROVE  ReaperInv'
  BY <1>2, CreateReaper, ProcessAssumption DEF process_create_initd, Points
<1>3. CASE InitdWait
  BY <1>3, WaitReaper, ProcessAssumption DEF InitdWait
<1>4. ASSUME NEW p \in Pids, NEW c \in Pids, process_fork(p, c)
      PROVE  ReaperInv'
  BY <1>4, CreateReaper DEF process_fork, Points
<1>5. ASSUME NEW p \in Pids, NEW c \in Pids, wait(p, c)
      PROVE  ReaperInv'
  BY <1>5, WaitReaper DEF wait
<1>6. ASSUME NEW p \in Pids, NEW s \in ExitCodes, exit(p, s)
      PROVE  ReaperInv'
  BY <1>6 DEF exit
<1>7. ASSUME NEW p \in Pids, WaitDown(p)
       PROVE  ReaperInv'
  <2>1. sema_wait[arg[p]] = 1 /\ sema_wait \in [Pids -> Nat]
    BY <1>7 DEF WaitDown, TypeOK
  <2>2. sema_wait'[arg[p]] = 0
    BY <1>7, <2>1 DEF WaitDown
  <2>3. \A c \in Pids : sema_wait'[c] # 0 => c # arg[p] /\ sema_wait[c] # 0
    BY <1>7, <2>1, <2>2 DEF WaitDown
  <2> QED
    BY <1>7, <2>1, <2>2, <2>3 DEF WaitDown
<1>8. ASSUME NEW p \in Pids, Reap(p)
       PROVE  ReaperInv'
  BY <1>8 DEF Reap
<1>9. ASSUME NEW p \in Pids, ForkDown(p)
       PROVE  ReaperInv'
  BY <1>9 DEF ForkDown
<1>10. ASSUME NEW p \in Pids, ForkReturn(p)
       PROVE  ReaperInv'
  <2>1. CASE /\ process_wait(p, arg[p])
             /\ forked' = [forked EXCEPT ![arg[p]] = "status"]
    BY <1>10, <2>1, WaitReaper DEF ForkReturn
  <2>2. CASE /\ forked' = [forked EXCEPT ![arg[p]] = "pid"]
             /\ Goto(p, "user")
             /\ UNCHANGED <<arg, parent, child_list, waited, exit_status,
                            semaVars, returned>>
    BY <1>10, <2>2 DEF ForkReturn
  <2> QED
    BY <1>10, <2>1, <2>2 DEF ForkReturn
<1>11. ASSUME NEW p \in Pids, DoFork(p)
       PROVE  ReaperInv'
  BY <1>11 DEF DoFork
<1>12. ASSUME NEW p \in Pids, DoForkFails(p)
       PROVE  ReaperInv'
  BY <1>12 DEF DoForkFails
<1>13. ASSUME NEW p \in Pids, initd(p)
       PROVE  ReaperInv'
  BY <1>13 DEF initd
<1>14. ASSUME NEW p \in Pids, ExitUp(p)
       PROVE  ReaperInv'
  BY <1>14 DEF ExitUp
<1>15. ASSUME NEW p \in Pids, ExitDown(p)
       PROVE  ReaperInv'
  BY <1>15 DEF ExitDown
<1>16. ASSUME NEW p \in Pids, kill(p)
       PROVE  ReaperInv'
  BY <1>16 DEF kill
<1>17. ASSUME NEW p \in Pids, CloseFiles(p)
       PROVE  ReaperInv'
  BY <1>17 DEF CloseFiles
<1> QED
  BY <1>1, <1>2, <1>3, <1>4, <1>5, <1>6, <1>7, <1>8, <1>9, <1>10, <1>11,
     <1>12, <1>13, <1>14, <1>15, <1>16, <1>17
  DEF Next, Boot, User, Kernel

(* The child of a fork is on its parent's list and not waited for.         *)
LEMMA CreateFork ==
  ASSUME TypeOK, ChildrenInv, ForkInv,
         NEW p \in Pids, NEW c \in Pids, NEW point \in Points,
         thread_create(p, c, point),
         pc[p] \in {"boot", "user"}, point \in {"boot", "forking"}
  PROVE  ForkInv'
  BY CreateEffect, Shapes DEF ForkInv, ChildrenInv

(* A process in user mode that waits disturbs no fork: it waits for a      *)
(* child of its own, and its own fork is over.                             *)
LEMMA WaitFork ==
  ASSUME TypeOK, ChildrenInv, ForkInv,
         NEW p \in Pids, NEW c \in Pids, process_wait(p, c),
         pc[p] \in {"boot", "user"}, forked' = forked
  PROVE  ForkInv'
  BY WaitEffects, Shapes DEF ForkInv, ChildrenInv

(* Every step reaps the child of a failed fork or leaves it to the one     *)
(* process_wait() that is after it.                                        *)
LEMMA ForkStep ==
  ASSUME TypeOK, ChildrenInv, ReaperInv, ForkInv, [Next]_vars
  PROVE  ForkInv'
<1> USE Shapes DEF ChildrenInv, ForkInv, ReaperInv, semaVars, history,
            Goto, up, down
<1>1. CASE UNCHANGED vars
  BY <1>1 DEF vars
<1>2. ASSUME NEW c \in Pids, process_create_initd(c)
      PROVE  ForkInv'
  BY <1>2, CreateFork, ProcessAssumption DEF process_create_initd, Points
<1>3. CASE InitdWait
  BY <1>3, WaitFork, ProcessAssumption DEF InitdWait
<1>4. ASSUME NEW p \in Pids, NEW c \in Pids, process_fork(p, c)
      PROVE  ForkInv'
  BY <1>4, CreateFork DEF process_fork, Points
<1>5. ASSUME NEW p \in Pids, NEW c \in Pids, wait(p, c)
      PROVE  ForkInv'
  BY <1>5, WaitFork DEF wait
<1>6. ASSUME NEW p \in Pids, NEW s \in ExitCodes, exit(p, s)
      PROVE  ForkInv'
  BY <1>6 DEF exit
<1>7. ASSUME NEW p \in Pids, WaitDown(p)
       PROVE  ForkInv'
  BY <1>7 DEF WaitDown
<1>8. ASSUME NEW p \in Pids, Reap(p)
       PROVE  ForkInv'
  BY <1>8 DEF Reap
<1>9. ASSUME NEW p \in Pids, ForkDown(p)
       PROVE  ForkInv'
  BY <1>9 DEF ForkDown
<1>10. ASSUME NEW p \in Pids, ForkReturn(p)
       PROVE  ForkInv'
  <2>1. CASE /\ process_wait(p, arg[p])
             /\ forked' = [forked EXCEPT ![arg[p]] = "status"]
    <3>1. pc[p] = "forked"
      BY <1>10 DEF ForkReturn
    <3>2. /\ arg[p] \in child_list[p] \ waited
          /\ waited' = waited \cup {arg[p]}
          /\ pc'[p] = "wait" /\ arg'[p] = arg[p]
          /\ parent[arg[p]] = p /\ pc[arg[p]] # "none"
      BY <2>1, <3>1, WaitEffects
    <3>3. /\ \A q \in Pids : q # p => pc'[q] = pc[q] /\ arg'[q] = arg[q]
          /\ UNCHANGED <<parent, child_list>>
      BY <2>1, WaitEffects
    <3>4. /\ forked'[arg[p]] = "status"
          /\ \A c \in Pids : c # arg[p] => forked'[c] = forked[c]
      BY <2>1 DEF TypeOK
    <3> QED
      BY <3>1, <3>2, <3>3, <3>4
  <2>2. CASE /\ forked' = [forked EXCEPT ![arg[p]] = "pid"]
             /\ Goto(p, "user")
             /\ UNCHANGED <<arg, parent, child_list, waited, exit_status,
                            semaVars, returned>>
    BY <1>10, <2>2 DEF ForkReturn
  <2> QED
    BY <1>10, <2>1, <2>2 DEF ForkReturn
<1>11. ASSUME NEW p \in Pids, DoFork(p)
       PROVE  ForkInv'
  BY <1>11 DEF DoFork
<1>12. ASSUME NEW p \in Pids, DoForkFails(p)
       PROVE  ForkInv'
  BY <1>12 DEF DoForkFails
<1>13. ASSUME NEW p \in Pids, initd(p)
       PROVE  ForkInv'
  BY <1>13 DEF initd
<1>14. ASSUME NEW p \in Pids, ExitUp(p)
       PROVE  ForkInv'
  BY <1>14 DEF ExitUp
<1>15. ASSUME NEW p \in Pids, ExitDown(p)
       PROVE  ForkInv'
  BY <1>15 DEF ExitDown
<1>16. ASSUME NEW p \in Pids, kill(p)
       PROVE  ForkInv'
  BY <1>16 DEF kill
<1>17. ASSUME NEW p \in Pids, CloseFiles(p)
       PROVE  ForkInv'
  BY <1>17 DEF CloseFiles
<1> QED
  BY <1>1, <1>2, <1>3, <1>4, <1>5, <1>6, <1>7, <1>8, <1>9, <1>10, <1>11,
     <1>12, <1>13, <1>14, <1>15, <1>16, <1>17
  DEF Next, Boot, User, Kernel

-----------------------------------------------------------------------------
(* The initial state satisfies the invariant, and every step keeps it.     *)
LEMMA InitIInv == Init => IInv
  BY ProcessAssumption DEF Init, IInv, TypeOK, Points, ChildrenInv, TokenInv,
     Token, ReaperInv, ForkInv

LEMMA NextIInv == IInv /\ [Next]_vars => IInv'
  BY TypeStep, ChildrenStep, TokenStep, ReaperStep, ForkStep DEF IInv

(* IInv is an invariant of fork, wait and exit, for any processes.         *)
THEOREM Invariance == Spec => []IInv
  BY InitIInv, NextIInv, PTL DEF Spec

(* The state of fork, wait and exit is well typed in every reachable state.*)
THEOREM TypeCorrect == Spec => []TypeOK
<1>1. IInv => TypeOK
  BY DEF IInv
<1> QED
  BY <1>1, Invariance, PTL

(* process_wait() reads the status of, and unlinks, a thread structure     *)
(* that cannot have been freed: that of a zombie on the caller's list.     *)
THEOREM ReaperSafe == Spec => []ReapedChildIsZombie
<1>1. IInv => ReapedChildIsZombie
  BY DEF IInv, ReaperInv, ReapedChildIsZombie
<1> QED
  BY <1>1, Invariance, PTL

(* process_wait() returns a child's status once at most, the one the child *)
(* exited with, and no child is freed before its status is returned.       *)
THEOREM StatusOnce == Spec => []StatusReturnedOnce
<1>1. ASSUME IInv
      PROVE  StatusReturnedOnce
  <2> SUFFICES ASSUME NEW c \in Pids
               PROVE  /\ Len(returned[c]) <= 1
                      /\ Len(returned[c]) = 1 =>
                           /\ pc[c] \in {"zombie", "dead"}
                           /\ returned[c] = <<exit_status[c]>>
                      /\ pc[c] = "dead" => Len(returned[c]) = 1
    BY DEF StatusReturnedOnce
  <2>1. Token(c)
    BY <1>1 DEF IInv, TokenInv
  <2>2. CASE returned[c] = <<>>
    <3>1. Len(returned[c]) = 0 /\ pc[c] # "dead"
      BY <2>1, <2>2 DEF Token
    <3> QED
      BY <3>1
  <2>3. CASE returned[c] # <<>>
    <3>1. Len(<<exit_status[c]>>) = 1
      OBVIOUS
    <3>2. returned[c] = <<exit_status[c]>> /\ pc[c] \in {"zombie", "dead"}
      BY <2>1, <2>3 DEF Token
    <3>3. Len(returned[c]) = 1
      BY <3>1, <3>2
    <3> QED
      BY <3>2, <3>3
  <2> QED
    BY <2>2, <2>3
<1> QED
  BY <1>1, Invariance, PTL

(* A process_fork() that reports failure has reaped the child it created,  *)
(* or is about to.                                                         *)
THEOREM ForkFailureReaped == Spec => []FailedForkIsReaped
<1>1. IInv => FailedForkIsReaped
  BY Shapes DEF IInv, ForkInv, FailedForkIsReaped
<1> QED
  BY <1>1, Invariance, PTL
-----------------------------------------------------------------------------
(* Process implements WaitProtocol: under the refinement mapping of       *)
(* Process, every step of a process is a step of the protocol or changes   *)
(* nothing a program can see.                                              *)

(* The main thread is never in user mode, and is nobody's child; until it  *)
(* waits for initd nobody else has.                                        *)
MainInv ==
  /\ pc[Main] \in {"boot", "wait", "reap", "exit", "closed", "zombie",
                "dead"}
  /\ \A p \in Pids : Main \notin child_list[p]
  /\ pc[Main] = "boot" /\ child_list[Main] # {} =>
       arg[Main] \in child_list[Main] \ waited

(* Whoever waits for a child has marked it as waited for.                  *)
AskedInv == \A p \in Pids : pc[p] \in {"wait", "reap"} => arg[p] \in waited

RInv == IInv /\ MainInv /\ AskedInv
-----------------------------------------------------------------------------
(* A wait of another process does not touch what the main thread has.      *)
LEMMA WaitMain ==
  ASSUME TypeOK, ChildrenInv, MainInv,
         NEW p \in Pids, NEW c \in Pids, process_wait(p, c), p # Main
  PROVE  MainInv'
<1>1. Main \in Pids
  BY ProcessAssumption
<1>2. \A d \in Pids : d \in child_list[Main] => d \notin child_list[p]
  BY <1>1 DEF ChildrenInv
<1>3. child_list[Main] \subseteq Pids
  BY <1>1, Shapes
<1> QED
  BY <1>1, <1>2, <1>3, WaitEffects DEF MainInv

(* Every step keeps what is said of the main thread ...                    *)
LEMMA MainStep ==
  ASSUME IInv, MainInv, [Next]_vars
  PROVE  MainInv'
<1> USE ProcessAssumption, Shapes DEF IInv, MainInv
<1>1. CASE UNCHANGED vars
  BY <1>1 DEF vars, history, semaVars
<1>2. ASSUME NEW c \in Pids, process_create_initd(c)
      PROVE  MainInv'
  <2>1. thread_create(Main, c, "boot") /\ pc[Main] = "boot"
    BY <1>2 DEF process_create_initd
  <2>2. pc[c] = "none" /\ c \notin waited
    BY <2>1 DEF thread_create, ForkInv
  <2> QED
    BY <2>1, <2>2, CreateEffect DEF Points
<1>3. CASE InitdWait
  <2>1. /\ process_wait(Main, arg[Main]) /\ pc[Main] = "boot"
        /\ arg[Main] \in child_list[Main] \ waited
    BY <1>3 DEF InitdWait
  <2> QED
    BY <2>1, WaitEffects
<1>4. ASSUME NEW p \in Pids, NEW c \in Pids, process_fork(p, c)
      PROVE  MainInv'
  <2>1. thread_create(p, c, "forking") /\ pc[p] = "user"
    BY <1>4 DEF process_fork
  <2>2. Main \in Pids /\ p # Main /\ c # Main
    BY <2>1 DEF thread_create
  <2>3. /\ pc'[Main] = pc[Main] /\ arg'[Main] = arg[Main]
        /\ waited' = waited
        /\ \A q \in Pids : Main \in child_list'[q] <=> Main \in child_list[q]
    BY <2>1, <2>2, CreateEffect DEF Points
  <2>4. child_list'[Main] = child_list[Main]
    BY <2>1, <2>2 DEF thread_create
  <2> QED
    BY <2>2, <2>3, <2>4
<1>5. ASSUME NEW p \in Pids, NEW c \in Pids, wait(p, c)
      PROVE  MainInv'
  <2>1. process_wait(p, c) /\ p # Main
    BY <1>5 DEF wait
  <2> QED
    BY <2>1, WaitMain
<1>6. ASSUME NEW p \in Pids, NEW s \in ExitCodes, exit(p, s)
      PROVE  MainInv'
  BY <1>6 DEF exit, Goto
<1>7. ASSUME NEW p \in Pids, WaitDown(p)
      PROVE  MainInv'
  BY <1>7 DEF WaitDown, Goto
<1>8. ASSUME NEW p \in Pids, Reap(p)
      PROVE  MainInv'
  BY <1>8 DEF Reap, Goto
<1>9. ASSUME NEW p \in Pids, ForkDown(p)
      PROVE  MainInv'
  BY <1>9 DEF ForkDown, Goto
<1>10. ASSUME NEW p \in Pids, ForkReturn(p)
       PROVE  MainInv'
  <2>1. CASE process_wait(p, arg[p])
    <3>1. arg[p] \in Pids /\ p # Main
      BY <1>10 DEF ForkReturn
    <3> QED
      BY <2>1, <3>1, WaitMain
  <2>2. CASE Goto(p, "user") /\ UNCHANGED <<arg, child_list, waited>>
    BY <1>10, <2>2 DEF ForkReturn, Goto
  <2> QED
    BY <1>10, <2>1, <2>2 DEF ForkReturn
<1>11. ASSUME NEW p \in Pids, DoFork(p)
       PROVE  MainInv'
  BY <1>11 DEF DoFork, Goto
<1>12. ASSUME NEW p \in Pids, DoForkFails(p)
       PROVE  MainInv'
  BY <1>12 DEF DoForkFails, Goto
<1>13. ASSUME NEW p \in Pids, initd(p)
       PROVE  MainInv'
  BY <1>13 DEF initd, Goto
<1>14. ASSUME NEW p \in Pids, ExitUp(p)
       PROVE  MainInv'
  BY <1>14 DEF ExitUp, Goto
<1>15. ASSUME NEW p \in Pids, ExitDown(p)
       PROVE  MainInv'
  BY <1>15 DEF ExitDown, Goto
<1>16. ASSUME NEW p \in Pids, kill(p)
       PROVE  MainInv'
  BY <1>16 DEF kill, Goto
<1>17. ASSUME NEW p \in Pids, CloseFiles(p)
       PROVE  MainInv'
  BY <1>17 DEF CloseFiles, Goto
<1> QED
  BY <1>1, <1>2, <1>3, <1>4, <1>5, <1>6, <1>7, <1>8, <1>9, <1>10, <1>11,
     <1>12, <1>13, <1>14, <1>15, <1>16, <1>17
  DEF Next, Boot, User, Kernel

(* ... and that nobody waits without having said so.                       *)
LEMMA AskedStep ==
  ASSUME IInv, AskedInv, [Next]_vars
  PROVE  AskedInv'
<1> USE ProcessAssumption, Shapes DEF IInv, AskedInv
<1>1. CASE UNCHANGED vars
  BY <1>1 DEF vars, history, semaVars
<1>2. ASSUME NEW c \in Pids, process_create_initd(c)
      PROVE  AskedInv'
  <2>1. thread_create(Main, c, "boot") /\ pc[Main] = "boot"
    BY <1>2 DEF process_create_initd
  <2> QED
    BY <2>1, CreateEffect DEF Points
<1>3. CASE InitdWait
  BY <1>3, WaitEffects DEF InitdWait
<1>4. ASSUME NEW p \in Pids, NEW c \in Pids, process_fork(p, c)
      PROVE  AskedInv'
  <2>1. thread_create(p, c, "forking") /\ pc[p] = "user"
    BY <1>4 DEF process_fork
  <2> QED
    BY <2>1, CreateEffect DEF Points
<1>5. ASSUME NEW p \in Pids, NEW c \in Pids, wait(p, c)
      PROVE  AskedInv'
  BY <1>5, WaitEffects DEF wait
<1>6. ASSUME NEW p \in Pids, NEW s \in ExitCodes, exit(p, s)
      PROVE  AskedInv'
  BY <1>6 DEF exit, Goto
<1>7. ASSUME NEW p \in Pids, WaitDown(p)
      PROVE  AskedInv'
  BY <1>7 DEF WaitDown, Goto
<1>8. ASSUME NEW p \in Pids, Reap(p)
      PROVE  AskedInv'
  BY <1>8 DEF Reap, Goto
<1>9. ASSUME NEW p \in Pids, ForkDown(p)
      PROVE  AskedInv'
  BY <1>9 DEF ForkDown, Goto
<1>10. ASSUME NEW p \in Pids, ForkReturn(p)
       PROVE  AskedInv'
  <2>1. CASE process_wait(p, arg[p])
    BY <2>1, WaitEffects
  <2>2. CASE Goto(p, "user") /\ UNCHANGED <<arg, waited>>
    BY <1>10, <2>2 DEF ForkReturn, Goto
  <2> QED
    BY <1>10, <2>1, <2>2 DEF ForkReturn
<1>11. ASSUME NEW p \in Pids, DoFork(p)
       PROVE  AskedInv'
  BY <1>11 DEF DoFork, Goto
<1>12. ASSUME NEW p \in Pids, DoForkFails(p)
       PROVE  AskedInv'
  BY <1>12 DEF DoForkFails, Goto
<1>13. ASSUME NEW p \in Pids, initd(p)
       PROVE  AskedInv'
  BY <1>13 DEF initd, Goto
<1>14. ASSUME NEW p \in Pids, ExitUp(p)
       PROVE  AskedInv'
  BY <1>14 DEF ExitUp, Goto
<1>15. ASSUME NEW p \in Pids, ExitDown(p)
       PROVE  AskedInv'
  BY <1>15 DEF ExitDown, Goto
<1>16. ASSUME NEW p \in Pids, kill(p)
       PROVE  AskedInv'
  BY <1>16 DEF kill, Goto
<1>17. ASSUME NEW p \in Pids, CloseFiles(p)
       PROVE  AskedInv'
  BY <1>17 DEF CloseFiles, Goto
<1> QED
  BY <1>1, <1>2, <1>3, <1>4, <1>5, <1>6, <1>7, <1>8, <1>9, <1>10, <1>11,
     <1>12, <1>13, <1>14, <1>15, <1>16, <1>17
  DEF Next, Boot, User, Kernel

(* All this holds at first, and after every step.                          *)
LEMMA InitRInv == Init => RInv
  BY InitIInv, ProcessAssumption DEF Init, RInv, MainInv, AskedInv

LEMMA NextRInv == RInv /\ [Next]_vars => RInv'
  BY NextIInv, MainStep, AskedStep DEF RInv
-----------------------------------------------------------------------------
(* The life of one process, as the mapping says.                           *)
LEMMA LifeOf ==
  ASSUME NEW c \in Pids
  PROVE  /\ c = Main => life[c] = "alive"
         /\ c # Main /\ pc[c] = "none" => life[c] = "unborn"
         /\ c # Main /\ pc[c] = "exit" => life[c] = "exiting"
         /\ c # Main /\ pc[c] \in {"closed", "zombie"} => life[c] = "exited"
         /\ c # Main /\ pc[c] = "dead" => life[c] = "gone"
         /\ pc[c] \notin {"none", "exit", "closed", "zombie", "dead"} =>
              life[c] = "alive"
  BY DEF life

(* The same after a step.                                                  *)
LEMMA NextLifeOf ==
  ASSUME NEW c \in Pids
  PROVE  /\ c = Main => life'[c] = "alive"
         /\ c # Main /\ pc'[c] = "none" => life'[c] = "unborn"
         /\ c # Main /\ pc'[c] = "exit" => life'[c] = "exiting"
         /\ c # Main /\ pc'[c] \in {"closed", "zombie"} =>
              life'[c] = "exited"
         /\ c # Main /\ pc'[c] = "dead" => life'[c] = "gone"
         /\ pc'[c] \notin {"none", "exit", "closed", "zombie", "dead"} =>
              life'[c] = "alive"
  BY DEF life

(* A step that changes nobody's life ...                                   *)
LEMMA SameLife ==
  ASSUME \A c \in Pids : life'[c] = life[c]
  PROVE  life' = life
  BY DEF life

(* ... and one that changes one's.                                         *)
LEMMA OneLife ==
  ASSUME NEW d \in Pids, \A c \in Pids : c # d => life'[c] = life[c],
         NEW l, life'[d] = l
  PROVE  life' = [life EXCEPT ![d] = l]
  BY DEF life

(* Nobody's life changes with a process that goes on living.               *)
LEMMA LivesOn ==
  ASSUME TypeOK, NEW p \in Pids, NEW point \in Points,
         Goto(p, point) \/ (pc' = [pc EXCEPT ![p] = point]),
         pc[p] \notin {"none", "exit", "closed", "zombie", "dead"},
         p = Main \/ point \notin {"none", "exit", "closed", "zombie", "dead"}
  PROVE  life' = life
<1>1. \A q \in Pids : q # p => pc'[q] = pc[q]
  BY Shapes DEF Goto
<1>2. pc'[p] = point
  BY Shapes DEF Goto
<1>3. \A c \in Pids : life'[c] = life[c]
  BY <1>1, <1>2 DEF life
<1> QED
  BY <1>3, SameLife

(* thread_create() is the protocol's Fork.                                 *)
LEMMA CreateForks ==
  ASSUME RInv, NEW p \in Pids, NEW c \in Pids,
         NEW point \in {"boot", "forking"},
         thread_create(p, c, point), pc[p] \in {"boot", "user"}
  PROVE  WP!Next
<1> USE DEF RInv, IInv
<1>1. /\ pc[c] = "none" /\ p # c
      /\ pc'[p] = point /\ pc'[c] = "new"
      /\ \A q \in Pids : q # p /\ q # c => pc'[q] = pc[q]
      /\ UNCHANGED <<waited, exit_status, returned>>
  BY CreateEffect DEF Points
<1>2. c # Main
  BY <1>1 DEF MainInv
<1>3. life[p] = "alive" /\ life[c] = "unborn"
  BY <1>1, <1>2, LifeOf
<1>4. life'[c] = "alive"
  BY <1>1, NextLifeOf
<1>5. \A q \in Pids : q # c => life'[q] = life[q]
  BY <1>1 DEF life
<1>6. life' = [life EXCEPT ![c] = "alive"]
  BY <1>4, <1>5, OneLife
<1>7. parent' = [parent EXCEPT ![c] = p]
  BY DEF thread_create
<1>8. WP!Fork(p, c)
  BY <1>1, <1>3, <1>6, <1>7 DEF WP!Fork
<1> QED
  BY <1>8 DEF WP!Next

(* process_wait() up to sema_down() is Ask, unless it returns at once.     *)
LEMMA WaitAsks ==
  ASSUME RInv, NEW p \in Pids, NEW c \in Pids, process_wait(p, c),
         pc[p] \in {"boot", "user", "forked"}
  PROVE  WP!Next \/ UNCHANGED WP!vars
<1> USE DEF RInv, IInv
<1>1. UNCHANGED <<parent, exit_status, returned>>
  BY WaitEffect
<1>2. life' = life
  <2>1. \A q \in Pids : q # p => pc'[q] = pc[q]
    BY WaitEffects
  <2>2. pc'[p] \in {"wait", "user"}
    BY WaitEffects
  <2>3. \A q \in Pids : life'[q] = life[q]
    BY <2>1, <2>2 DEF life
  <2> QED
    BY <2>3, SameLife
<1>3. CASE c \in child_list[p] \ waited
  <2>1. waited' = waited \cup {c}
    BY <1>3, WaitEffect
  <2>2. parent[c] = p /\ pc[c] # "none"
    BY <1>3 DEF ChildrenInv
  <2>3. life[parent[c]] = "alive"
    BY <2>2, LifeOf
  <2>4. life[c] # "unborn"
    BY <2>2 DEF life
  <2>5. WP!Ask(c)
    BY <1>1, <1>2, <1>3, <2>1, <2>3, <2>4 DEF WP!Ask
  <2> QED
    BY <2>5 DEF WP!Next
<1>4. CASE c \notin child_list[p] \ waited
  BY <1>1, <1>2, <1>4, WaitEffect DEF WP!vars
<1> QED
  BY <1>3, <1>4

(* A process that stops running, with a status or without one, exits.      *)
LEMMA Exits ==
  ASSUME RInv, NEW p \in Pids, p # Main, NEW s \in ExitCodes,
         Goto(p, "exit"), pc[p] \in {"user", "new"},
         exit_status' = [exit_status EXCEPT ![p] = s],
         UNCHANGED <<parent, waited, returned>>
  PROVE  WP!Next
<1> USE DEF RInv, IInv
<1>1. pc'[p] = "exit" /\ \A q \in Pids : q # p => pc'[q] = pc[q]
  BY Shapes DEF Goto
<1>2. life[p] = "alive" /\ life'[p] = "exiting"
  BY <1>1, LifeOf, NextLifeOf
<1>3. \A q \in Pids : q # p => life'[q] = life[q]
  BY <1>1 DEF life
<1>4. life' = [life EXCEPT ![p] = "exiting"]
  BY <1>2, <1>3, OneLife
<1>5. WP!Exit(p, s)
  BY <1>2, <1>4 DEF WP!Exit
<1> QED
  BY <1>5 DEF WP!Next

(* A process that has closed its files has left; the main thread, whose    *)
(* life the protocol does not follow, changes nothing.                     *)
LEMMA ClosesFiles ==
  ASSUME RInv, NEW p \in Pids, CloseFiles(p)
  PROVE  WP!Next \/ UNCHANGED WP!vars
<1> USE DEF RInv, IInv
<1>1. pc[p] = "exit" /\ pc'[p] = "closed"
      /\ \A q \in Pids : q # p => pc'[q] = pc[q]
  BY Shapes DEF CloseFiles, Goto
<1>2. UNCHANGED <<parent, exit_status, waited, returned>>
  BY DEF CloseFiles, history
<1>3. \A q \in Pids : q # p => life'[q] = life[q]
  BY <1>1 DEF life
<1>4. CASE p = Main
  <2>1. life'[p] = life[p]
    BY <1>4, LifeOf, NextLifeOf
  <2>2. life' = life
    BY <1>3, <2>1, SameLife
  <2> QED
    BY <1>2, <2>2 DEF WP!vars
<1>5. CASE p # Main
  <2>1. life[p] = "exiting" /\ life'[p] = "exited"
    BY <1>1, <1>5, LifeOf, NextLifeOf
  <2>2. life' = [life EXCEPT ![p] = "exited"]
    BY <1>3, <2>1, OneLife
  <2>3. WP!Leave(p)
    BY <1>2, <2>1, <2>2 DEF WP!Leave
  <2> QED
    BY <2>3 DEF WP!Next
<1> QED
  BY <1>4, <1>5

(* The end of process_wait() is Answer.                                    *)
LEMMA ReapAnswers ==
  ASSUME RInv, NEW p \in Pids, Reap(p)
  PROVE  WP!Next
<1> USE DEF RInv, IInv
<1> DEFINE c == arg[p]
<1>1. /\ pc[p] = "reap" /\ c \in Pids /\ c \in child_list[p]
      /\ c \in waited /\ pc[c] = "zombie" /\ parent[c] = p
  BY Shapes DEF Reap, ReaperInv, AskedInv, ChildrenInv
<1>2. c # Main
  BY <1>1 DEF MainInv
<1>3. returned[c] = <<>>
  BY <1>1 DEF TokenInv, Token
<1>4. life[c] = "exited" /\ life[parent[c]] = "alive"
  BY <1>1, <1>2, LifeOf
<1>5. life' = life
  <2>1. CASE p = Main
    BY <1>1, <2>1, LivesOn DEF Reap, Points
  <2>2. CASE p # Main
    BY <1>1, <2>2, LivesOn DEF Reap, Points
  <2> QED
    BY <2>1, <2>2
<1>6. returned' = [returned EXCEPT ![c] = <<exit_status[c]>>]
  <2>1. returned' = [returned EXCEPT ![c] = Append(returned[c], exit_status[c])]
    BY DEF Reap
  <2>2. Append(<<>>, exit_status[c]) = <<exit_status[c]>>
    OBVIOUS
  <2> QED
    BY <1>3, <2>1, <2>2
<1>7. UNCHANGED <<parent, exit_status, waited>>
  BY DEF Reap
<1>8. WP!Answer(c)
  BY <1>1, <1>3, <1>4, <1>5, <1>6, <1>7 DEF WP!Answer
<1> QED
  BY <1>1, <1>8 DEF WP!Next

(* The end of process_exit() is Bury.                                      *)
LEMMA ExitDownBuries ==
  ASSUME RInv, NEW p \in Pids, ExitDown(p)
  PROVE  WP!Next \/ UNCHANGED WP!vars
<1> USE DEF RInv, IInv
<1>1. pc[p] = "zombie" /\ returned[p] # <<>>
  BY DEF ExitDown, TokenInv, Token, TypeOK
<1>2. pc'[p] = "dead" /\ \A q \in Pids : q # p => pc'[q] = pc[q]
  BY Shapes DEF ExitDown, Goto
<1>3. UNCHANGED <<parent, exit_status, waited, returned>>
  BY DEF ExitDown, history
<1>4. \A q \in Pids : q # p => life'[q] = life[q]
  BY <1>2 DEF life
<1>5. CASE p = Main
  <2>1. life'[p] = life[p]
    BY <1>5, LifeOf, NextLifeOf
  <2>2. life' = life
    BY <1>4, <2>1, SameLife
  <2> QED
    BY <1>3, <2>2 DEF WP!vars
<1>6. CASE p # Main
  <2>1. life[p] = "exited" /\ life'[p] = "gone"
    BY <1>1, <1>2, <1>6, LifeOf, NextLifeOf
  <2>2. life' = [life EXCEPT ![p] = "gone"]
    BY <1>4, <2>1, OneLife
  <2>3. WP!Bury(p)
    BY <1>1, <1>3, <2>1, <2>2 DEF WP!Bury
  <2> QED
    BY <2>3 DEF WP!Next
<1> QED
  BY <1>5, <1>6

(* Every step is one of the protocol, or changes nothing it speaks of.     *)
LEMMA RefineStep ==
  ASSUME RInv, [Next]_vars
  PROVE  WP!Next \/ UNCHANGED WP!vars
<1> USE ProcessAssumption, Shapes DEF RInv, IInv
<1> DEFINE Refines == WP!Next \/ UNCHANGED WP!vars
<1>1. CASE UNCHANGED vars
  BY <1>1 DEF vars, history, semaVars, life, WP!vars
<1>2. ASSUME NEW c \in Pids, process_create_initd(c)
      PROVE  Refines
  BY <1>2, CreateForks DEF process_create_initd
<1>3. CASE InitdWait
  BY <1>3, WaitAsks DEF InitdWait
<1>4. ASSUME NEW p \in Pids, NEW c \in Pids, process_fork(p, c)
      PROVE  Refines
  BY <1>4, CreateForks DEF process_fork
<1>5. ASSUME NEW p \in Pids, NEW c \in Pids, wait(p, c)
      PROVE  Refines
  BY <1>5, WaitAsks DEF wait
<1>6. ASSUME NEW p \in Pids, NEW s \in ExitCodes, exit(p, s)
      PROVE  Refines
  <2>1. p # Main
    BY <1>6 DEF exit, MainInv
  <2> QED
    BY <1>6, <2>1, Exits DEF exit, history
<1>7. ASSUME NEW p \in Pids, WaitDown(p)
      PROVE  Refines
  <2>1. life' = life
    BY <1>7, LivesOn DEF WaitDown, Points
  <2> QED
    BY <1>7, <2>1 DEF WaitDown, history, WP!vars
<1>8. ASSUME NEW p \in Pids, Reap(p)
      PROVE  Refines
  BY <1>8, ReapAnswers
<1>9. ASSUME NEW p \in Pids, ForkDown(p)
      PROVE  Refines
  <2>1. life' = life
    BY <1>9, LivesOn DEF ForkDown, Points
  <2> QED
    BY <1>9, <2>1 DEF ForkDown, history, WP!vars
<1>10. ASSUME NEW p \in Pids, ForkReturn(p)
       PROVE  Refines
  <2>1. CASE process_wait(p, arg[p])
    BY <1>10, <2>1, WaitAsks DEF ForkReturn
  <2>2. CASE /\ Goto(p, "user")
             /\ UNCHANGED <<arg, parent, child_list, waited, exit_status,
                            semaVars, returned>>
    <3>1. life' = life
      BY <1>10, <2>2, LivesOn DEF ForkReturn, Points
    <3> QED
      BY <2>2, <3>1 DEF WP!vars
  <2> QED
    BY <1>10, <2>1, <2>2 DEF ForkReturn
<1>11. ASSUME NEW p \in Pids, DoFork(p)
       PROVE  Refines
  <2>1. life' = life
    BY <1>11, LivesOn DEF DoFork, Points
  <2> QED
    BY <1>11, <2>1 DEF DoFork, WP!vars
<1>12. ASSUME NEW p \in Pids, DoForkFails(p)
       PROVE  Refines
  <2>1. p # Main
    BY <1>12 DEF DoForkFails, MainInv
  <2> QED
    BY <1>12, <2>1, Exits DEF DoForkFails, history
<1>13. ASSUME NEW p \in Pids, initd(p)
       PROVE  Refines
  <2>1. life' = life
    BY <1>13, LivesOn DEF initd, Points
  <2> QED
    BY <1>13, <2>1 DEF initd, history, WP!vars
<1>14. ASSUME NEW p \in Pids, ExitUp(p)
       PROVE  Refines
  <2>1. \A q \in Pids : life'[q] = life[q]
    BY <1>14 DEF ExitUp, Goto, life
  <2>2. life' = life
    BY <2>1, SameLife
  <2> QED
    BY <1>14, <2>2 DEF ExitUp, history, WP!vars
<1>15. ASSUME NEW p \in Pids, ExitDown(p)
       PROVE  Refines
  BY <1>15, ExitDownBuries
<1>16. ASSUME NEW p \in Pids, kill(p)
       PROVE  Refines
  <2>1. p # Main
    BY <1>16 DEF kill, MainInv
  <2>2. /\ exit_status[p] \in ExitCodes
        /\ exit_status' = [exit_status EXCEPT ![p] = exit_status[p]]
    BY <1>16 DEF kill, TypeOK
  <2> QED
    BY <1>16, <2>1, <2>2, Exits DEF kill
<1>17. ASSUME NEW p \in Pids, CloseFiles(p)
       PROVE  Refines
  BY <1>17, ClosesFiles
<1> QED
  BY <1>1, <1>2, <1>3, <1>4, <1>5, <1>6, <1>7, <1>8, <1>9, <1>10, <1>11,
     <1>12, <1>13, <1>14, <1>15, <1>16, <1>17
  DEF Next, Boot, User, Kernel

(* Processes start as the protocol says.                                   *)
LEMMA InitRefines == Init => WP!Init
  BY ProcessAssumption DEF Init, life, WP!Init

(* Whatever order fork, exit and wait of parents and children reach their  *)
(* semaphores in, a child is asked for once, answered after its exit with  *)
(* its status, and freed after that: process.c 207-237, 491-552.           *)
THEOREM ImplementsWaitProtocol == Spec => ImplementsWait
<1>1. RInv /\ [Next]_vars => [WP!Next]_(WP!vars)
  BY RefineStep
<1> QED
  BY <1>1, InitRInv, NextRInv, InitRefines, PTL
  DEF Spec, ImplementsWait, WP!Spec
=============================================================================
