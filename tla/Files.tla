--------------------------------- MODULE Files ---------------------------------
(***************************************************************************)
(* Files as user processes use them: the file system calls of              *)
(* userprog/syscall.c, what load(), __do_fork() and process_exit() of      *)
(* userprog/process.c do with files, and filesys/ below them (directory,   *)
(* open inodes, free map).                                                 *)
(*                                                                         *)
(* A system call runs under filelock and is one step, but for a read of    *)
(* the keyboard and a write, which sleep with the lock.  load(), fork and  *)
(* the last part of process_exit() take no lock, so what they do with      *)
(* inodes may overlap what a system call or another of them does: Overlap  *)
(* is when it first happens, and the model ends there.  load() is split    *)
(* where it sleeps in the disk.  Calls that fail without a trace are left  *)
(* out, and so are positions in a file: a read, seek, tell or filesize of  *)
(* a file changes nothing else.                                            *)
(***************************************************************************)
EXTENDS Integers, Sequences, FiniteSetsExt

CONSTANTS
  Procs,        \* processes; an exited one stands for a new one
  First,        \* the one of Procs that runs Program at the start
  Names,        \* file names
  Program,      \* one of Names
  FD_MAX,
  Sectors,      \* of the disk, without the free map's and the directory's
  Lengths,      \* sectors of data a file is created with: 0, 1 or either
  NULL,
  Nobody,       \* holds a lock that is free
  Lost,         \* holds filelock when its holder has died: for ever
  MaxLeaks      \* bound: file structures nobody can close any more

(* A file structure, an inode in memory and an entry of the directory; an  *)
(* entry has its data's first sector with it, 0 if there is no data.       *)
OpenFile == [inode : Sectors, deny_write : BOOLEAN]
Inode == [start : Sectors \cup {0}, ready : BOOLEAN, open_cnt : Nat \ {0},
          deny_write_cnt : Nat, removed : BOOLEAN]
Entry == [sector : Sectors, start : Sectors \cup {0}]

ASSUME FilesAssumption ==
  /\ First \in Procs /\ Program \in Names
  /\ FD_MAX \in Nat /\ FD_MAX > 2
  /\ IsFiniteSet(Procs) /\ IsFiniteSet(Sectors)
  /\ Sectors = 1..Cardinality(Sectors) /\ {1, 2} \subseteq Sectors
  /\ Lengths \subseteq {0, 1}
  /\ MaxLeaks \in Nat
  /\ Nobody \notin Procs /\ Lost \notin Procs \cup {Nobody}
  /\ NULL \notin OpenFile \cup Inode \cup Entry

VARIABLES
  pc,           \* "none": not there; "user"; "keyboard": in read(0, ...);
                \* "writing": to the disk; "opening", "loading": in load();
                \* "exiting"
  filelock,     \* its holder
  fd_table,
  running,      \* the executable, open
  file,         \* the local variable of load()
  inodes,       \* open_inodes: the structure of an inode's sector
  root,         \* the directory: a name's inode sector and data sector
  free,         \* the free map
  panicked,     \* the assertion that has stopped the kernel, or "race"
  (* What has happened, for the properties only.                           *)
  image,        \* the inode sector of the program a process executes
  spoiled,      \* those whose program a write was let into since its load
  leaked,       \* file structures that nothing points at
  lost          \* sectors that create() has allocated for nothing

history == <<image, spoiled, leaked, lost>>
vars == <<pc, filelock, fd_table, running, file, inodes, root, free, panicked,
          history>>

Fds == 2..(FD_MAX - 1)
File(i, deny) == [inode |-> i, deny_write |-> deny]
Goto(p, point) == pc' = [pc EXCEPT ![p] = point]
At(p, point) == panicked = "no" /\ pc[p] = point
-----------------------------------------------------------------------------
(* filesys/inode.c: the table IS of open inodes.  It has one structure for *)
(* a sector as long as nobody comes between the search for it and its      *)
(* insertion.                                                              *)
inode_open(is, e, ready) ==
  IF is[e.sector] # NULL
  THEN [is EXCEPT ![e.sector].open_cnt = @ + 1]
  ELSE [is EXCEPT ![e.sector] =
          [start |-> e.start, ready |-> ready, open_cnt |-> 1,
           deny_write_cnt |-> 0, removed |-> FALSE]]

(* Mutant of inode_close: the count runs down but the inode stays.         *)
InodeCloseKeeps(is, i) == [is EXCEPT ![i].open_cnt = @ - 1]

inode_close(is, i) ==
  IF is[i].open_cnt = 1 THEN [is EXCEPT ![i] = NULL]
                        ELSE [is EXCEPT ![i].open_cnt = @ - 1]

SectorsOf(i, start) == {i, start} \ {0}

(* Mutant of Released: a removed file's sectors do not wait for the last   *)
(* close.                                                                  *)
ReleasedEarly(is, i) ==
  IF is[i].removed THEN SectorsOf(i, is[i].start) ELSE {}

(* What inode_close() gives back to the free map.                          *)
Released(is, i) ==
  IF is[i].open_cnt = 1 /\ is[i].removed
  THEN SectorsOf(i, is[i].start) ELSE {}

(* Mutant of file_allow_write: whichever file of the inode is closed.      *)
AllowAny(is, f) ==
  IF is[f.inode].deny_write_cnt > 0
  THEN [is EXCEPT ![f.inode].deny_write_cnt = @ - 1] ELSE is

file_allow_write(is, f) ==
  IF f.deny_write THEN [is EXCEPT ![f.inode].deny_write_cnt = @ - 1] ELSE is

file_close(f) ==
  /\ inodes' = inode_close(file_allow_write(inodes, f), f.inode)
  /\ free' = free \cup Released(inodes, f.inode)
-----------------------------------------------------------------------------
(* The system calls.                                                       *)
Locked(p) == At(p, "user") /\ filelock = Nobody

(* create(), with k sectors of data.  If the name is taken dir_add() fails *)
(* and the inode's sector is released, but not the data's.  Whoever runs a *)
(* program that was there before runs no file any more.                    *)
create(p, n, k) ==
  /\ Locked(p)
  /\ Cardinality(free) > k
  /\ LET s == Min(free)
         t == IF k = 0 THEN 0 ELSE Min(free \ {s})
     IN  /\ \/ /\ root[n] = NULL
               /\ root' = [root EXCEPT ![n] = [sector |-> s, start |-> t]]
               /\ free' = free \ {s, t}
               /\ UNCHANGED lost
            \/ /\ root[n] # NULL
               /\ free' = free \ {t}
               /\ lost' = lost \cup ({t} \ {0})
               /\ UNCHANGED root
         /\ image' = [q \in Procs |-> IF image[q] = s THEN 0 ELSE image[q]]
  /\ UNCHANGED <<pc, filelock, fd_table, running, file, inodes, panicked,
                 spoiled, leaked>>

(* remove(): the name goes, the file when nobody has it open.              *)
remove(p, n) ==
  /\ Locked(p)
  /\ root[n] # NULL
  /\ LET i == root[n].sector
         is == [inode_open(inodes, root[n], TRUE) EXCEPT ![i].removed = TRUE]
     IN  /\ inodes' = inode_close(is, i)
         /\ free' = free \cup Released(is, i)
  /\ root' = [root EXCEPT ![n] = NULL]
  /\ UNCHANGED <<pc, filelock, fd_table, running, file, panicked, history>>

(* open().  With no descriptor left it closes its argument, the name in    *)
(* the program's memory, as a file: the inode it finds there is at the     *)
(* address that the first letters make, and the exception that raises in   *)
(* the kernel, or in close() behind it, stops the kernel.                  *)
open(p, n) ==
  /\ Locked(p)
  /\ root[n] # NULL
  /\ LET unused == {fd \in Fds : fd_table[p][fd] = NULL}
         f == File(root[n].sector, FALSE)
     IN  \/ /\ unused # {}
            /\ inodes' = inode_open(inodes, root[n], TRUE)
            /\ fd_table' = [fd_table EXCEPT ![p][Min(unused)] = f]
            /\ UNCHANGED panicked
         \/ /\ unused = {}
            /\ panicked' = "file_close"
            /\ UNCHANGED <<inodes, fd_table>>
  /\ UNCHANGED <<pc, filelock, running, file, root, free, history>>

close(p, fd) ==
  /\ Locked(p)
  /\ fd_table[p][fd] # NULL
  /\ file_close(fd_table[p][fd])
  /\ fd_table' = [fd_table EXCEPT ![p][fd] = NULL]
  /\ UNCHANGED <<pc, filelock, running, file, root, panicked, history>>

(* A write that changes a file: it has data, nobody denies it when it is   *)
(* tested, ...                                                             *)
write(p, fd) ==
  /\ Locked(p)
  /\ fd_table[p][fd] # NULL
  /\ LET i == fd_table[p][fd].inode
     IN  /\ inodes[i].deny_write_cnt = 0 /\ inodes[i].start # 0
         /\ spoiled' = spoiled \cup {q \in Procs : image[q] = i}
  /\ filelock' = p
  /\ Goto(p, "writing")
  /\ UNCHANGED <<fd_table, running, file, inodes, root, free, panicked, image,
                 leaked, lost>>

(* ... and the disk takes its time.                                        *)
Written(p) ==
  /\ At(p, "writing")
  /\ filelock' = Nobody
  /\ Goto(p, "user")
  /\ UNCHANGED <<fd_table, running, file, inodes, root, free, panicked,
                 history>>

(* read(0, ...) sleeps until keys are pressed.                             *)
ReadKeyboard(p) ==
  /\ Locked(p)
  /\ filelock' = p
  /\ Goto(p, "keyboard")
  /\ UNCHANGED <<fd_table, running, file, inodes, root, free, panicked,
                 history>>

KeyPressed(p) ==
  /\ At(p, "keyboard")
  /\ filelock' = Nobody
  /\ Goto(p, "user")
  /\ UNCHANGED <<fd_table, running, file, inodes, root, free, panicked,
                 history>>

(* A read into memory that is mapped but may not be written passes         *)
(* validate_buffer() and faults: exit(-1), and nobody releases the lock.   *)
ReadFaults(p) ==
  /\ \/ At(p, "keyboard")
     \/ /\ Locked(p)
        /\ \E fd \in Fds : /\ fd_table[p][fd] # NULL
                           /\ inodes[fd_table[p][fd].inode].start # 0
  /\ filelock' = p
  /\ Goto(p, "exiting")
  /\ UNCHANGED <<fd_table, running, file, inodes, root, free, panicked,
                 history>>
-----------------------------------------------------------------------------
(* Mutant of fork: the child's files share the inodes uncounted.           *)
ForkUncounted(p, c) ==
  /\ At(p, "user") /\ pc[c] = "none"
  /\ Goto(c, "user")
  /\ fd_table' = [fd_table EXCEPT ![c] = fd_table[p]]
  /\ image' = [image EXCEPT ![c] = image[p]]
  /\ spoiled' = IF p \in spoiled THEN spoiled \cup {c} ELSE spoiled
  /\ UNCHANGED <<filelock, running, file, inodes, root, free, panicked, leaked,
                 lost>>

(* __do_fork(): the parent's descriptors are duplicated, which leaves what *)
(* it is running out.                                                      *)
fork(p, c) ==
  /\ At(p, "user") /\ pc[c] = "none"
  /\ Goto(c, "user")
  /\ fd_table' = [fd_table EXCEPT ![c] = fd_table[p]]
  /\ inodes' = [i \in Sectors |->
       IF inodes[i] = NULL THEN NULL
       ELSE [inodes[i] EXCEPT !.open_cnt = @ + Cardinality(
               {fd \in Fds : fd_table[p][fd] = File(i, FALSE)})]]
  /\ image' = [image EXCEPT ![c] = image[p]]
  /\ spoiled' = IF p \in spoiled THEN spoiled \cup {c} ELSE spoiled
  /\ UNCHANGED <<filelock, running, file, root, free, panicked, leaked, lost>>

(* load() opens the executable; the inode it puts in the table is filled   *)
(* from the disk ...                                                       *)
LoadOpen(p, n) ==
  /\ At(p, "user")
  /\ root[n] # NULL
  /\ inodes' = inode_open(inodes, root[n], FALSE)
  /\ file' = [file EXCEPT ![p] = File(root[n].sector, FALSE)]
  /\ Goto(p, IF inodes[root[n].sector] = NULL THEN "opening" ELSE "loading")
  /\ UNCHANGED <<filelock, fd_table, running, root, free, panicked, history>>

LoadRead(p) ==
  /\ At(p, "opening")
  /\ inodes' = [inodes EXCEPT ![file[p].inode].ready = TRUE]
  /\ Goto(p, "loading")
  /\ UNCHANGED <<filelock, fd_table, running, file, root, free, panicked,
                 history>>

(* ... its segments are read, and from now on nobody is to write it.  What *)
(* an earlier exec() left in t->running stays open.                        *)
LoadDone(p) ==
  LET i == file[p].inode
  IN  /\ At(p, "loading")
      /\ \/ running[p] = NULL /\ UNCHANGED leaked
         \/ /\ running[p] # NULL /\ Len(leaked) < MaxLeaks
            /\ leaked' = Append(leaked, running[p])
      /\ running' = [running EXCEPT ![p] = File(i, TRUE)]
      /\ inodes' = [inodes EXCEPT ![i].deny_write_cnt = @ + 1]
      /\ file' = [file EXCEPT ![p] = NULL]
      /\ image' = [image EXCEPT ![p] = i]
      /\ spoiled' = spoiled \ {p}
      /\ Goto(p, "user")
      /\ UNCHANGED <<filelock, fd_table, root, free, panicked, lost>>

(* It is no executable: the file is not closed, and the process ends.      *)
LoadFails(p) ==
  /\ At(p, "loading")
  /\ Len(leaked) < MaxLeaks
  /\ leaked' = Append(leaked, file[p])
  /\ file' = [file EXCEPT ![p] = NULL]
  /\ Goto(p, "exiting")
  /\ UNCHANGED <<filelock, fd_table, running, inodes, root, free, panicked,
                 image, spoiled, lost>>

(* Whoever reads or writes a file while load() is still reading its inode  *)
(* finds garbage there.  It may look right, or be no sector of the disk.   *)
UseUnread(p) ==
  /\ \/ /\ Locked(p)
        /\ \E fd \in Fds : /\ fd_table[p][fd] # NULL
                           /\ ~inodes[fd_table[p][fd].inode].ready
     \/ At(p, "loading") /\ ~inodes[file[p].inode].ready
  /\ panicked' = "select_sector"
  /\ UNCHANGED <<pc, filelock, fd_table, running, file, inodes, root, free,
                 history>>

exit(p) ==
  /\ At(p, "user")
  /\ Goto(p, "exiting")
  /\ UNCHANGED <<filelock, fd_table, running, file, inodes, root, free,
                 panicked, history>>

(* process_exit() closes the descriptors, one system call each: a process  *)
(* that died with the lock may not ask for it again ...                    *)
ExitClose(p) ==
  LET used == {fd \in Fds : fd_table[p][fd] # NULL}
  IN  /\ At(p, "exiting") /\ used # {}
      /\ \/ /\ filelock = Nobody
            /\ file_close(fd_table[p][Min(used)])
            /\ fd_table' = [fd_table EXCEPT ![p][Min(used)] = NULL]
            /\ UNCHANGED panicked
         \/ /\ filelock = p
            /\ panicked' = "lock_acquire"
            /\ UNCHANGED <<inodes, free, fd_table>>
      /\ UNCHANGED <<pc, filelock, running, file, root, history>>

(* ... and the executable, without the lock.                               *)
ExitRunning(p) ==
  /\ At(p, "exiting")
  /\ \A fd \in Fds : fd_table[p][fd] = NULL
  /\ \/ running[p] # NULL /\ file_close(running[p])
     \/ running[p] = NULL /\ UNCHANGED <<inodes, free>>
  /\ running' = [running EXCEPT ![p] = NULL]
  /\ filelock' = IF filelock = p THEN Lost ELSE filelock
  /\ image' = [image EXCEPT ![p] = 0]
  /\ spoiled' = spoiled \ {p}
  /\ Goto(p, "none")
  /\ UNCHANGED <<fd_table, file, root, panicked, leaked, lost>>

(* Who is about to use inodes without the lock: fork() or load() from user *)
(* mode, load() to deny writes, process_exit() to close the executable;    *)
(* and who with it.                                                        *)
Unlocked(p) ==
  \/ At(p, "user") \/ At(p, "loading")
  \/ /\ At(p, "exiting") /\ running[p] # NULL
     /\ \A fd \in Fds : fd_table[p][fd] = NULL

Locking(p) ==
  \/ Locked(p)
  \/ /\ At(p, "exiting") /\ filelock = Nobody
     /\ \E fd \in Fds : fd_table[p][fd] # NULL

(* Two of them at once: counts, the list of open inodes and what a lookup  *)
(* has found may be wrong from now on.                                     *)
Overlap(p, q) ==
  /\ p # q /\ Unlocked(p) /\ (Unlocked(q) \/ Locking(q))
  /\ panicked' = "race"
  /\ UNCHANGED <<pc, filelock, fd_table, running, file, inodes, root, free,
                 history>>
-----------------------------------------------------------------------------
(* initd has been loaded.                                                  *)
Init ==
  /\ pc = [p \in Procs |-> IF p = First THEN "user" ELSE "none"]
  /\ filelock = Nobody
  /\ fd_table = [p \in Procs |-> [fd \in Fds |-> NULL]]
  /\ running = [p \in Procs |-> IF p = First THEN File(1, TRUE) ELSE NULL]
  /\ file = [p \in Procs |-> NULL]
  /\ inodes = [i \in Sectors |->
       IF i = 1 THEN [start |-> 2, ready |-> TRUE, open_cnt |-> 1,
                      deny_write_cnt |-> 1, removed |-> FALSE]
                ELSE NULL]
  /\ root = [n \in Names |->
               IF n = Program THEN [sector |-> 1, start |-> 2] ELSE NULL]
  /\ free = Sectors \ {1, 2}
  /\ panicked = "no"
  /\ image = [p \in Procs |-> IF p = First THEN 1 ELSE 0]
  /\ spoiled = {}
  /\ leaked = <<>>
  /\ lost = {}

Step(p) ==
  \/ \E n \in Names : \/ \E k \in Lengths : create(p, n, k)
                      \/ remove(p, n) \/ open(p, n) \/ LoadOpen(p, n)
  \/ \E fd \in Fds : close(p, fd) \/ write(p, fd)
  \/ Written(p) \/ ReadKeyboard(p) \/ KeyPressed(p) \/ ReadFaults(p)
  \/ \E c \in Procs : fork(p, c)
  \/ LoadRead(p) \/ LoadDone(p) \/ LoadFails(p) \/ UseUnread(p)
  \/ exit(p) \/ ExitClose(p) \/ ExitRunning(p)

Next ==
  \/ \E p \in Procs : Step(p)
  \/ \E p, q \in Procs : Overlap(p, q)

Spec == Init /\ [][Next]_vars
-----------------------------------------------------------------------------
TypeOK ==
  /\ pc \in [Procs -> {"none", "user", "keyboard", "writing", "opening",
                       "loading", "exiting"}]
  /\ filelock \in Procs \cup {Nobody, Lost}
  /\ fd_table \in [Procs -> [Fds -> OpenFile \cup {NULL}]]
  /\ running \in [Procs -> OpenFile \cup {NULL}]
  /\ file \in [Procs -> OpenFile \cup {NULL}]
  /\ \A p \in Procs : file[p] # NULL <=> pc[p] \in {"opening", "loading"}
  /\ inodes \in [Sectors -> Inode \cup {NULL}]
  /\ root \in [Names -> Entry \cup {NULL}]
  /\ free \subseteq Sectors /\ lost \subseteq Sectors
  /\ panicked \in {"no", "file_close", "lock_acquire", "select_sector",
                   "race"}
  /\ image \in [Procs -> Sectors \cup {0}] /\ spoiled \subseteq Procs
  /\ leaked \in Seq(OpenFile) /\ Len(leaked) <= MaxLeaks

(* How many open file structures are like F.                               *)
Slots == Procs \X Fds
OpenFiles(f) ==
  Cardinality({x \in Slots : fd_table[x[1]][x[2]] = f})
  + Cardinality({p \in Procs : running[p] = f})
  + Cardinality({p \in Procs : file[p] = f})
  + Cardinality({k \in DOMAIN leaked : leaked[k] = f})

(* An inode counts the files that have it open and those that deny writes  *)
(* to it: however opens, closes, forks, loads, removals and exits follow   *)
(* each other, no close() frees an inode in use or opens an executable to  *)
(* writers.  (They follow each other until two of them overlap.)           *)
CountsMatch ==
  \A i \in Sectors :
     LET denying == OpenFiles(File(i, TRUE))
         others == OpenFiles(File(i, FALSE))
     IN  IF inodes[i] = NULL
         THEN denying + others = 0
         ELSE /\ inodes[i].deny_write_cnt = denying
              /\ inodes[i].open_cnt = denying + others

(* The files on disk: those with a name, and the removed ones that are     *)
(* still open.                                                             *)
Named == {root[n] : n \in {m \in Names : root[m] # NULL}}
Opened == {[sector |-> i, start |-> inodes[i].start] :
             i \in {j \in Sectors : inodes[j] # NULL}}

(* The free map is right: no two files share a sector, a removed file      *)
(* keeps its sectors until the last close and gives them back then, and    *)
(* but for what create() has lost every sector is free or a file's.        *)
FreeMapExact ==
  LET sectors(e) == SectorsOf(e.sector, e.start)
  IN  /\ \A e, f \in Named \cup Opened :
           e # f => sectors(e) \cap sectors(f) = {}
      /\ UNION {sectors(e) : e \in Named \cup Opened}
           = Sectors \ (free \cup lost)
      /\ \A e \in Opened : inodes[e.sector].removed <=> e \notin Named

(* inode_write_at() lets nobody in to write the program of a process that  *)
(* has loaded it itself, whoever else opens, closes or runs that file.     *)
(* (Who was let in before load() denies writes may still be writing; and a *)
(* clone runs the program too, but does not deny writes: when its parent   *)
(* ends it may be written, although process.c:742 says otherwise.)         *)
WritersShutOut == \A p \in spoiled : running[p] = NULL

(* "With the global lock races of concurrent file accesses are prevented"  *)
(* (syscall.c:268): what is used of an inode has been read from the disk.  *)
InodeReadBeforeUse ==
  \A i \in Sectors : inodes[i] # NULL /\ ~inodes[i].ready =>
     \A p \in Procs : /\ \A fd \in Fds : fd_table[p][fd] # File(i, FALSE)
                      /\ pc[p] = "loading" => file[p] # File(i, FALSE)
=============================================================================
