---------------------------- MODULE Files_proofs ----------------------------
(***************************************************************************)
(* Proofs about Files, for any processes, names, disk and tables: whatever *)
(* order opens, closes, forks, loads, removals and exits come in, the      *)
(* counts of an inode are those of the files that have it open, the free   *)
(* map is right and no write is let into a loaded program.                 *)
(***************************************************************************)
EXTENDS Files, Lists_proofs

(* Which files are where: a descriptor and the local variable of load() do *)
(* not deny writes, the running file does, and its inode is that of the    *)
(* process's program unless create() has since given the sector away.      *)
FileInv ==
  \A p \in Procs :
     /\ \A fd \in Fds :
          fd_table[p][fd] # NULL => fd_table[p][fd].deny_write = FALSE
     /\ file[p] # NULL => file[p].deny_write = FALSE
     /\ running[p] # NULL => /\ running[p].deny_write = TRUE
                             /\ image[p] \in {0, running[p].inode}
     /\ pc[p] = "none" => /\ running[p] = NULL
                          /\ \A fd \in Fds : fd_table[p][fd] = NULL

(* A lost sector is not free, and no two names are of one file.            *)
NameInv ==
  /\ free \cap lost = {}
  /\ \A n, m \in Names :
       n # m /\ root[n] # NULL /\ root[m] # NULL =>
         root[n].sector # root[m].sector

IInv ==
  /\ TypeOK
  /\ CountsMatch
  /\ FileInv
  /\ WritersShutOut
  /\ FreeMapExact
  /\ NameInv
-----------------------------------------------------------------------------
(* Where g has the value f, and how a count of that changes with one place.*)
Places(g, f) == {x \in DOMAIN g : g[x] = f}
Count(g, f) == Cardinality(Places(g, f))
One(v, f) == IF v = f THEN 1 ELSE 0

LEMMA CountType ==
  ASSUME NEW g, IsFiniteSet(DOMAIN g), NEW f
  PROVE  /\ IsFiniteSet(Places(g, f)) /\ Count(g, f) \in Nat
         /\ \A x \in DOMAIN g : g[x] = f => Count(g, f) > 0
<1>1. Places(g, f) \in SUBSET DOMAIN g
  BY DEF Places
<1>2. IsFiniteSet(Places(g, f))
  BY <1>1, FS_Subset
<1>3. Count(g, f) \in Nat
  BY <1>2, FS_CardinalityType DEF Count
<1>4. ASSUME NEW x \in DOMAIN g, g[x] = f
      PROVE  Count(g, f) > 0
  <2>1. Places(g, f) # {}
    BY <1>4 DEF Places
  <2>2. Count(g, f) # 0
    BY <1>2, <2>1, FS_EmptySet DEF Count
  <2> QED
    BY <1>3, <2>2
<1> QED
  BY <1>2, <1>3, <1>4

(* One place changes.                                                      *)
LEMMA CountChange ==
  ASSUME NEW S, IsFiniteSet(S), NEW g, NEW h, DOMAIN g = S, DOMAIN h = S,
         NEW x \in S, \A y \in S : y # x => h[y] = g[y], NEW f
  PROVE  Count(h, f) = Count(g, f) + One(h[x], f) - One(g[x], f)
<1>1. /\ IsFiniteSet(Places(g, f)) /\ Count(g, f) \in Nat
      /\ IsFiniteSet(Places(h, f)) /\ Count(h, f) \in Nat
  BY CountType
<1>2. CASE g[x] = f /\ h[x] = f
  <2>1. Places(h, f) = Places(g, f)
    BY <1>2 DEF Places
  <2> QED
    BY <1>1, <1>2, <2>1 DEF Count, One
<1>3. CASE g[x] # f /\ h[x] # f
  <2>1. Places(h, f) = Places(g, f)
    BY <1>3 DEF Places
  <2> QED
    BY <1>1, <1>3, <2>1 DEF Count, One
<1>4. CASE g[x] # f /\ h[x] = f
  <2>1. Places(h, f) = Places(g, f) \cup {x} /\ x \notin Places(g, f)
    BY <1>4 DEF Places
  <2>2. Count(h, f) = Count(g, f) + 1
    BY <1>1, <2>1, FS_AddElement DEF Count
  <2> QED
    BY <1>1, <1>4, <2>2 DEF One
<1>5. CASE g[x] = f /\ h[x] # f
  <2>1. Places(h, f) = Places(g, f) \ {x} /\ x \in Places(g, f)
    BY <1>5 DEF Places
  <2>2. Count(h, f) = Count(g, f) - 1
    BY <1>1, <2>1, FS_RemoveElement DEF Count
  <2> QED
    BY <1>1, <1>5, <2>2 DEF One
<1> QED
  BY <1>2, <1>3, <1>4, <1>5

(* A place is added at the end of a list.                                  *)
LEMMA CountAppend ==
  ASSUME NEW S, NEW s \in Seq(S), NEW v \in S, NEW f
  PROVE  Count(Append(s, v), f) = Count(s, f) + One(v, f)
<1> DEFINE n == Len(s)
           r == Append(s, v)
<1>1. /\ n \in Nat /\ DOMAIN s = 1 .. n /\ DOMAIN r = 1 .. (n + 1)
      /\ \A i \in 1 .. n : r[i] = s[i]
      /\ r[n + 1] = v
  OBVIOUS
<1>2. IsFiniteSet(1 .. n)
  BY <1>1, FS_Interval
<1>2a. n + 1 \notin 1 .. n /\ 1 .. (n + 1) = (1 .. n) \cup {n + 1}
  BY <1>1
<1>3. IsFiniteSet(Places(s, f)) /\ Count(s, f) \in Nat
  BY <1>1, <1>2, CountType
<1> HIDE DEF r, n
<1>4. CASE v = f
  <2>1. /\ Places(r, f) = Places(s, f) \cup {n + 1}
        /\ n + 1 \notin Places(s, f)
    BY <1>1, <1>2a, <1>4 DEF Places
  <2> QED
    BY <1>3, <1>4, <2>1, FS_AddElement DEF Count, One, r
<1>5. CASE v # f
  <2>1. Places(r, f) = Places(s, f)
    BY <1>1, <1>2a, <1>5 DEF Places
  <2> QED
    BY <1>3, <1>5, <2>1 DEF Count, One, r
<1> QED
  BY <1>4, <1>5
-----------------------------------------------------------------------------
(* The descriptors of all processes, by process and number.                *)
Descriptors == [x \in Slots |-> fd_table[x[1]][x[2]]]

LEMMA DiskAndTables ==
  /\ IsFiniteSet(Procs) /\ IsFiniteSet(Fds) /\ IsFiniteSet(Slots)
  /\ Sectors \subseteq Nat \ {0} /\ IsFiniteSet(Sectors)
<1>1. Fds = 2 .. (FD_MAX - 1) /\ IsFiniteSet(Procs) /\ FD_MAX \in Nat
  BY FilesAssumption DEF Fds
<1>2. IsFiniteSet(Fds)
  BY <1>1, FS_Interval
<1>3. IsFiniteSet(Slots)
  BY <1>1, <1>2, FS_Product DEF Slots
<1>4. Cardinality(Sectors) \in Nat /\ Sectors = 1 .. Cardinality(Sectors)
  BY FilesAssumption, FS_CardinalityType
<1>5. Sectors \subseteq Nat \ {0}
  BY <1>4
<1> QED
  BY <1>1, <1>2, <1>3, <1>5, FilesAssumption

(* The tables that point at files.                                         *)
TablesOK ==
  /\ fd_table \in [Procs -> [Fds -> OpenFile \cup {NULL}]]
  /\ running \in [Procs -> OpenFile \cup {NULL}]
  /\ file \in [Procs -> OpenFile \cup {NULL}]
  /\ leaked \in Seq(OpenFile)

Sum(f) == Count(Descriptors, f) + Count(running, f) + Count(file, f)
            + Count(leaked, f)

(* OpenFiles() counts places: not less than one for a file that is open.   *)
IsSum ==
  \A f \in OpenFile :
     /\ OpenFiles(f) = Sum(f) /\ OpenFiles(f) \in Nat
     /\ Count(Descriptors, f) \in Nat /\ Count(running, f) \in Nat
     /\ Count(file, f) \in Nat /\ Count(leaked, f) \in Nat
     /\ \A p \in Procs :
          /\ \A fd \in Fds :
               fd_table[p][fd] = f => Count(Descriptors, f) > 0
          /\ running[p] = f => Count(running, f) > 0
          /\ file[p] = f => Count(file, f) > 0

LEMMA OpenFilesSum == TablesOK => IsSum
<1> SUFFICES ASSUME TablesOK, NEW f \in OpenFile
             PROVE  IsSum!(f)
  BY DEF IsSum
<1>1. /\ DOMAIN Descriptors = Slots /\ DOMAIN running = Procs
      /\ DOMAIN file = Procs /\ IsFiniteSet(DOMAIN leaked)
  BY FS_Interval DEF Descriptors, TablesOK
<1>2. /\ Count(Descriptors, f) \in Nat /\ Count(running, f) \in Nat
      /\ Count(file, f) \in Nat /\ Count(leaked, f) \in Nat
  BY <1>1, DiskAndTables, CountType
<1>3. {x \in Slots : fd_table[x[1]][x[2]] = f} = Places(Descriptors, f)
  BY DEF Descriptors, Places
<1>4. /\ {p \in Procs : running[p] = f} = Places(running, f)
      /\ {p \in Procs : file[p] = f} = Places(file, f)
      /\ {k \in DOMAIN leaked : leaked[k] = f} = Places(leaked, f)
  BY <1>1 DEF Places
<1>5. OpenFiles(f) = Sum(f)
  BY <1>3, <1>4 DEF OpenFiles, Count, Sum
<1>5a. OpenFiles(f) \in Nat
  BY <1>2, <1>5 DEF Sum
<1>6. \A x \in Slots : Descriptors[x] = f => Count(Descriptors, f) > 0
  BY <1>1, DiskAndTables, CountType
<1>7. \A p \in Procs, fd \in Fds :
        fd_table[p][fd] = f => Count(Descriptors, f) > 0
  <2> SUFFICES ASSUME NEW p \in Procs, NEW fd \in Fds, fd_table[p][fd] = f
               PROVE  Count(Descriptors, f) > 0
    OBVIOUS
  <2>1. <<p, fd>> \in Slots
    BY DEF Slots
  <2>2. Descriptors[<<p, fd>>] = f
    BY <2>1 DEF Descriptors
  <2> QED
    BY <1>6, <2>1, <2>2
<1>8. \A p \in Procs : /\ running[p] = f => Count(running, f) > 0
                       /\ file[p] = f => Count(file, f) > 0
  BY <1>1, DiskAndTables, CountType
<1> QED
  BY <1>2, <1>5, <1>5a, <1>7, <1>8

LEMMA OpenFilesSumNext == TablesOK' => IsSum'
  BY OpenFilesSum, PTL
-----------------------------------------------------------------------------
(* How a step changes a table, and with it a count.                        *)
LEMMA DescriptorChange ==
  ASSUME TablesOK, NEW p \in Procs, NEW fd \in Fds,
         NEW v \in OpenFile \cup {NULL},
         fd_table' = [fd_table EXCEPT ![p][fd] = v], NEW f \in OpenFile
  PROVE  /\ fd_table' \in [Procs -> [Fds -> OpenFile \cup {NULL}]]
         /\ Count(Descriptors, f)' = Count(Descriptors, f) + One(v, f)
                                       - One(fd_table[p][fd], f)
<1>1. fd_table' \in [Procs -> [Fds -> OpenFile \cup {NULL}]]
  BY DEF TablesOK
<1>2. /\ DOMAIN Descriptors = Slots /\ DOMAIN Descriptors' = Slots
      /\ <<p, fd>> \in Slots /\ IsFiniteSet(Slots)
  BY DiskAndTables DEF Descriptors, Slots
<1>3. \A q \in Procs, d \in Fds :
        fd_table'[q][d] = IF q = p /\ d = fd THEN v ELSE fd_table[q][d]
  BY DEF TablesOK
<1>4. /\ Descriptors'[<<p, fd>>] = v
      /\ Descriptors[<<p, fd>>] = fd_table[p][fd]
  BY <1>2, <1>3 DEF Descriptors
<1>5. \A y \in Slots : y # <<p, fd>> => Descriptors'[y] = Descriptors[y]
  <2> SUFFICES ASSUME NEW q \in Procs, NEW d \in Fds, <<q, d>> # <<p, fd>>
               PROVE  Descriptors'[<<q, d>>] = Descriptors[<<q, d>>]
    BY DEF Slots
  <2>1. <<q, d>> \in Slots /\ ~ (q = p /\ d = fd)
    BY DEF Slots
  <2> QED
    BY <1>3, <2>1 DEF Descriptors
<1> DEFINE g == Descriptors
           h == Descriptors'
<1>6. Count(h, f) = Count(g, f) + One(h[<<p, fd>>], f) - One(g[<<p, fd>>], f)
  <2> HIDE DEF g, h
  <2>1. /\ DOMAIN g = Slots /\ DOMAIN h = Slots
        /\ \A y \in Slots : y # <<p, fd>> => h[y] = g[y]
    BY <1>2, <1>5 DEF g, h
  <2> QED
    BY <1>2, <2>1, CountChange
<1>7. Count(Descriptors, f)' = Count(h, f)
  BY DEF Count, Places
<1> QED
  BY <1>1, <1>4, <1>6, <1>7

LEMMA ProcChange ==
  ASSUME NEW g, NEW h, DOMAIN g = Procs, DOMAIN h = Procs, NEW p \in Procs,
         \A q \in Procs : q # p => h[q] = g[q], NEW f
  PROVE  Count(h, f) = Count(g, f) + One(h[p], f) - One(g[p], f)
<1>1. IsFiniteSet(Procs)
  BY DiskAndTables
<1> QED
  BY <1>1, CountChange

(* A child's row of the table, empty before, becomes a copy of p's.        *)
LEMMA RowCopied ==
  ASSUME TablesOK, NEW p \in Procs, NEW c \in Procs, c # p,
         \A fd \in Fds : fd_table[c][fd] = NULL,
         fd_table' = [fd_table EXCEPT ![c] = fd_table[p]], NEW f \in OpenFile
  PROVE  /\ fd_table' \in [Procs -> [Fds -> OpenFile \cup {NULL}]]
         /\ Cardinality({fd \in Fds : fd_table[p][fd] = f}) \in Nat
         /\ Count(Descriptors, f)' =
              Count(Descriptors, f)
              + Cardinality({fd \in Fds : fd_table[p][fd] = f})
<1> DEFINE R == {fd \in Fds : fd_table[p][fd] = f}
           A == Places(Descriptors, f)
           B == {c} \X R
<1>1. fd_table' \in [Procs -> [Fds -> OpenFile \cup {NULL}]]
  BY DEF TablesOK
<1>2. DOMAIN Descriptors = Slots /\ DOMAIN Descriptors' = Slots
  BY DEF Descriptors
<1>3. R \in SUBSET Fds /\ IsFiniteSet(R)
  BY DiskAndTables, FS_Subset
<1>4. IsFiniteSet(A)
  BY <1>2, DiskAndTables, CountType
<1>5. /\ IsFiniteSet({c}) /\ Cardinality({c}) = 1
      /\ IsFiniteSet(B) /\ Cardinality(B) = Cardinality({c}) * Cardinality(R)
  BY <1>3, FS_Singleton, FS_Product
<1>6. f # NULL
  BY FilesAssumption
<1>7. \A q \in Procs, d \in Fds :
        /\ <<q, d>> \in A <=> fd_table[q][d] = f
        /\ <<q, d>> \in Places(Descriptors', f) <=> fd_table'[q][d] = f
        /\ <<q, d>> \in B <=> q = c /\ fd_table[p][d] = f
  BY <1>2 DEF Places, Descriptors, Slots
<1>8. \A q \in Procs, d \in Fds :
        fd_table'[q][d] = IF q = c THEN fd_table[p][d] ELSE fd_table[q][d]
  BY DEF TablesOK
<1>9. \A x : x \in A \cup B \cup Places(Descriptors', f) =>
               \E q \in Procs, d \in Fds : x = <<q, d>>
  BY <1>2 DEF Places, Slots
<1>10. Places(Descriptors', f) = A \cup B /\ A \cap B = {}
  <2> HIDE DEF A, B
  <2>1. \A q \in Procs, d \in Fds :
          /\ <<q, d>> \in Places(Descriptors', f) <=> <<q, d>> \in A \cup B
          /\ ~ (<<q, d>> \in A /\ <<q, d>> \in B)
    <3> SUFFICES ASSUME NEW q \in Procs, NEW d \in Fds
                 PROVE  /\ <<q, d>> \in Places(Descriptors', f)
                             <=> <<q, d>> \in A \cup B
                        /\ ~ (<<q, d>> \in A /\ <<q, d>> \in B)
      OBVIOUS
    <3>1. CASE q = c
      <4>1. fd_table[q][d] # f /\ fd_table'[q][d] = fd_table[p][d]
        BY <1>6, <1>8, <3>1
      <4> QED
        BY <1>7, <3>1, <4>1
    <3>2. CASE q # c
      <4>1. fd_table'[q][d] = fd_table[q][d] /\ <<q, d>> \notin B
        BY <1>7, <1>8, <3>2
      <4> QED
        BY <1>7, <4>1
    <3> QED
      BY <3>1, <3>2
  <2> QED
    BY <1>9, <2>1
<1>11. Cardinality(A \cup B) = Cardinality(A) + Cardinality(B)
  <2> HIDE DEF A, B
  <2>1. /\ Cardinality(A \cup B) =
             Cardinality(A) + Cardinality(B) - Cardinality(A \cap B)
    BY <1>4, <1>5, FS_Union
  <2>2. Cardinality(A \cap B) = 0
    BY <1>10, FS_EmptySet
  <2>3. Cardinality(A) \in Nat /\ Cardinality(B) \in Nat
    BY <1>4, <1>5, FS_CardinalityType
  <2> QED
    BY <2>1, <2>2, <2>3
<1>12. Cardinality(R) \in Nat
  BY <1>3, FS_CardinalityType
<1>13. Count(Descriptors, f)' = Cardinality(A) + Cardinality(R)
  <2>1. Count(Descriptors, f)' = Cardinality(A \cup B)
    BY <1>10 DEF Count, Places
  <2>2. Cardinality(B) = Cardinality(R)
    BY <1>5, <1>12
  <2> QED
    BY <1>11, <2>1, <2>2
<1> QED
  BY <1>1, <1>12, <1>13 DEF Count
-----------------------------------------------------------------------------
(* A table of inodes with the counts of the files that deny writes to an   *)
(* inode, D, and of the others that have it open, O.                       *)
Counted(is, D, O) ==
  /\ is \in [Sectors -> Inode \cup {NULL}]
  /\ D \in [Sectors -> Nat] /\ O \in [Sectors -> Nat]
  /\ \A i \in Sectors : IF is[i] = NULL
                        THEN D[i] = 0 /\ O[i] = 0
                        ELSE /\ is[i].deny_write_cnt = D[i]
                             /\ is[i].open_cnt = D[i] + O[i]

Plus(C, i, k) == [C EXCEPT ![i] = @ + k]

LEMMA CountedUpdate ==
  ASSUME NEW is, NEW D, NEW O, Counted(is, D, O), NEW i \in Sectors,
         NEW v \in Inode \cup {NULL}, NEW d \in Nat, NEW o \in Nat,
         IF v = NULL THEN d = 0 /\ o = 0
                     ELSE v.deny_write_cnt = d /\ v.open_cnt = d + o
  PROVE  Counted([is EXCEPT ![i] = v], [D EXCEPT ![i] = d],
                 [O EXCEPT ![i] = o])
  BY DEF Counted

LEMMA CountedOpen ==
  ASSUME NEW is, NEW D, NEW O, Counted(is, D, O),
         NEW e \in Entry, NEW r \in BOOLEAN
  PROVE  Counted(inode_open(is, e, r), D, Plus(O, e.sector, 1))
<1> DEFINE i == e.sector
<1>1. /\ i \in Sectors /\ e.start \in Sectors \cup {0} /\ NULL \notin Inode
      /\ D[i] \in Nat /\ O[i] \in Nat
      /\ D = [D EXCEPT ![i] = D[i]]
  BY FilesAssumption DEF Entry, Counted
<1>2. CASE is[i] # NULL
  <2> DEFINE v == [is[i] EXCEPT !.open_cnt = @ + 1]
  <2>1. is[i] \in Inode /\ inode_open(is, e, r) = [is EXCEPT ![i] = v]
    BY <1>1, <1>2 DEF Counted, inode_open
  <2>2. /\ is[i].open_cnt = D[i] + O[i] /\ is[i].deny_write_cnt = D[i]
    BY <1>1, <1>2 DEF Counted
  <2>3. /\ v \in Inode /\ v.open_cnt = D[i] + (O[i] + 1)
        /\ v.deny_write_cnt = D[i]
    BY <1>1, <2>1, <2>2 DEF Inode
  <2> HIDE DEF v
  <2> DEFINE o == O[i] + 1
  <2>3a. v \in Inode \cup {NULL} /\ v # NULL /\ o \in Nat
    BY <1>1, <2>3
  <2>3b. v.deny_write_cnt = D[i] /\ v.open_cnt = D[i] + o
    BY <2>3
  <2> HIDE DEF o
  <2>4. Counted([is EXCEPT ![i] = v], [D EXCEPT ![i] = D[i]],
                [O EXCEPT ![i] = o])
    BY <1>1, <2>3a, <2>3b, CountedUpdate
  <2> QED
    BY <1>1, <2>1, <2>4 DEF Plus, o
<1>3. CASE is[i] = NULL
  <2> DEFINE v == [start |-> e.start, ready |-> r, open_cnt |-> 1,
                   deny_write_cnt |-> 0, removed |-> FALSE]
  <2>1. inode_open(is, e, r) = [is EXCEPT ![i] = v]
    BY <1>3 DEF inode_open
  <2>2. D[i] = 0 /\ O[i] = 0
    BY <1>1, <1>3 DEF Counted
  <2>3. v \in Inode /\ v.open_cnt = 1 /\ v.deny_write_cnt = 0
    BY <1>1 DEF Inode
  <2> HIDE DEF v
  <2> DEFINE o == O[i] + 1
  <2>3a. v \in Inode \cup {NULL} /\ v # NULL /\ o \in Nat
    BY <1>1, <2>3
  <2>3b. v.deny_write_cnt = D[i] /\ v.open_cnt = D[i] + o
    BY <2>2, <2>3
  <2> HIDE DEF o
  <2>4. Counted([is EXCEPT ![i] = v], [D EXCEPT ![i] = D[i]],
                [O EXCEPT ![i] = o])
    BY <1>1, <2>3a, <2>3b, CountedUpdate
  <2> QED
    BY <1>1, <2>1, <2>4 DEF Plus, o
<1> QED
  BY <1>2, <1>3

(* A close, of a file that is counted.                                     *)
LEMMA CountedClose ==
  ASSUME NEW is, NEW D, NEW O, Counted(is, D, O), NEW g \in OpenFile,
         IF g.deny_write THEN D[g.inode] > 0 ELSE O[g.inode] > 0
  PROVE  Counted(inode_close(file_allow_write(is, g), g.inode),
                 IF g.deny_write THEN Plus(D, g.inode, -1) ELSE D,
                 IF g.deny_write THEN O ELSE Plus(O, g.inode, -1))
<1> DEFINE i == g.inode
           js == file_allow_write(is, g)
<1>1. /\ i \in Sectors /\ g.deny_write \in BOOLEAN /\ NULL \notin Inode
      /\ D[i] \in Nat /\ O[i] \in Nat
      /\ D = [D EXCEPT ![i] = D[i]] /\ O = [O EXCEPT ![i] = O[i]]
  BY FilesAssumption DEF OpenFile, Counted
<1> DEFINE d == IF g.deny_write THEN D[i] - 1 ELSE D[i]
           o == IF g.deny_write THEN O[i] ELSE O[i] - 1
<1>2. /\ d \in Nat /\ o \in Nat /\ d + o = D[i] + O[i] - 1
  BY <1>1
<1>3. /\ is[i] # NULL /\ is[i] \in Inode
      /\ is[i].deny_write_cnt = D[i] /\ is[i].open_cnt = D[i] + O[i]
  BY <1>1 DEF Counted
<1>4. \E v \in Inode : /\ js = [is EXCEPT ![i] = v]
                       /\ v.deny_write_cnt = d
                       /\ v.open_cnt = D[i] + O[i]
  <2>1. CASE g.deny_write
    <3> DEFINE v == [is[i] EXCEPT !.deny_write_cnt = @ - 1]
    <3>1. js = [is EXCEPT ![i] = v]
      BY <2>1 DEF file_allow_write
    <3>2. v \in Inode /\ v.deny_write_cnt = d /\ v.open_cnt = D[i] + O[i]
      BY <1>2, <1>3, <2>1 DEF Inode
    <3> QED
      BY <3>1, <3>2
  <2>2. CASE ~ g.deny_write
    <3>1. js = is /\ is = [is EXCEPT ![i] = is[i]]
      BY <2>2 DEF file_allow_write, Counted
    <3> QED
      BY <1>1, <1>3, <2>2, <3>1
  <2> QED
    BY <2>1, <2>2
<1>5. PICK v \in Inode : /\ js = [is EXCEPT ![i] = v]
                         /\ v.deny_write_cnt = d
                         /\ v.open_cnt = D[i] + O[i]
  BY <1>4
<1>6. js[i] = v /\ is \in [Sectors -> Inode \cup {NULL}]
  BY <1>1, <1>5 DEF Counted
<1>7. /\ (IF g.deny_write THEN Plus(D, i, -1) ELSE D) = [D EXCEPT ![i] = d]
      /\ (IF g.deny_write THEN O ELSE Plus(O, i, -1)) = [O EXCEPT ![i] = o]
  BY <1>1 DEF Plus
<1> HIDE DEF js, d, o
<1>8. \E w \in Inode \cup {NULL} :
        /\ inode_close(js, i) = [is EXCEPT ![i] = w]
        /\ IF w = NULL THEN d = 0 /\ o = 0
                       ELSE w.deny_write_cnt = d /\ w.open_cnt = d + o
  <2>1. CASE v.open_cnt = 1
    <3>1. inode_close(js, i) = [js EXCEPT ![i] = NULL]
      BY <1>6, <2>1 DEF inode_close
    <3>2. inode_close(js, i) = [is EXCEPT ![i] = NULL]
      BY <1>1, <1>5, <1>6, <3>1
    <3>3. d = 0 /\ o = 0
      BY <1>1, <1>2, <1>5, <2>1
    <3> QED
      BY <3>2, <3>3
  <2>2. CASE v.open_cnt # 1
    <3> DEFINE w == [v EXCEPT !.open_cnt = @ - 1]
    <3>1. v.open_cnt - 1 \in Nat \ {0} /\ v.open_cnt - 1 = d + o
      BY <1>1, <1>2, <1>5, <2>2 DEF Inode
    <3>2. w \in Inode /\ w.deny_write_cnt = d /\ w.open_cnt = d + o
      BY <1>5, <3>1 DEF Inode
    <3>3. inode_close(js, i)
            = [js EXCEPT ![i] = [js[i] EXCEPT !.open_cnt = @ - 1]]
      BY <1>6, <2>2 DEF inode_close
    <3>4. inode_close(js, i) = [js EXCEPT ![i] = w]
      BY <1>6, <3>3
    <3> HIDE DEF w
    <3>5. inode_close(js, i) = [is EXCEPT ![i] = w]
      BY <1>1, <1>5, <1>6, <3>4
    <3> QED
      BY <1>1, <3>2, <3>5
  <2> QED
    BY <2>1, <2>2
<1>9. PICK w \in Inode \cup {NULL} :
        /\ inode_close(js, i) = [is EXCEPT ![i] = w]
        /\ IF w = NULL THEN d = 0 /\ o = 0
                       ELSE w.deny_write_cnt = d /\ w.open_cnt = d + o
  BY <1>8
<1>10. Counted([is EXCEPT ![i] = w], [D EXCEPT ![i] = d], [O EXCEPT ![i] = o])
  BY <1>1, <1>2, <1>9, CountedUpdate
<1> QED
  BY <1>7, <1>9, <1>10 DEF js
-----------------------------------------------------------------------------
(* The two files there may be of an inode, and how many there are.         *)
Denier(i) == File(i, TRUE)
Sharer(i) == File(i, FALSE)
Denying == [i \in Sectors |-> OpenFiles(Denier(i))]
Others == [i \in Sectors |-> OpenFiles(Sharer(i))]

InodesOK == inodes \in [Sectors -> Inode \cup {NULL}]
InodesCounted == Counted(inodes, Denying, Others)

LEMMA FileFacts ==
  /\ \A i, j \in Sectors :
       /\ Denier(i) \in OpenFile /\ Sharer(i) \in OpenFile
       /\ Denier(i).inode = i /\ Denier(i).deny_write
       /\ Sharer(i).inode = i /\ ~ Sharer(i).deny_write
       /\ Denier(i) # Sharer(j)
       /\ Denier(i) = Denier(j) => i = j
       /\ Sharer(i) = Sharer(j) => i = j
  /\ NULL \notin OpenFile /\ NULL \notin Inode /\ NULL \notin Entry
<1>1. \A i \in Sectors : /\ Denier(i) \in OpenFile /\ Sharer(i) \in OpenFile
                         /\ Denier(i).inode = i /\ Denier(i).deny_write
                         /\ Sharer(i).inode = i /\ ~ Sharer(i).deny_write
  BY DEF File, OpenFile, Denier, Sharer
<1>2. \A i, j \in Sectors : /\ Denier(i) # Sharer(j)
                            /\ Denier(i) = Denier(j) => i = j
                            /\ Sharer(i) = Sharer(j) => i = j
  BY <1>1
<1> QED
  BY <1>1, <1>2, FilesAssumption

LEMMA FileIs ==
  ASSUME NEW f \in OpenFile
  PROVE  /\ f.inode \in Sectors
         /\ f = IF f.deny_write THEN Denier(f.inode) ELSE Sharer(f.inode)
  BY DEF File, OpenFile, Denier, Sharer

LEMMA CountsAreCounted ==
  IsSum => ((InodesOK /\ CountsMatch) <=> InodesCounted)
<1> SUFFICES ASSUME IsSum
             PROVE  (InodesOK /\ CountsMatch) <=> InodesCounted
  OBVIOUS
<1>1. \A i \in Sectors : Denier(i) \in OpenFile /\ Sharer(i) \in OpenFile
  BY FileFacts
<1>2. \A f \in OpenFile : OpenFiles(f) \in Nat
  BY DEF IsSum
<1>3. /\ \A i \in Sectors : /\ Denying[i] = OpenFiles(Denier(i))
                            /\ Others[i] = OpenFiles(Sharer(i))
      /\ Denying \in [Sectors -> Nat] /\ Others \in [Sectors -> Nat]
  BY <1>1, <1>2 DEF Denying, Others
<1>4. \A i \in Sectors : Denying[i] + Others[i] = 0
                           <=> Denying[i] = 0 /\ Others[i] = 0
  BY <1>3
<1> QED
  BY <1>3, <1>4 DEF InodesCounted, InodesOK, CountsMatch, Counted,
     Denier, Sharer

LEMMA CountsAreCountedNext ==
  IsSum' => ((InodesOK' /\ CountsMatch') <=> InodesCounted')
  BY CountsAreCounted, PTL

(* The files change by one more h and one less g.                          *)
Changed(h, g) ==
  \A f \in OpenFile : OpenFiles(f)' = OpenFiles(f) + One(h, f) - One(g, f)

LEMMA CountsType ==
  IsSum => Denying \in [Sectors -> Nat] /\ Others \in [Sectors -> Nat]
<1> SUFFICES ASSUME IsSum
             PROVE  Denying \in [Sectors -> Nat] /\ Others \in [Sectors -> Nat]
  OBVIOUS
<1>1. \A i \in Sectors : Denier(i) \in OpenFile /\ Sharer(i) \in OpenFile
  BY FileFacts
<1>2. \A f \in OpenFile : OpenFiles(f) \in Nat
  BY DEF IsSum
<1> QED
  BY <1>1, <1>2 DEF Denying, Others

LEMMA CountsTypeNext ==
  IsSum' => (Denying \in [Sectors -> Nat])' /\ (Others \in [Sectors -> Nat])'
  BY CountsType, PTL

LEMMA ChangedCounts ==
  ASSUME NEW h, NEW g, Changed(h, g), NEW i \in Sectors
  PROVE  /\ Denying'[i] = Denying[i] + One(h, Denier(i))
                             - One(g, Denier(i))
         /\ Others'[i] = Others[i] + One(h, Sharer(i))
                           - One(g, Sharer(i))
<1>1. Denier(i) \in OpenFile /\ Sharer(i) \in OpenFile
  BY FileFacts
<1>2. /\ OpenFiles(Denier(i))' = OpenFiles(Denier(i))
           + One(h, Denier(i)) - One(g, Denier(i))
      /\ OpenFiles(Sharer(i))' = OpenFiles(Sharer(i))
           + One(h, Sharer(i)) - One(g, Sharer(i))
  BY <1>1 DEF Changed
<1> QED
  BY <1>2 DEF Denying, Others

(* Which files of one inode are which.                                     *)
LEMMA OneIs ==
  ASSUME NEW i \in Sectors, NEW j \in Sectors
  PROVE  /\ One(Denier(i), Denier(j)) = IF j = i THEN 1 ELSE 0
         /\ One(Sharer(i), Sharer(j)) = IF j = i THEN 1 ELSE 0
         /\ One(Denier(i), Sharer(j)) = 0 /\ One(Sharer(i), Denier(j)) = 0
         /\ One(NULL, Denier(j)) = 0 /\ One(NULL, Sharer(j)) = 0
<1>1. /\ Denier(i) = Denier(j) <=> i = j
      /\ Sharer(i) = Sharer(j) <=> i = j
      /\ Denier(i) # Sharer(j) /\ Denier(j) # Sharer(i)
      /\ NULL # Denier(j) /\ NULL # Sharer(j)
  BY FileFacts
<1> QED
  BY <1>1 DEF One

(* Of an inode's files one comes, or one goes.                             *)
LEMMA OneMore ==
  ASSUME NEW C \in [Sectors -> Nat], NEW E \in [Sectors -> Nat],
         NEW i \in Sectors,
         \A j \in Sectors : E[j] = IF j = i THEN C[j] + 1 ELSE C[j]
  PROVE  E = Plus(C, i, 1)
  BY DEF Plus

LEMMA OneLess ==
  ASSUME NEW C \in [Sectors -> Nat], NEW E \in [Sectors -> Nat],
         NEW i \in Sectors,
         \A j \in Sectors : E[j] = IF j = i THEN C[j] + (-1) ELSE C[j]
  PROVE  E = Plus(C, i, -1)
  BY DEF Plus

LEMMA SameIs ==
  ASSUME NEW C \in [Sectors -> Nat], NEW E \in [Sectors -> Nat],
         \A j \in Sectors : E[j] = C[j]
  PROVE  E = C
  OBVIOUS

LEMMA Opens ==
  ASSUME IsSum, IsSum', NEW i \in Sectors, Changed(Sharer(i), NULL)
  PROVE  Denying' = Denying /\ Others' = Plus(Others, i, 1)
<1>1. /\ Denying \in [Sectors -> Nat] /\ Others \in [Sectors -> Nat]
      /\ Denying' \in [Sectors -> Nat] /\ Others' \in [Sectors -> Nat]
  BY CountsType, CountsTypeNext
<1>2. ASSUME NEW j \in Sectors
      PROVE  /\ Denying'[j] = Denying[j]
             /\ Others'[j] = IF j = i THEN Others[j] + 1 ELSE Others[j]
  <2>1. /\ One(Sharer(i), Denier(j)) = 0
        /\ One(Sharer(i), Sharer(j)) = IF j = i THEN 1 ELSE 0
        /\ One(NULL, Denier(j)) = 0 /\ One(NULL, Sharer(j)) = 0
    BY OneIs
  <2>2. /\ Denying'[j] = Denying[j] + One(Sharer(i), Denier(j))
                           - One(NULL, Denier(j))
        /\ Others'[j] = Others[j] + One(Sharer(i), Sharer(j))
                          - One(NULL, Sharer(j))
    BY ChangedCounts
  <2> QED
    BY <1>1, <2>1, <2>2
<1>3. Denying' = Denying
  BY <1>1, <1>2, SameIs
<1>4. \A j \in Sectors : Others'[j] = IF j = i THEN Others[j] + 1 ELSE Others[j]
  BY <1>2
<1>5. Others' = Plus(Others, i, 1)
  BY <1>1, <1>4, OneMore
<1> QED
  BY <1>3, <1>5

LEMMA Denies ==
  ASSUME IsSum, IsSum', NEW i \in Sectors,
         Changed(Denier(i), Sharer(i))
  PROVE  Denying' = Plus(Denying, i, 1) /\ Others' = Plus(Others, i, -1)
<1>1. /\ Denying \in [Sectors -> Nat] /\ Others \in [Sectors -> Nat]
      /\ Denying' \in [Sectors -> Nat] /\ Others' \in [Sectors -> Nat]
  BY CountsType, CountsTypeNext
<1>2. ASSUME NEW j \in Sectors
      PROVE  /\ Denying'[j] = IF j = i THEN Denying[j] + 1 ELSE Denying[j]
             /\ Others'[j] = IF j = i THEN Others[j] + (-1) ELSE Others[j]
  <2>1. /\ One(Sharer(i), Denier(j)) = 0
        /\ One(Sharer(i), Sharer(j)) = IF j = i THEN 1 ELSE 0
        /\ One(Denier(i), Denier(j)) = IF j = i THEN 1 ELSE 0
        /\ One(Denier(i), Sharer(j)) = 0
    BY OneIs
  <2>2. /\ Denying'[j] = Denying[j] + One(Denier(i), Denier(j))
                           - One(Sharer(i), Denier(j))
        /\ Others'[j] = Others[j] + One(Denier(i), Sharer(j))
                          - One(Sharer(i), Sharer(j))
    BY ChangedCounts
  <2> QED
    BY <1>1, <2>1, <2>2
<1>3. Denying' = Plus(Denying, i, 1)
  <2>1. \A j \in Sectors :
          Denying'[j] = IF j = i THEN Denying[j] + 1 ELSE Denying[j]
    BY <1>2
  <2> QED
    BY <1>1, <2>1, OneMore
<1>4. Others' = Plus(Others, i, -1)
  <2>1. \A j \in Sectors :
          Others'[j] = IF j = i THEN Others[j] + (-1) ELSE Others[j]
    BY <1>2
  <2> QED
    BY <1>1, <2>1, OneLess
<1> QED
  BY <1>3, <1>4

LEMMA Closes ==
  ASSUME IsSum, IsSum', NEW g \in OpenFile, Changed(NULL, g), OpenFiles(g) > 0
  PROVE  /\ Denying' = IF g.deny_write THEN Plus(Denying, g.inode, -1)
                                       ELSE Denying
         /\ Others' = IF g.deny_write THEN Others
                                      ELSE Plus(Others, g.inode, -1)
         /\ IF g.deny_write THEN Denying[g.inode] > 0
                            ELSE Others[g.inode] > 0
<1>1. /\ Denying \in [Sectors -> Nat] /\ Others \in [Sectors -> Nat]
      /\ Denying' \in [Sectors -> Nat] /\ Others' \in [Sectors -> Nat]
  BY CountsType, CountsTypeNext
<1> DEFINE i == g.inode
<1>2. /\ i \in Sectors
      /\ g = IF g.deny_write THEN Denier(i) ELSE Sharer(i)
  BY FileIs
<1> HIDE DEF i
<1>3. CASE g.deny_write
  <2>1. g = Denier(i)
    BY <1>2, <1>3
  <2>2. Denying[i] > 0
    BY <1>2, <2>1 DEF Denying
  <2>3. ASSUME NEW j \in Sectors
        PROVE  /\ Denying'[j] = IF j = i THEN Denying[j] + (-1) ELSE Denying[j]
               /\ Others'[j] = Others[j]
    <3>1. /\ One(NULL, Denier(j)) = 0 /\ One(NULL, Sharer(j)) = 0
          /\ One(g, Denier(j)) = IF j = i THEN 1 ELSE 0
          /\ One(g, Sharer(j)) = 0
      BY <1>2, <2>1, OneIs
    <3>2. /\ Denying'[j] =
               Denying[j] + One(NULL, Denier(j)) - One(g, Denier(j))
          /\ Others'[j] = Others[j] + One(NULL, Sharer(j)) - One(g, Sharer(j))
      BY ChangedCounts
    <3> QED
      BY <1>1, <3>1, <3>2
  <2>4. Denying' = Plus(Denying, i, -1)
    <3>1. \A j \in Sectors :
            Denying'[j] = IF j = i THEN Denying[j] + (-1) ELSE Denying[j]
      BY <2>3
    <3> QED
      BY <1>1, <1>2, <3>1, OneLess
  <2>5. Others' = Others
    BY <1>1, <2>3, SameIs
  <2> QED
    BY <1>3, <2>2, <2>4, <2>5 DEF i
<1>4. CASE ~ g.deny_write
  <2>1. g = Sharer(i)
    BY <1>2, <1>4
  <2>2. Others[i] > 0
    BY <1>2, <2>1 DEF Others
  <2>3. ASSUME NEW j \in Sectors
        PROVE  /\ Others'[j] = IF j = i THEN Others[j] + (-1) ELSE Others[j]
               /\ Denying'[j] = Denying[j]
    <3>1. /\ One(NULL, Denier(j)) = 0 /\ One(NULL, Sharer(j)) = 0
          /\ One(g, Sharer(j)) = IF j = i THEN 1 ELSE 0
          /\ One(g, Denier(j)) = 0
      BY <1>2, <2>1, OneIs
    <3>2. /\ Denying'[j] =
               Denying[j] + One(NULL, Denier(j)) - One(g, Denier(j))
          /\ Others'[j] = Others[j] + One(NULL, Sharer(j)) - One(g, Sharer(j))
      BY ChangedCounts
    <3> QED
      BY <1>1, <3>1, <3>2
  <2>4. Others' = Plus(Others, i, -1)
    <3>1. \A j \in Sectors :
            Others'[j] = IF j = i THEN Others[j] + (-1) ELSE Others[j]
      BY <2>3
    <3> QED
      BY <1>1, <1>2, <3>1, OneLess
  <2>5. Denying' = Denying
    BY <1>1, <2>3, SameIs
  <2> QED
    BY <1>4, <2>2, <2>4, <2>5 DEF i
<1> QED
  BY <1>3, <1>4
-----------------------------------------------------------------------------
(* The inodes are counted after an open, a close, a load that ends and     *)
(* whatever leaves the files as they are.                                  *)
LEMMA OpenStep ==
  ASSUME IsSum, IsSum', InodesCounted, NEW e \in Entry, NEW r \in BOOLEAN,
         Changed(Sharer(e.sector), NULL), inodes' = inode_open(inodes, e, r)
  PROVE  InodesCounted'
<1>1. e.sector \in Sectors
  BY DEF Entry
<1>2. Denying' = Denying /\ Others' = Plus(Others, e.sector, 1)
  BY <1>1, Opens
<1>3. Counted(inode_open(inodes, e, r), Denying, Plus(Others, e.sector, 1))
  BY CountedOpen DEF InodesCounted
<1> QED
  BY <1>2, <1>3 DEF InodesCounted

LEMMA CloseStep ==
  ASSUME IsSum, IsSum', InodesCounted, NEW g \in OpenFile, Changed(NULL, g),
         OpenFiles(g) > 0,
         inodes' = inode_close(file_allow_write(inodes, g), g.inode)
  PROVE  InodesCounted'
<1>1. /\ Denying' = IF g.deny_write THEN Plus(Denying, g.inode, -1)
                                    ELSE Denying
      /\ Others' = IF g.deny_write THEN Others
                                   ELSE Plus(Others, g.inode, -1)
      /\ IF g.deny_write THEN Denying[g.inode] > 0 ELSE Others[g.inode] > 0
  BY Closes
<1>2. Counted(inode_close(file_allow_write(inodes, g), g.inode),
              IF g.deny_write THEN Plus(Denying, g.inode, -1) ELSE Denying,
              IF g.deny_write THEN Others ELSE Plus(Others, g.inode, -1))
  BY <1>1, CountedClose DEF InodesCounted
<1> QED
  BY <1>1, <1>2 DEF InodesCounted

LEMMA DenyStep ==
  ASSUME IsSum, IsSum', InodesCounted, NEW i \in Sectors,
         Changed(Denier(i), Sharer(i)), OpenFiles(Sharer(i)) > 0,
         inodes' = [inodes EXCEPT ![i].deny_write_cnt = @ + 1]
  PROVE  InodesCounted' /\ inodes[i] # NULL
<1> DEFINE D == Denying
           O == Others
           v == [inodes[i] EXCEPT !.deny_write_cnt = @ + 1]
           d == D[i] + 1
           o == O[i] - 1
<1>1. Denying' = Plus(D, i, 1) /\ Others' = Plus(O, i, -1)
  BY Denies
<1>2. Counted(inodes, D, O)
  BY DEF InodesCounted
<1>3. O[i] > 0
  BY DEF Others
<1> HIDE DEF D, O
<1>4. /\ D[i] \in Nat /\ O[i] \in Nat /\ NULL \notin Inode
      /\ d \in Nat /\ o \in Nat /\ d + o = D[i] + O[i]
  BY <1>2, <1>3, FileFacts DEF Counted
<1>5. /\ inodes[i] # NULL /\ inodes[i] \in Inode
      /\ inodes[i].deny_write_cnt = D[i] /\ inodes[i].open_cnt = D[i] + O[i]
  BY <1>2, <1>3, <1>4 DEF Counted
<1>6. v \in Inode /\ v.deny_write_cnt = d /\ v.open_cnt = D[i] + O[i]
  BY <1>4, <1>5 DEF Inode
<1>7. inodes' = [inodes EXCEPT ![i] = v]
  OBVIOUS
<1>8. /\ Plus(D, i, 1) = [D EXCEPT ![i] = d]
      /\ Plus(O, i, -1) = [O EXCEPT ![i] = o]
  BY <1>4 DEF Plus
<1> HIDE DEF v, d, o
<1>9. v # NULL /\ v.open_cnt = d + o
  BY <1>4, <1>6
<1>10. Counted([inodes EXCEPT ![i] = v], [D EXCEPT ![i] = d],
               [O EXCEPT ![i] = o])
  BY <1>2, <1>4, <1>6, <1>9, CountedUpdate
<1> QED
  BY <1>1, <1>5, <1>7, <1>8, <1>10 DEF InodesCounted

(* Tables of files, before and after: h has come and g has gone.           *)
Moved(t, u, h, g) ==
  \A f \in OpenFile : Count(u, f) = Count(t, f) + One(h, f) - One(g, f)

LEMMA MovedTables ==
  ASSUME IsSum, IsSum', NEW h1, NEW g1, NEW h2, NEW g2, NEW h3, NEW g3, NEW h4,
         Moved(Descriptors, Descriptors', h1, g1),
         Moved(running, running', h2, g2), Moved(file, file', h3, g3),
         Moved(leaked, leaked', h4, NULL), NEW f \in OpenFile
  PROVE  OpenFiles(f)' = OpenFiles(f) + (One(h1, f) - One(g1, f))
                           + (One(h2, f) - One(g2, f))
                           + (One(h3, f) - One(g3, f)) + One(h4, f)
<1> DEFINE a == Count(Descriptors, f)
           b == Count(running, f)
           c == Count(file, f)
           d == Count(leaked, f)
<1>1. /\ OpenFiles(f) = Sum(f) /\ OpenFiles(f)' = Sum(f)'
      /\ a \in Nat /\ b \in Nat /\ c \in Nat /\ d \in Nat
  BY DEF IsSum
<1>2. Sum(f) = a + b + c + d /\ Sum(f)' = a' + b' + c' + d'
  BY DEF Sum
<1>3. /\ a' = Count(Descriptors', f) /\ b' = Count(running', f)
      /\ c' = Count(file', f) /\ d' = Count(leaked', f)
  BY DEF Count, Places
<1>4. One(NULL, f) = 0
  BY FileFacts DEF One
<1>5. /\ a' = a + One(h1, f) - One(g1, f)
      /\ b' = b + One(h2, f) - One(g2, f)
      /\ c' = c + One(h3, f) - One(g3, f)
      /\ d' = d + One(h4, f)
  <2>1. One(h1, f) \in Int /\ One(h2, f) \in Int /\ One(h3, f) \in Int
    BY DEF One
  <2>2. /\ One(g1, f) \in Int /\ One(g2, f) \in Int /\ One(g3, f) \in Int
        /\ One(h4, f) \in Int
    BY DEF One
  <2>3. a' = a + One(h1, f) - One(g1, f)
    BY <1>3 DEF Moved
  <2>4. b' = b + One(h2, f) - One(g2, f)
    BY <1>3 DEF Moved
  <2>5. c' = c + One(h3, f) - One(g3, f)
    BY <1>3 DEF Moved
  <2>6. d' = d + One(h4, f) - One(NULL, f)
    BY <1>3 DEF Moved
  <2> QED
    BY <1>1, <1>4, <2>1, <2>2, <2>3, <2>4, <2>5, <2>6
<1>6. /\ One(h1, f) \in Int /\ One(h2, f) \in Int /\ One(h3, f) \in Int
      /\ One(g1, f) \in Int /\ One(g2, f) \in Int /\ One(g3, f) \in Int
      /\ One(h4, f) \in Int
  BY DEF One
<1> HIDE DEF a, b, c, d
<1> QED
  BY <1>1, <1>2, <1>5, <1>6

LEMMA MovedNothing ==
  ASSUME NEW t, IsFiniteSet(DOMAIN t)
  PROVE  Moved(t, t, NULL, NULL)
<1> SUFFICES ASSUME NEW f \in OpenFile
             PROVE  Count(t, f) = Count(t, f) + One(NULL, f) - One(NULL, f)
  BY DEF Moved
<1>1. Count(t, f) \in Nat /\ One(NULL, f) \in {0, 1}
  BY CountType DEF One
<1> QED
  BY <1>1

LEMMA TablesFinite ==
  ASSUME TablesOK
  PROVE  /\ IsFiniteSet(DOMAIN Descriptors) /\ IsFiniteSet(DOMAIN running)
         /\ IsFiniteSet(DOMAIN file) /\ IsFiniteSet(DOMAIN leaked)
<1>1. /\ DOMAIN Descriptors = Slots /\ DOMAIN running = Procs
      /\ DOMAIN file = Procs /\ DOMAIN leaked = 1 .. Len(leaked)
      /\ Len(leaked) \in Nat
  BY DEF Descriptors, TablesOK
<1>2. IsFiniteSet(1 .. Len(leaked))
  BY <1>1, FS_Interval
<1> QED
  BY <1>1, <1>2, DiskAndTables
-----------------------------------------------------------------------------
(* The free map, of entries N with a name and P that are open, R the       *)
(* inodes removed, fr the free sectors and ls the lost ones.               *)
SectorsIn(e) == SectorsOf(e.sector, e.start)

FreeMap(N, P, R, fr, ls) ==
  /\ N \subseteq Entry /\ P \subseteq Entry
  /\ fr \subseteq Sectors /\ ls \subseteq Sectors
  /\ \A s \in fr : s \notin ls
  /\ \A e, f \in N \cup P :
       e # f => \A s \in SectorsIn(e) : s \notin SectorsIn(f)
  /\ \A e \in N \cup P : \A s \in SectorsIn(e) : s \notin fr /\ s \notin ls
  /\ \A s \in Sectors : s \in fr \/ s \in ls
                          \/ \E e \in N \cup P : s \in SectorsIn(e)
  /\ \A e \in P : e.sector \in R <=> e \notin N

LEMMA SectorsInFacts ==
  ASSUME NEW e \in Entry
  PROVE  SectorsIn(e) \subseteq Sectors /\ e.sector \in SectorsIn(e)
  BY DiskAndTables DEF Entry, SectorsIn, SectorsOf

LEMMA FreeMapOpen ==
  ASSUME NEW N, NEW P, NEW R, NEW fr, NEW ls, FreeMap(N, P, R, fr, ls),
         NEW e \in N, e.sector \notin R
  PROVE  FreeMap(N, P \cup {e}, R, fr, ls)
<1>1. N \cup (P \cup {e}) = N \cup P /\ e \in Entry
  BY DEF FreeMap
<1>2. \A f \in P \cup {e} : f.sector \in R <=> f \notin N
  BY DEF FreeMap
<1> QED
  BY <1>1, <1>2 DEF FreeMap

LEMMA FreeMapClose ==
  ASSUME NEW N, NEW P, NEW R, NEW fr, NEW ls, FreeMap(N, P, R, fr, ls),
         NEW o \in P
  PROVE  FreeMap(N, P \ {o}, R \ {o.sector},
                 fr \cup (IF o.sector \in R THEN SectorsIn(o) ELSE {}), ls)
<1> DEFINE Q == P \ {o}
           T == R \ {o.sector}
<1>1. /\ o \in Entry /\ SectorsIn(o) \subseteq Sectors
      /\ o.sector \in SectorsIn(o) /\ (o.sector \in R <=> o \notin N)
  BY SectorsInFacts DEF FreeMap
<1>2. \A f \in N \cup P :
        f # o => /\ f.sector # o.sector
                 /\ \A s \in SectorsIn(o) : s \notin SectorsIn(f)
  <2> SUFFICES ASSUME NEW f \in N \cup P, f # o
               PROVE  /\ f.sector # o.sector
                      /\ \A s \in SectorsIn(o) : s \notin SectorsIn(f)
    OBVIOUS
  <2>1. \A s \in SectorsIn(o) : s \notin SectorsIn(f)
    BY DEF FreeMap
  <2>2. f \in Entry
    BY DEF FreeMap
  <2>3. f.sector \in SectorsIn(f)
    BY <2>2, SectorsInFacts
  <2> QED
    BY <1>1, <2>1, <2>3
<1>3. \A f \in Q : f.sector \in T <=> f \notin N
  BY <1>2 DEF FreeMap
<1>4. CASE o \in N
  <2>1. N \cup Q = N \cup P
    BY <1>4
  <2>2. fr \cup (IF o.sector \in R THEN SectorsIn(o) ELSE {}) = fr
    BY <1>1, <1>4
  <2> HIDE DEF T
  <2>3. Q \subseteq Entry
    BY DEF FreeMap
  <2> HIDE DEF Q
  <2> QED
    BY <1>3, <2>1, <2>2, <2>3 DEF FreeMap, Q, T
<1>5. CASE o \notin N
  <2> DEFINE g == fr \cup SectorsIn(o)
  <2>1. fr \cup (IF o.sector \in R THEN SectorsIn(o) ELSE {}) = g
    BY <1>1, <1>5
  <2>2. \A f : f \in N \cup Q <=> f \in N \cup P /\ f # o
    BY <1>5
  <2>3. /\ N \subseteq Entry /\ Q \subseteq Entry
        /\ g \subseteq Sectors /\ ls \subseteq Sectors
    BY <1>1 DEF FreeMap
  <2>4. \A s \in g : s \notin ls
    BY DEF FreeMap
  <2>5. \A e, f \in N \cup Q :
          e # f => \A s \in SectorsIn(e) : s \notin SectorsIn(f)
    BY <2>2 DEF FreeMap
  <2>6. \A e \in N \cup Q : \A s \in SectorsIn(e) : s \notin g /\ s \notin ls
    BY <1>2, <2>2 DEF FreeMap
  <2>7. \A s \in Sectors : s \in g \/ s \in ls
                             \/ \E e \in N \cup Q : s \in SectorsIn(e)
    BY <2>2 DEF FreeMap
  <2> HIDE DEF g, Q, T
  <2>8. FreeMap(N, Q, T, g, ls)
    BY <1>3, <2>3, <2>4, <2>5, <2>6, <2>7 DEF FreeMap
  <2> QED
    BY <2>1, <2>8 DEF Q, T
<1> QED
  BY <1>4, <1>5

(* A name goes, of a file that nobody has open and of one that is open.    *)
LEMMA FreeMapRemove ==
  ASSUME NEW N, NEW P, NEW R, NEW fr, NEW ls, FreeMap(N, P, R, fr, ls),
         NEW e \in N
  PROVE  /\ e \notin P =>
              FreeMap(N \ {e}, P, R, fr \cup SectorsIn(e), ls)
         /\ e \in P => FreeMap(N \ {e}, P, R \cup {e.sector}, fr, ls)
<1> DEFINE M == N \ {e}
<1>1. e \in Entry /\ SectorsIn(e) \subseteq Sectors /\ e.sector \in SectorsIn(e)
  BY SectorsInFacts DEF FreeMap
<1>2. \A f \in N \cup P :
        f # e => /\ f.sector # e.sector
                 /\ \A s \in SectorsIn(e) : s \notin SectorsIn(f)
  <2> SUFFICES ASSUME NEW f \in N \cup P, f # e
               PROVE  /\ f.sector # e.sector
                      /\ \A s \in SectorsIn(e) : s \notin SectorsIn(f)
    OBVIOUS
  <2>1. \A s \in SectorsIn(e) : s \notin SectorsIn(f)
    BY DEF FreeMap
  <2>2. f \in Entry
    BY DEF FreeMap
  <2>3. f.sector \in SectorsIn(f)
    BY <2>2, SectorsInFacts
  <2> QED
    BY <1>1, <2>1, <2>3
<1>3. ASSUME e \notin P
      PROVE  FreeMap(M, P, R, fr \cup SectorsIn(e), ls)
  <2> DEFINE g == fr \cup SectorsIn(e)
  <2>1. \A f : f \in M \cup P <=> f \in N \cup P /\ f # e
    BY <1>3
  <2>2. /\ M \subseteq Entry /\ P \subseteq Entry
        /\ g \subseteq Sectors /\ ls \subseteq Sectors
    BY <1>1 DEF FreeMap
  <2>3. \A s \in g : s \notin ls
    BY DEF FreeMap
  <2>4. \A d, f \in M \cup P :
          d # f => \A s \in SectorsIn(d) : s \notin SectorsIn(f)
    BY <2>1 DEF FreeMap
  <2>5. \A d \in M \cup P : \A s \in SectorsIn(d) : s \notin g /\ s \notin ls
    BY <1>2, <2>1 DEF FreeMap
  <2>6. \A s \in Sectors : s \in g \/ s \in ls
                             \/ \E d \in M \cup P : s \in SectorsIn(d)
    BY <2>1 DEF FreeMap
  <2>7. \A d \in P : d.sector \in R <=> d \notin M
    BY <1>3 DEF FreeMap
  <2> HIDE DEF g, M
  <2>8. FreeMap(M, P, R, g, ls)
    BY <2>2, <2>3, <2>4, <2>5, <2>6, <2>7 DEF FreeMap
  <2> QED
    BY <2>8 DEF g
<1>4. ASSUME e \in P
      PROVE  FreeMap(M, P, R \cup {e.sector}, fr, ls)
  <2>1. M \cup P = N \cup P /\ M \subseteq Entry
    BY <1>4 DEF FreeMap
  <2>2. \A d \in P : d.sector \in R \cup {e.sector} <=> d \notin M
    BY <1>2 DEF FreeMap
  <2> HIDE DEF M
  <2> QED
    BY <2>1, <2>2 DEF FreeMap
<1> QED
  BY <1>3, <1>4

LEMMA FreeMapCreate ==
  ASSUME NEW N, NEW P, NEW R, NEW fr, NEW ls, FreeMap(N, P, R, fr, ls),
         NEW e \in Entry, SectorsIn(e) \subseteq fr
  PROVE  FreeMap(N \cup {e}, P, R, fr \ SectorsIn(e), ls)
<1> DEFINE M == N \cup {e}
           g == fr \ SectorsIn(e)
<1>1. SectorsIn(e) \subseteq Sectors /\ e.sector \in SectorsIn(e)
  BY SectorsInFacts
<1>2. \A f \in N \cup P : /\ f # e
                          /\ \A s \in SectorsIn(f) : s \notin SectorsIn(e)
  BY <1>1 DEF FreeMap
<1>3. /\ M \subseteq Entry /\ P \subseteq Entry
      /\ g \subseteq Sectors /\ ls \subseteq Sectors
      /\ \A s \in g : s \notin ls
  BY DEF FreeMap
<1>4. \A d, f \in M \cup P :
        d # f => \A s \in SectorsIn(d) : s \notin SectorsIn(f)
  <2> SUFFICES ASSUME NEW d \in M \cup P, NEW f \in M \cup P, d # f,
                      NEW s \in SectorsIn(d)
               PROVE  s \notin SectorsIn(f)
    OBVIOUS
  <2>1. CASE d = e
    BY <1>2, <2>1
  <2>2. CASE f = e
    BY <1>2, <2>2
  <2>3. CASE d # e /\ f # e
    BY <2>3 DEF FreeMap
  <2> QED
    BY <2>1, <2>2, <2>3
<1>5. \A d \in M \cup P : \A s \in SectorsIn(d) : s \notin g /\ s \notin ls
  BY DEF FreeMap
<1>6. \A s \in Sectors : s \in g \/ s \in ls
                           \/ \E d \in M \cup P : s \in SectorsIn(d)
  <2> SUFFICES ASSUME NEW s \in Sectors, s \notin g, s \notin ls
               PROVE  \E d \in M \cup P : s \in SectorsIn(d)
    OBVIOUS
  <2>1. CASE s \in SectorsIn(e)
    BY <2>1
  <2>2. CASE s \notin SectorsIn(e)
    <3>1. s \notin fr
      BY <2>2
    <3>2. \E d \in N \cup P : s \in SectorsIn(d)
      BY <3>1 DEF FreeMap
    <3> QED
      BY <3>2
  <2> QED
    BY <2>1, <2>2
<1>7. \A d \in P : d.sector \in R <=> d \notin M
  BY <1>2 DEF FreeMap
<1> HIDE DEF M, g
<1>8. FreeMap(M, P, R, g, ls)
  BY <1>3, <1>4, <1>5, <1>6, <1>7 DEF FreeMap
<1> QED
  BY <1>8 DEF M, g

LEMMA FreeMapLose ==
  ASSUME NEW N, NEW P, NEW R, NEW fr, NEW ls, FreeMap(N, P, R, fr, ls),
         NEW T, T \subseteq fr
  PROVE  FreeMap(N, P, R, fr \ T, ls \cup T)
<1> DEFINE g == fr \ T
           k == ls \cup T
<1>1. \A s : /\ s \in g <=> s \in fr /\ s \notin T
             /\ s \in k <=> s \in ls \/ s \in T
             /\ s \in T => s \in fr
  OBVIOUS
<1>2. /\ g \subseteq Sectors /\ k \subseteq Sectors
      /\ \A s \in g : s \notin k
  BY DEF FreeMap
<1> HIDE DEF g, k
<1>3. /\ \A e \in N \cup P : \A s \in SectorsIn(e) : s \notin g /\ s \notin k
      /\ \A s \in Sectors : s \in g \/ s \in k
                              \/ \E e \in N \cup P : s \in SectorsIn(e)
  BY <1>1 DEF FreeMap
<1>4. FreeMap(N, P, R, g, k)
  BY <1>2, <1>3 DEF FreeMap
<1> QED
  BY <1>4 DEF g, k
-----------------------------------------------------------------------------
(* The entries and the removed inodes of a table of inodes, and how they   *)
(* change with it.                                                         *)
Tables == [Sectors -> Inode \cup {NULL}]
EntryOf(is, i) == [sector |-> i, start |-> is[i].start]
OpenedIn(is) == {EntryOf(is, i) : i \in {j \in Sectors : is[j] # NULL}}
RemovedIn(is) == {i \in Sectors : is[i] # NULL /\ is[i].removed}

(* What the free map depends on in a table.                                *)
SameDisk(is, js) ==
  \A i \in Sectors : /\ is[i] = NULL <=> js[i] = NULL
                     /\ is[i] # NULL => /\ js[i].start = is[i].start
                                        /\ js[i].removed = is[i].removed

LEMMA SameDiskSame ==
  ASSUME NEW is \in Tables, NEW js \in Tables, SameDisk(is, js)
  PROVE  OpenedIn(js) = OpenedIn(is) /\ RemovedIn(js) = RemovedIn(is)
<1>1. \A i \in Sectors : is[i] # NULL => EntryOf(js, i) = EntryOf(is, i)
  BY DEF SameDisk, EntryOf
<1>2. \A i \in Sectors : is[i] # NULL <=> js[i] # NULL
  BY DEF SameDisk
<1>3. OpenedIn(js) = OpenedIn(is)
  BY <1>1, <1>2 DEF OpenedIn
<1>4. RemovedIn(js) = RemovedIn(is)
  BY DEF SameDisk, RemovedIn
<1> QED
  BY <1>3, <1>4

LEMMA OpenedUpdate ==
  ASSUME NEW is \in Tables, NEW i \in Sectors, NEW v \in Inode \cup {NULL},
         NEW js, js[i] = v, \A j \in Sectors : j # i => js[j] = is[j]
  PROVE  /\ is[i] = NULL /\ v # NULL =>
              /\ OpenedIn(js) = OpenedIn(is) \cup {EntryOf(js, i)}
              /\ ~ v.removed => RemovedIn(js) = RemovedIn(is)
         /\ is[i] # NULL /\ v = NULL =>
              /\ OpenedIn(js) = OpenedIn(is) \ {EntryOf(is, i)}
              /\ RemovedIn(js) = RemovedIn(is) \ {i}
         /\ is[i] # NULL /\ v # NULL /\ v.start = is[i].start =>
              /\ OpenedIn(js) = OpenedIn(is)
              /\ v.removed => RemovedIn(js) = RemovedIn(is) \cup {i}
              /\ v.removed = is[i].removed => RemovedIn(js) = RemovedIn(is)
<1>1. /\ js[i] = v /\ \A j \in Sectors : j # i => js[j] = is[j]
  OBVIOUS
<1>2. /\ \A j \in Sectors : j # i => EntryOf(js, j) = EntryOf(is, j)
      /\ \A j \in Sectors : j # i => EntryOf(is, j) # EntryOf(is, i)
  BY <1>1 DEF EntryOf
<1>3. ASSUME is[i] = NULL, v # NULL
      PROVE  /\ OpenedIn(js) = OpenedIn(is) \cup {EntryOf(js, i)}
             /\ ~ v.removed => RemovedIn(js) = RemovedIn(is)
  <2>1. OpenedIn(js) = OpenedIn(is) \cup {EntryOf(js, i)}
    <3>1. \A x : x \in OpenedIn(js) <=>
            \E j \in Sectors : js[j] # NULL /\ x = EntryOf(js, j)
      BY DEF OpenedIn
    <3>2. \A x : x \in OpenedIn(is) <=>
            \E j \in Sectors : is[j] # NULL /\ x = EntryOf(is, j)
      BY DEF OpenedIn
    <3>3. \A x : x \in OpenedIn(js) <=> x \in OpenedIn(is) \/ x = EntryOf(js, i)
      BY <1>1, <1>2, <1>3, <3>1, <3>2
    <3> QED
      BY <3>3
  <2>2. ~ v.removed => RemovedIn(js) = RemovedIn(is)
    BY <1>1, <1>3 DEF RemovedIn
  <2> QED
    BY <2>1, <2>2
<1>4. ASSUME is[i] # NULL, v = NULL
      PROVE  /\ OpenedIn(js) = OpenedIn(is) \ {EntryOf(is, i)}
             /\ RemovedIn(js) = RemovedIn(is) \ {i}
  <2>1. OpenedIn(js) = OpenedIn(is) \ {EntryOf(is, i)}
    <3>1. \A x : x \in OpenedIn(js) <=>
            \E j \in Sectors : js[j] # NULL /\ x = EntryOf(js, j)
      BY DEF OpenedIn
    <3>2. \A x : x \in OpenedIn(is) <=>
            \E j \in Sectors : is[j] # NULL /\ x = EntryOf(is, j)
      BY DEF OpenedIn
    <3>3. \A x : x \in OpenedIn(js) <=> x \in OpenedIn(is) /\ x # EntryOf(is, i)
      BY <1>1, <1>2, <1>4, <3>1, <3>2
    <3> QED
      BY <3>3
  <2>2. RemovedIn(js) = RemovedIn(is) \ {i}
    BY <1>1, <1>4 DEF RemovedIn
  <2> QED
    BY <2>1, <2>2
<1>5. ASSUME is[i] # NULL, v # NULL, v.start = is[i].start
      PROVE  /\ OpenedIn(js) = OpenedIn(is)
             /\ v.removed => RemovedIn(js) = RemovedIn(is) \cup {i}
             /\ v.removed = is[i].removed => RemovedIn(js) = RemovedIn(is)
  <2>1. EntryOf(js, i) = EntryOf(is, i)
    BY <1>1, <1>5 DEF EntryOf
  <2>2. OpenedIn(js) = OpenedIn(is)
    <3>1. \A x : x \in OpenedIn(js) <=>
            \E j \in Sectors : js[j] # NULL /\ x = EntryOf(js, j)
      BY DEF OpenedIn
    <3>2. \A x : x \in OpenedIn(is) <=>
            \E j \in Sectors : is[j] # NULL /\ x = EntryOf(is, j)
      BY DEF OpenedIn
    <3>3. \A x : x \in OpenedIn(js) <=> x \in OpenedIn(is)
      BY <1>1, <1>2, <1>5, <2>1, <3>1, <3>2
    <3> QED
      BY <3>3
  <2>3. v.removed => RemovedIn(js) = RemovedIn(is) \cup {i}
    BY <1>1, <1>5 DEF RemovedIn
  <2>4. v.removed = is[i].removed => RemovedIn(js) = RemovedIn(is)
    BY <1>1, <1>5 DEF RemovedIn
  <2> QED
    BY <2>2, <2>3, <2>4
<1> QED
  BY <1>3, <1>4, <1>5

(* The free map's view of an open, a close and a removal.                  *)
LEMMA MapOpen ==
  ASSUME NEW is \in Tables, NEW N, NEW fr, NEW ls,
         FreeMap(N, OpenedIn(is), RemovedIn(is), fr, ls),
         NEW e \in N, NEW r \in BOOLEAN
  PROVE  LET js == inode_open(is, e, r)
         IN  FreeMap(N, OpenedIn(js), RemovedIn(js), fr, ls)
<1> DEFINE i == e.sector
           js == inode_open(is, e, r)
<1>1. /\ e \in Entry /\ i \in Sectors /\ e.start \in Sectors \cup {0}
      /\ NULL \notin Inode /\ e = [sector |-> i, start |-> e.start]
  BY FileFacts DEF FreeMap, Entry
<1>2. CASE is[i] # NULL
  <2> DEFINE v == [is[i] EXCEPT !.open_cnt = @ + 1]
  <2>1. /\ is[i] \in Inode /\ js = [is EXCEPT ![i] = v]
    BY <1>1, <1>2 DEF Tables, inode_open
  <2>2. v \in Inode /\ v.start = is[i].start /\ v.removed = is[i].removed
    BY <2>1 DEF Inode
  <2> HIDE DEF v, js
  <2>3. v # NULL
    BY <1>1, <2>2
  <2>8. /\ js[i] = v /\ \A j \in Sectors : j # i => js[j] = is[j]
    BY <1>1, <2>1 DEF Tables
  <2>4. OpenedIn(js) = OpenedIn(is) /\ RemovedIn(js) = RemovedIn(is)
    BY <1>1, <1>2, <2>2, <2>3, <2>8, OpenedUpdate
  <2> QED
    BY <2>4 DEF js
<1>3. CASE is[i] = NULL
  <2> DEFINE v == [start |-> e.start, ready |-> r, open_cnt |-> 1,
                   deny_write_cnt |-> 0, removed |-> FALSE]
  <2>1. js = [is EXCEPT ![i] = v]
    BY <1>3 DEF inode_open
  <2>2. v \in Inode /\ v.start = e.start /\ ~ v.removed
    BY <1>1 DEF Inode
  <2> HIDE DEF v, js
  <2>3. v # NULL /\ js[i] = v
    BY <1>1, <2>1, <2>2 DEF Tables
  <2>4. EntryOf(js, i) = e
    BY <1>1, <2>2, <2>3 DEF EntryOf
  <2>9. /\ js[i] = v /\ \A j \in Sectors : j # i => js[j] = is[j]
    BY <1>1, <2>1 DEF Tables
  <2>5. /\ OpenedIn(js) = OpenedIn(is) \cup {EntryOf(js, i)}
        /\ RemovedIn(js) = RemovedIn(is)
    BY <1>1, <1>3, <2>2, <2>3, <2>9, OpenedUpdate
  <2>6. i \notin RemovedIn(is)
    BY <1>3 DEF RemovedIn
  <2>7. FreeMap(N, OpenedIn(is) \cup {e}, RemovedIn(is), fr, ls)
    BY <2>6, FreeMapOpen
  <2> QED
    BY <2>4, <2>5, <2>7 DEF js
<1> QED
  BY <1>2, <1>3

LEMMA MapClose ==
  ASSUME NEW is \in Tables, NEW N, NEW fr, NEW ls,
         FreeMap(N, OpenedIn(is), RemovedIn(is), fr, ls),
         NEW g \in OpenFile, is[g.inode] # NULL,
         g.deny_write => is[g.inode].deny_write_cnt > 0,
         NEW js \in Tables,
         js = inode_close(file_allow_write(is, g), g.inode)
  PROVE  FreeMap(N, OpenedIn(js), RemovedIn(js),
                 fr \cup Released(is, g.inode), ls)
<1> DEFINE i == g.inode
           ks == file_allow_write(is, g)
<1>1. /\ i \in Sectors /\ is[i] \in Inode /\ NULL \notin Inode
  BY FileFacts DEF OpenFile, Tables
<1> DEFINE v == ks[i]
<1>2. /\ v \in Inode
      /\ v.start = is[i].start /\ v.open_cnt = is[i].open_cnt
      /\ v.removed = is[i].removed
      /\ \A j \in Sectors : j # i => ks[j] = is[j]
      /\ DOMAIN ks = Sectors
  <2>1. CASE g.deny_write
    <3>1. ks = [is EXCEPT ![i].deny_write_cnt = @ - 1]
      BY <2>1 DEF file_allow_write
    <3>2. /\ v = [is[i] EXCEPT !.deny_write_cnt = @ - 1]
          /\ \A j \in Sectors : j # i => ks[j] = is[j]
          /\ DOMAIN ks = Sectors
      BY <1>1, <3>1 DEF Tables
    <3>3. is[i].deny_write_cnt - 1 \in Nat
      BY <1>1, <2>1 DEF Inode
    <3> QED
      BY <1>1, <3>2, <3>3 DEF Inode
  <2>2. CASE ~ g.deny_write
    <3>1. ks = is
      BY <2>2 DEF file_allow_write
    <3> QED
      BY <1>1, <3>1 DEF Tables
  <2> QED
    BY <2>1, <2>2
<1>3. /\ ks[i].start = is[i].start /\ ks[i].open_cnt = is[i].open_cnt
      /\ ks[i].removed = is[i].removed /\ ks[i] \in Inode
  BY <1>2
<1> HIDE DEF ks, v
<1>4. js = inode_close(ks, i)
  BY DEF ks
<1>5. CASE is[i].open_cnt = 1
  <2>1. js = [ks EXCEPT ![i] = NULL]
    BY <1>3, <1>4, <1>5 DEF inode_close
  <2>2. js = [is EXCEPT ![i] = NULL]
    BY <1>1, <1>2, <2>1 DEF Tables
  <2>8. /\ js[i] = NULL /\ \A j \in Sectors : j # i => js[j] = is[j]
    BY <1>1, <2>2 DEF Tables
  <2>3. /\ OpenedIn(js) = OpenedIn(is) \ {EntryOf(is, i)}
        /\ RemovedIn(js) = RemovedIn(is) \ {i}
    BY <1>1, <2>8, OpenedUpdate
  <2> DEFINE o == EntryOf(is, i)
  <2>4. o \in OpenedIn(is) /\ o.sector = i /\ o.start = is[i].start
    BY <1>1 DEF OpenedIn, EntryOf
  <2>5. i \in RemovedIn(is) <=> is[i].removed
    BY <1>1 DEF RemovedIn
  <2>6. Released(is, i) = IF o.sector \in RemovedIn(is)
                          THEN SectorsIn(o) ELSE {}
    BY <1>5, <2>4, <2>5 DEF Released, SectorsIn
  <2> HIDE DEF o
  <2>7. FreeMap(N, OpenedIn(is) \ {o}, RemovedIn(is) \ {o.sector},
                fr \cup (IF o.sector \in RemovedIn(is)
                         THEN SectorsIn(o) ELSE {}), ls)
    BY <2>4, FreeMapClose
  <2> QED
    BY <2>3, <2>4, <2>6, <2>7 DEF o
<1>6. CASE is[i].open_cnt # 1
  <2>1. js = [ks EXCEPT ![i] = [ks[i] EXCEPT !.open_cnt = @ - 1]]
    BY <1>3, <1>4, <1>6 DEF inode_close
  <2>2. js[i] = [ks[i] EXCEPT !.open_cnt = @ - 1]
    BY <1>1, <1>2, <2>1
  <2>3. ks[i].open_cnt - 1 \in Nat \ {0}
    BY <1>3, <1>6 DEF Inode
  <2>4. /\ js[i] \in Inode /\ js[i].start = is[i].start
        /\ js[i].removed = is[i].removed
    BY <1>3, <2>2, <2>3 DEF Inode
  <2>5. SameDisk(is, js)
    BY <1>1, <1>2, <2>1, <2>4 DEF SameDisk
  <2>6. Released(is, i) = {}
    BY <1>6 DEF Released
  <2> QED
    BY <2>5, <2>6, SameDiskSame
<1> QED
  BY <1>5, <1>6

Marked(is, e) == [inode_open(is, e, TRUE) EXCEPT ![e.sector].removed = TRUE]

(* What remove() does to the table: its inode, if it is open, is marked.   *)
LEMMA RemoveIs ==
  ASSUME NEW is \in Tables, NEW e \in Entry,
         NEW ks, ks = Marked(is, e), NEW js,
         js = inode_close(ks, e.sector)
  PROVE  /\ is[e.sector] = NULL =>
              js = is /\ Released(ks, e.sector) = SectorsIn(e)
         /\ is[e.sector] # NULL =>
              /\ \E v \in Inode :
                   /\ js = [is EXCEPT ![e.sector] = v]
                   /\ v.start = is[e.sector].start /\ v.removed
                   /\ v.open_cnt = is[e.sector].open_cnt
                   /\ v.deny_write_cnt = is[e.sector].deny_write_cnt
              /\ Released(ks, e.sector) = {}
<1> DEFINE i == e.sector
           ls == inode_open(is, e, TRUE)
<1>1. /\ i \in Sectors /\ e.start \in Sectors \cup {0} /\ NULL \notin Inode
      /\ DOMAIN is = Sectors
  BY FileFacts DEF Entry, Tables
<1>2. ASSUME is[i] = NULL
      PROVE  js = is /\ Released(ks, i) = SectorsIn(e)
  <2> DEFINE u == [start |-> e.start, ready |-> TRUE, open_cnt |-> 1,
                   deny_write_cnt |-> 0, removed |-> FALSE]
             w == [u EXCEPT !.removed = TRUE]
  <2>1. ls = [is EXCEPT ![i] = u]
    BY <1>2 DEF inode_open
  <2>2. w.start = e.start /\ w.open_cnt = 1 /\ w.removed = TRUE
    OBVIOUS
  <2>3. ks = [ls EXCEPT ![i] = [ls[i] EXCEPT !.removed = TRUE]] /\ ls[i] = u
    BY <1>1, <2>1 DEF Marked
  <2> HIDE DEF u, ls
  <2>4. /\ ks[i] = w /\ DOMAIN ks = Sectors
        /\ \A j \in Sectors : j # i => ks[j] = is[j]
    BY <1>1, <2>1, <2>3
  <2> HIDE DEF w
  <2>5. js = [ks EXCEPT ![i] = NULL]
    BY <2>2, <2>4 DEF inode_close
  <2>6. js = is
    <3>1. js = [j \in Sectors |-> is[j]]
      BY <1>2, <2>4, <2>5
    <3>2. is = [j \in Sectors |-> is[j]]
      BY DEF Tables
    <3> QED
      BY <3>1, <3>2
  <2>7. Released(ks, i) = SectorsIn(e)
    BY <2>2, <2>4 DEF Released, SectorsIn
  <2> QED
    BY <2>6, <2>7
<1>3. ASSUME is[i] # NULL
      PROVE  /\ \E v \in Inode :
                   /\ js = [is EXCEPT ![i] = v]
                   /\ v.start = is[i].start /\ v.removed
                   /\ v.open_cnt = is[i].open_cnt
                   /\ v.deny_write_cnt = is[i].deny_write_cnt
             /\ Released(ks, i) = {}
  <2>1. is[i] \in Inode
    BY <1>1, <1>3 DEF Tables
  <2> DEFINE u == [is[i] EXCEPT !.open_cnt = @ + 1]
             w == [u EXCEPT !.removed = TRUE]
             v == [is[i] EXCEPT !.removed = TRUE]
  <2>2. ls = [is EXCEPT ![i] = u]
    BY <1>3 DEF inode_open
  <2>3. /\ u \in Inode /\ u.open_cnt = is[i].open_cnt + 1
        /\ u.start = is[i].start /\ u.ready = is[i].ready
        /\ u.deny_write_cnt = is[i].deny_write_cnt
        /\ is[i].open_cnt \in Nat \ {0}
    BY <2>1 DEF Inode
  <2>4. /\ v \in Inode /\ v.start = is[i].start /\ v.removed
        /\ v.open_cnt = is[i].open_cnt /\ v.ready = is[i].ready
        /\ v.deny_write_cnt = is[i].deny_write_cnt
    BY <2>1 DEF Inode
  <2>5. ks = [ls EXCEPT ![i] = [ls[i] EXCEPT !.removed = TRUE]] /\ ls[i] = u
    BY <1>1, <2>2 DEF Marked
  <2> HIDE DEF u, v, ls
  <2>6. /\ w \in Inode /\ w.open_cnt = u.open_cnt /\ w.removed
        /\ w.start = u.start /\ w.ready = u.ready
        /\ w.deny_write_cnt = u.deny_write_cnt
    BY <2>3 DEF Inode
  <2>7. /\ ks[i] = w /\ DOMAIN ks = Sectors
        /\ \A j \in Sectors : j # i => ks[j] = is[j]
    BY <1>1, <2>2, <2>5
  <2> HIDE DEF w
  <2>8. w.open_cnt # 1
    BY <2>3, <2>6
  <2>9. js = [ks EXCEPT ![i] = [ks[i] EXCEPT !.open_cnt = @ - 1]]
    BY <2>7, <2>8 DEF inode_close
  <2>10. [w EXCEPT !.open_cnt = @ - 1] = v
    <3>1. w.open_cnt - 1 = v.open_cnt
      BY <2>3, <2>4, <2>6
    <3> DEFINE x == [w EXCEPT !.open_cnt = @ - 1]
    <3>2. /\ x \in Inode /\ x.open_cnt = v.open_cnt /\ x.removed = w.removed
          /\ x.start = w.start /\ x.ready = w.ready
          /\ x.deny_write_cnt = w.deny_write_cnt
      BY <2>4, <2>6, <3>1 DEF Inode
    <3> HIDE DEF x
    <3>3. /\ x.start = v.start /\ x.ready = v.ready /\ x.open_cnt = v.open_cnt
          /\ x.deny_write_cnt = v.deny_write_cnt /\ x.removed = v.removed
      BY <2>3, <2>4, <2>6, <3>2 DEF Inode
    <3>4. \A y \in Inode :
            y = [start |-> y.start, ready |-> y.ready, open_cnt |-> y.open_cnt,
                 deny_write_cnt |-> y.deny_write_cnt, removed |-> y.removed]
      BY DEF Inode
    <3>5. x = [start |-> x.start, ready |-> x.ready, open_cnt |-> x.open_cnt,
               deny_write_cnt |-> x.deny_write_cnt, removed |-> x.removed]
      BY <3>2, <3>4
    <3>6. v = [start |-> v.start, ready |-> v.ready, open_cnt |-> v.open_cnt,
               deny_write_cnt |-> v.deny_write_cnt, removed |-> v.removed]
      BY <2>4, <3>4
    <3>7. x = v
      BY <3>3, <3>5, <3>6
    <3> QED
      BY <3>7 DEF x
  <2>11. js = [is EXCEPT ![i] = v]
    BY <1>1, <2>7, <2>9, <2>10
  <2>12. Released(ks, i) = {}
    BY <2>7, <2>8 DEF Released
  <2> QED
    BY <2>4, <2>11, <2>12
<1> QED
  BY <1>2, <1>3

LEMMA MapRemove ==
  ASSUME NEW is \in Tables, NEW N, NEW fr, NEW ls,
         FreeMap(N, OpenedIn(is), RemovedIn(is), fr, ls), NEW e \in N,
         NEW ks, ks = Marked(is, e), NEW js,
         js = inode_close(ks, e.sector)
  PROVE  FreeMap(N \ {e}, OpenedIn(js), RemovedIn(js),
                 fr \cup Released(ks, e.sector), ls)
<1> DEFINE i == e.sector
<1>1. /\ e \in Entry /\ i \in Sectors /\ NULL \notin Inode
  BY FileFacts DEF FreeMap, Entry
<1>2. CASE is[i] = NULL
  <2>1. js = is /\ Released(ks, i) = SectorsIn(e)
    BY <1>1, <1>2, RemoveIs
  <2>2. e \notin OpenedIn(is)
    BY <1>2 DEF OpenedIn, EntryOf
  <2>3. FreeMap(N \ {e}, OpenedIn(is), RemovedIn(is), fr \cup SectorsIn(e), ls)
    BY <2>2, FreeMapRemove
  <2> QED
    BY <2>1, <2>3
<1>3. CASE is[i] # NULL
  <2>1. /\ \E v \in Inode : /\ js = [is EXCEPT ![i] = v]
                            /\ v.start = is[i].start /\ v.removed
        /\ Released(ks, i) = {}
    BY <1>1, <1>3, RemoveIs
  <2>2. PICK v \in Inode : /\ js = [is EXCEPT ![i] = v]
                           /\ v.start = is[i].start /\ v.removed
    BY <2>1
  <2>3. js[i] = v /\ \A j \in Sectors : j # i => js[j] = is[j]
    BY <1>1, <2>2 DEF Tables
  <2>4. /\ v \in Inode \cup {NULL} /\ v # NULL
        /\ v.start = is[i].start /\ v.removed
    BY <1>1, <2>2
  <2>5. /\ OpenedIn(js) = OpenedIn(is)
        /\ v.removed => RemovedIn(js) = RemovedIn(is) \cup {i}
    BY <1>1, <1>3, <2>3, <2>4, OpenedUpdate
  <2> DEFINE o == EntryOf(is, i)
  <2>6. o \in OpenedIn(is) /\ o.sector = i
    BY <1>1, <1>3 DEF OpenedIn, EntryOf
  <2> HIDE DEF o
  <2>7. o \in Entry
    BY <2>6 DEF FreeMap
  <2>8. o = e
    BY <1>1, <2>6, <2>7, SectorsInFacts DEF FreeMap
  <2>9. FreeMap(N \ {e}, OpenedIn(is), RemovedIn(is) \cup {i}, fr, ls)
    BY <2>6, <2>8, FreeMapRemove
  <2> QED
    BY <2>1, <2>4, <2>5, <2>9
<1> QED
  BY <1>2, <1>3
-----------------------------------------------------------------------------
(* IInv again, in the terms of the lemmas above.                           *)
ControlOK ==
  /\ pc \in [Procs -> {"none", "user", "keyboard", "writing", "opening",
                       "loading", "exiting"}]
  /\ filelock \in Procs \cup {Nobody, Lost}
  /\ \A p \in Procs : file[p] # NULL <=> pc[p] \in {"opening", "loading"}
  /\ panicked \in {"no", "file_close", "lock_acquire", "select_sector",
                   "race"}
  /\ image \in [Procs -> Sectors \cup {0}] /\ spoiled \subseteq Procs
  /\ Len(leaked) <= MaxLeaks

RootOK == root \in [Names -> Entry \cup {NULL}]
MapOK == FreeMap(Named, OpenedIn(inodes), RemovedIn(inodes), free, lost)
NamesApart ==
  \A n, m \in Names : n # m /\ root[n] # NULL /\ root[m] # NULL =>
                        root[n].sector # root[m].sector

WInv ==
  /\ ControlOK
  /\ TablesOK
  /\ RootOK
  /\ InodesCounted
  /\ FileInv
  /\ WritersShutOut
  /\ MapOK
  /\ NamesApart

LEMMA NamedEntries ==
  ASSUME RootOK
  PROVE  /\ Named \subseteq Entry
         /\ \A n \in Names : root[n] # NULL => root[n] \in Named
  BY DEF RootOK, Named

LEMMA OpenedIs ==
  ASSUME InodesOK
  PROVE  /\ Opened = OpenedIn(inodes) /\ Opened \subseteq Entry
         /\ \A e \in Opened : /\ e.sector \in Sectors
                              /\ inodes[e.sector] # NULL
<1>1. Opened = OpenedIn(inodes)
  BY DEF Opened, OpenedIn, EntryOf
<1>2. \A i \in Sectors : inodes[i] # NULL => /\ EntryOf(inodes, i) \in Entry
                                             /\ EntryOf(inodes, i).sector = i
  BY DEF InodesOK, Inode, Entry, EntryOf
<1> QED
  BY <1>1, <1>2 DEF OpenedIn

LEMMA MapIs ==
  (InodesOK /\ RootOK) =>
    (MapOK <=> /\ free \subseteq Sectors /\ lost \subseteq Sectors
               /\ FreeMapExact /\ free \cap lost = {})
<1> SUFFICES ASSUME InodesOK, RootOK
             PROVE  MapOK <=>
                      /\ free \subseteq Sectors /\ lost \subseteq Sectors
                      /\ FreeMapExact /\ free \cap lost = {}
  OBVIOUS
<1>1. /\ Named \subseteq Entry /\ Opened \subseteq Entry
      /\ Opened = OpenedIn(inodes)
      /\ \A e \in Opened : e.sector \in Sectors /\ inodes[e.sector] # NULL
  BY NamedEntries, OpenedIs
<1>2. \A e \in Opened : e.sector \in RemovedIn(inodes)
                          <=> inodes[e.sector].removed
  BY <1>1 DEF RemovedIn
<1> DEFINE All == Named \cup Opened
<1>3. \A e \in All : SectorsIn(e) \subseteq Sectors
  BY <1>1, SectorsInFacts
<1>4. FreeMapExact <=>
        /\ \A e, f \in All : e # f => SectorsIn(e) \cap SectorsIn(f) = {}
        /\ UNION {SectorsIn(e) : e \in All} = Sectors \ (free \cup lost)
        /\ \A e \in Opened : inodes[e.sector].removed <=> e \notin Named
  BY DEF FreeMapExact, SectorsIn
<1> DEFINE Apart == \A e, f \in All : e # f =>
                      \A s \in SectorsIn(e) : s \notin SectorsIn(f)
           Used == \A e \in All : \A s \in SectorsIn(e) :
                      s \notin free /\ s \notin lost
           Rest == \A s \in Sectors : s \in free \/ s \in lost
                      \/ \E e \in All : s \in SectorsIn(e)
           Marks == \A e \in Opened : e.sector \in RemovedIn(inodes)
                                        <=> e \notin Named
<1> HIDE DEF All
<1>5. (\A e, f \in All : e # f => SectorsIn(e) \cap SectorsIn(f) = {}) <=> Apart
  <2>1. \A e, f : SectorsIn(e) \cap SectorsIn(f) = {}
                    <=> \A s \in SectorsIn(e) : s \notin SectorsIn(f)
    OBVIOUS
  <2> QED
    BY <2>1
<1>6. UNION {SectorsIn(e) : e \in All} = Sectors \ (free \cup lost)
        <=> Used /\ Rest
  <2> DEFINE U == UNION {SectorsIn(e) : e \in All}
             W == Sectors \ (free \cup lost)
  <2>1. \A s : s \in U <=> \E e \in All : s \in SectorsIn(e)
    OBVIOUS
  <2>2. \A s : s \in W <=> s \in Sectors /\ s \notin free /\ s \notin lost
    OBVIOUS
  <2> HIDE DEF U, W
  <2>3. ASSUME U = W PROVE Used /\ Rest
    BY <2>1, <2>2, <2>3
  <2>4. ASSUME Used, Rest PROVE U = W
    <3>1. \A s : s \in U <=> s \in W
      BY <1>3, <2>1, <2>2, <2>4
    <3> QED
      BY <3>1
  <2> QED
    BY <2>3, <2>4 DEF U, W
<1>7. (\A e \in Opened : inodes[e.sector].removed <=> e \notin Named) <=> Marks
  BY <1>2
<1>8. MapOK <=> /\ free \subseteq Sectors /\ lost \subseteq Sectors
                /\ \A s \in free : s \notin lost
                /\ Apart /\ Used /\ Rest /\ Marks
  BY <1>1 DEF MapOK, FreeMap, All
<1>9. free \cap lost = {} <=> \A s \in free : s \notin lost
  OBVIOUS
<1> HIDE DEF Apart, Used, Rest, Marks
<1> QED
  BY <1>4, <1>5, <1>6, <1>7, <1>8, <1>9

LEMMA IInvIs == IInv <=> WInv
<1>1. TypeOK <=> /\ ControlOK /\ TablesOK /\ RootOK /\ InodesOK
                 /\ free \subseteq Sectors /\ lost \subseteq Sectors
  BY DEF TypeOK, ControlOK, TablesOK, RootOK, InodesOK
<1>2. TablesOK => ((InodesOK /\ CountsMatch) <=> InodesCounted)
  BY OpenFilesSum, CountsAreCounted
<1>3. InodesCounted => InodesOK
  BY DEF InodesCounted, InodesOK, Counted
<1>4. NameInv <=> free \cap lost = {} /\ NamesApart
  BY DEF NameInv, NamesApart
<1> QED
  BY <1>1, <1>2, <1>3, <1>4, MapIs DEF IInv, WInv

LEMMA IInvIsNext == IInv' <=> WInv'
  BY IInvIs, PTL
-----------------------------------------------------------------------------
(* What leaves a part of the state as it is.                               *)
LEMMA TablesKept ==
  ASSUME TablesOK, UNCHANGED <<fd_table, running, file, leaked>>
  PROVE  /\ TablesOK' /\ IsSum /\ IsSum'
         /\ Denying' = Denying /\ Others' = Others
<1>1. TablesOK'
  BY DEF TablesOK
<1>2. IsSum /\ IsSum'
  BY <1>1, OpenFilesSum, OpenFilesSumNext
<1>3. Denying' = Denying /\ Others' = Others
  BY DEF Denying, Others, OpenFiles, Slots
<1> QED
  BY <1>1, <1>2, <1>3

LEMMA CountsKept ==
  ASSUME InodesCounted, TablesOK,
         UNCHANGED <<fd_table, running, file, leaked, inodes>>
  PROVE  InodesCounted'
  BY TablesKept DEF InodesCounted

LEMMA MapKept ==
  ASSUME MapOK, RootOK, NamesApart, UNCHANGED <<root, free, lost>>,
         inodes \in Tables, inodes' \in Tables, SameDisk(inodes, inodes')
  PROVE  RootOK' /\ NamesApart' /\ MapOK'
<1>1. /\ OpenedIn(inodes') = OpenedIn(inodes)
      /\ RemovedIn(inodes') = RemovedIn(inodes)
  BY SameDiskSame
<1>2. Named' = Named
  BY DEF Named
<1> QED
  BY <1>1, <1>2 DEF RootOK, NamesApart, MapOK

LEMMA MapUnchanged ==
  ASSUME MapOK, RootOK, NamesApart, UNCHANGED <<root, free, lost, inodes>>
  PROVE  RootOK' /\ NamesApart' /\ MapOK'
<1>1. Named' = Named
  BY DEF Named
<1> QED
  BY <1>1 DEF RootOK, NamesApart, MapOK

(* A program's inode is counted as one that denies writes.                 *)
LEMMA InodeInUse ==
  ASSUME TablesOK, InodesCounted, NEW g \in OpenFile, OpenFiles(g) > 0
  PROVE  /\ g.inode \in Sectors
         /\ inodes[g.inode] # NULL /\ inodes[g.inode] \in Inode
         /\ g.deny_write => inodes[g.inode].deny_write_cnt > 0
<1> DEFINE i == g.inode
<1>1. /\ i \in Sectors
      /\ g = IF g.deny_write THEN Denier(i) ELSE Sharer(i)
  BY FileIs
<1>2. Denying[i] \in Nat /\ Others[i] \in Nat
  BY <1>1 DEF InodesCounted, Counted
<1>3. CASE g.deny_write
  <2>1. g = Denier(i)
    BY <1>1, <1>3
  <2>2. Denying[i] > 0
    BY <1>1, <2>1 DEF Denying
  <2> QED
    BY <1>1, <1>2, <2>2 DEF InodesCounted, Counted
<1>4. CASE ~ g.deny_write
  <2>1. g = Sharer(i)
    BY <1>1, <1>4
  <2>2. Others[i] > 0
    BY <1>1, <2>1 DEF Others
  <2> QED
    BY <1>1, <1>2, <1>4, <2>2 DEF InodesCounted, Counted
<1> QED
  BY <1>3, <1>4

(* A file in a table is open.                                              *)
LEMMA InTables ==
  ASSUME TablesOK, NEW p \in Procs
  PROVE  /\ \A fd \in Fds : fd_table[p][fd] # NULL =>
              fd_table[p][fd] \in OpenFile /\ OpenFiles(fd_table[p][fd]) > 0
         /\ running[p] # NULL =>
              running[p] \in OpenFile /\ OpenFiles(running[p]) > 0
         /\ file[p] # NULL => file[p] \in OpenFile /\ OpenFiles(file[p]) > 0
<1>1. IsSum
  BY OpenFilesSum
<1>2. \A f \in OpenFile :
        (\/ Count(Descriptors, f) > 0 \/ Count(running, f) > 0
         \/ Count(file, f) > 0) => OpenFiles(f) > 0
  <2> SUFFICES ASSUME NEW f \in OpenFile
               PROVE  (\/ Count(Descriptors, f) > 0 \/ Count(running, f) > 0
                       \/ Count(file, f) > 0) => OpenFiles(f) > 0
    OBVIOUS
  <2>1. /\ OpenFiles(f) = Sum(f)
        /\ Count(Descriptors, f) \in Nat /\ Count(running, f) \in Nat
        /\ Count(file, f) \in Nat /\ Count(leaked, f) \in Nat
    BY <1>1 DEF IsSum
  <2> QED
    BY <2>1 DEF Sum
<1>3. /\ \A fd \in Fds : fd_table[p][fd] \in OpenFile \cup {NULL}
      /\ running[p] \in OpenFile \cup {NULL} /\ file[p] \in OpenFile \cup {NULL}
  BY DEF TablesOK
<1>4. \A f \in OpenFile :
        /\ \A fd \in Fds : fd_table[p][fd] = f => Count(Descriptors, f) > 0
        /\ running[p] = f => Count(running, f) > 0
        /\ file[p] = f => Count(file, f) > 0
  BY <1>1 DEF IsSum
<1> QED
  BY <1>2, <1>3, <1>4

LEMMA OneNull ==
  ASSUME NEW f \in OpenFile
  PROVE  One(NULL, f) = 0
  BY FileFacts DEF One

(* A descriptor changes from g to h, and no other table does.              *)
LEMMA DescriptorStep ==
  ASSUME TablesOK, NEW p \in Procs, NEW fd \in Fds,
         NEW h \in OpenFile \cup {NULL},
         fd_table' = [fd_table EXCEPT ![p][fd] = h],
         UNCHANGED <<running, file, leaked>>
  PROVE  TablesOK' /\ IsSum /\ IsSum' /\ Changed(h, fd_table[p][fd])
<1> DEFINE g == fd_table[p][fd]
<1>1. \A f \in OpenFile :
        /\ fd_table' \in [Procs -> [Fds -> OpenFile \cup {NULL}]]
        /\ Count(Descriptors, f)'
             = Count(Descriptors, f) + One(h, f) - One(g, f)
  BY DescriptorChange
<1>2. TablesOK'
  BY DEF TablesOK
<1>3. IsSum /\ IsSum'
  BY <1>2, OpenFilesSum, OpenFilesSumNext
<1>4. Moved(Descriptors, Descriptors', h, g)
  BY <1>1 DEF Moved, Count, Places
<1>5. /\ Moved(running, running', NULL, NULL) /\ Moved(file, file', NULL, NULL)
      /\ Moved(leaked, leaked', NULL, NULL)
  BY TablesFinite, MovedNothing
<1>6. ASSUME NEW f \in OpenFile
      PROVE  OpenFiles(f)' = OpenFiles(f) + One(h, f) - One(g, f)
  <2>1. OpenFiles(f)' = OpenFiles(f) + (One(h, f) - One(g, f))
                           + (One(NULL, f) - One(NULL, f))
                           + (One(NULL, f) - One(NULL, f)) + One(NULL, f)
    BY <1>3, <1>4, <1>5, MovedTables
  <2>2. One(NULL, f) = 0 /\ One(h, f) \in Int /\ One(g, f) \in Int
    BY OneNull DEF One
  <2>3. OpenFiles(f) \in Nat
    BY <1>3 DEF IsSum
  <2> QED
    BY <2>1, <2>2, <2>3
<1> QED
  BY <1>2, <1>3, <1>6 DEF Changed
-----------------------------------------------------------------------------
(* The steps that touch no file.                                           *)
LEMMA NoFileStep ==
  ASSUME WInv,
         UNCHANGED <<fd_table, running, file, inodes, root, free, image,
                     spoiled, leaked, lost>>,
         \/ UNCHANGED <<pc, filelock>>
         \/ \E p \in Procs, point \in {"user", "keyboard", "exiting"} :
              /\ pc[p] \in {"user", "keyboard", "writing"} /\ Goto(p, point)
              /\ filelock' \in {filelock, p, Nobody},
         panicked' \in {panicked, "select_sector", "race"}
  PROVE  WInv'
<1>1. TablesOK' /\ InodesCounted'
  BY TablesKept, CountsKept DEF WInv
<1>2. RootOK' /\ NamesApart' /\ MapOK'
  BY MapUnchanged DEF WInv
<1>3. WritersShutOut'
  BY DEF WInv, WritersShutOut
<1>4. ControlOK' /\ FileInv'
  <2>1. CASE UNCHANGED <<pc, filelock>>
    BY <2>1 DEF WInv, ControlOK, FileInv
  <2>2. ASSUME NEW p \in Procs, NEW point \in {"user", "keyboard", "exiting"},
               pc[p] \in {"user", "keyboard", "writing"}, Goto(p, point),
               filelock' \in {filelock, p, Nobody}
        PROVE  ControlOK' /\ FileInv'
    <3>1. /\ pc' \in [Procs -> {"none", "user", "keyboard", "writing",
                                "opening", "loading", "exiting"}]
          /\ pc'[p] = point
          /\ \A q \in Procs : q # p => pc'[q] = pc[q]
      BY <2>2 DEF WInv, ControlOK, Goto
    <3>2. \A q \in Procs : file[q] # NULL <=> pc'[q] \in {"opening", "loading"}
      BY <2>2, <3>1 DEF WInv, ControlOK
    <3>3. ControlOK'
      BY <2>2, <3>1, <3>2 DEF WInv, ControlOK
    <3>4. \A q \in Procs : pc'[q] = "none" => pc[q] = "none"
      BY <2>2, <3>1
    <3>5. FileInv'
      BY <3>4 DEF WInv, FileInv
    <3> QED
      BY <3>3, <3>5
  <2> QED
    BY <2>1, <2>2
<1> QED
  BY <1>1, <1>2, <1>3, <1>4 DEF WInv

LEMMA QuietSteps ==
  ASSUME WInv, NEW p \in Procs,
         \/ ReadKeyboard(p) \/ KeyPressed(p) \/ ReadFaults(p)
         \/ UseUnread(p) \/ exit(p) \/ Written(p)
  PROVE  WInv'
<1>1. UNCHANGED <<fd_table, running, file, inodes, root, free, image,
                  spoiled, leaked, lost>>
  BY DEF ReadKeyboard, KeyPressed, ReadFaults, UseUnread, exit, Written,
     history
<1>2. panicked' \in {panicked, "select_sector", "race"}
  BY DEF ReadKeyboard, KeyPressed, ReadFaults, UseUnread, exit, Written
<1>3. \/ UNCHANGED <<pc, filelock>>
      \/ \E point \in {"user", "keyboard", "exiting"} :
           /\ pc[p] \in {"user", "keyboard", "writing"} /\ Goto(p, point)
           /\ filelock' \in {filelock, p, Nobody}
  <2>1. CASE ReadKeyboard(p)
    BY <2>1 DEF ReadKeyboard, Locked, At
  <2>2. CASE KeyPressed(p)
    BY <2>2 DEF KeyPressed, At
  <2>3. CASE ReadFaults(p)
    BY <2>3 DEF ReadFaults, Locked, At
  <2>4. CASE UseUnread(p)
    BY <2>4 DEF UseUnread
  <2>5. CASE exit(p)
    BY <2>5 DEF exit, At
  <2>6. CASE Written(p)
    BY <2>6 DEF Written, At
  <2> QED
    BY <2>1, <2>2, <2>3, <2>4, <2>5, <2>6
<1> QED
  BY <1>1, <1>2, <1>3, NoFileStep

(* Two operations overlap: the model ends, and all is left as it was.      *)
LEMMA OverlapStep ==
  ASSUME WInv, NEW p \in Procs, NEW q \in Procs, Overlap(p, q)
  PROVE  WInv'
  BY NoFileStep DEF Overlap, history

(* A write: whoever has loaded the program it changes denies it.           *)
LEMMA WriteStep ==
  ASSUME WInv, NEW p \in Procs, NEW fd \in Fds, write(p, fd)
  PROVE  WInv'
<1>1. UNCHANGED <<fd_table, running, file, inodes, root, free, panicked, image,
                  leaked, lost>>
  BY DEF write
<1>2. TablesOK' /\ InodesCounted'
  BY <1>1, TablesKept, CountsKept DEF WInv
<1>3. RootOK' /\ NamesApart' /\ MapOK'
  BY <1>1, MapUnchanged DEF WInv
<1> DEFINE i == fd_table[p][fd].inode
<1>4. /\ fd_table[p][fd] # NULL /\ inodes[i].deny_write_cnt = 0
      /\ spoiled' = spoiled \cup {q \in Procs : image[q] = i}
  BY DEF write
<1>5. i \in Sectors /\ i # 0
  <2>1. fd_table[p][fd] \in OpenFile
    BY <1>4, InTables DEF WInv
  <2> QED
    BY <2>1, FileIs, DiskAndTables
<1> HIDE DEF i
<1>6. \A q \in Procs : image[q] = i => running[q] = NULL
  <2> SUFFICES ASSUME NEW q \in Procs, image[q] = i, running[q] # NULL
               PROVE  FALSE
    OBVIOUS
  <2>1. running[q].deny_write = TRUE /\ running[q].inode = i
    BY <1>5 DEF WInv, FileInv
  <2>2. running[q] \in OpenFile /\ OpenFiles(running[q]) > 0
    BY InTables DEF WInv
  <2>3. inodes[i].deny_write_cnt > 0
    BY <2>1, <2>2, InodeInUse DEF WInv
  <2> QED
    BY <1>4, <2>3
<1>7. WritersShutOut'
  BY <1>1, <1>4, <1>6 DEF WInv, WritersShutOut
<1>8. ControlOK' /\ FileInv'
  <2>1. /\ pc[p] = "user" /\ filelock' = p
        /\ pc' = [pc EXCEPT ![p] = "writing"]
    BY DEF write, Locked, At, Goto
  <2>2. ControlOK'
    BY <1>1, <1>4, <2>1 DEF WInv, ControlOK
  <2>3. FileInv'
    BY <1>1, <2>1 DEF WInv, FileInv, ControlOK
  <2> QED
    BY <2>2, <2>3
<1> QED
  BY <1>2, <1>3, <1>7, <1>8 DEF WInv

(* create(): the sectors are free ones, and different.                     *)
LEMMA CreateStep ==
  ASSUME WInv, NEW p \in Procs, NEW n \in Names, NEW k \in Lengths,
         create(p, n, k)
  PROVE  WInv'
<1> DEFINE s == Min(free)
           t == IF k = 0 THEN 0 ELSE Min(free \ {s})
           e == [sector |-> s, start |-> t]
<1>1. UNCHANGED <<pc, filelock, fd_table, running, file, inodes, panicked,
                  spoiled, leaked>>
  BY DEF create
<1>2. /\ Cardinality(free) > k
      /\ \/ /\ root[n] = NULL
            /\ root' = [root EXCEPT ![n] = e]
            /\ free' = free \ {s, t}
            /\ UNCHANGED lost
         \/ /\ root[n] # NULL
            /\ free' = free \ {t}
            /\ lost' = lost \cup ({t} \ {0})
            /\ UNCHANGED root
      /\ image' = [q \in Procs |-> IF image[q] = s THEN 0 ELSE image[q]]
  BY DEF create
<1>3. /\ free \subseteq Sectors /\ free \subseteq Nat /\ IsFiniteSet(free)
      /\ Cardinality(free) \in Nat /\ k \in {0, 1} /\ 0 \notin free
  <2>1. free \subseteq Sectors
    BY DEF WInv, MapOK, FreeMap
  <2>2. free \in SUBSET Sectors
    BY <2>1
  <2>3. IsFiniteSet(free)
    BY <2>2, DiskAndTables, FS_Subset
  <2> QED
    BY <2>1, <2>3, FS_CardinalityType, DiskAndTables, FilesAssumption
<1>4. s \in free
  <2>1. free # {}
    BY <1>2, <1>3, FS_EmptySet
  <2> QED
    BY <1>3, <2>1, MinOfNats
<1>5. k = 1 => t \in free /\ t # s
  <2>1. SUFFICES ASSUME k = 1 PROVE t \in free /\ t # s
    OBVIOUS
  <2>2. Cardinality(free \ {s}) = Cardinality(free) - 1
    BY <1>3, <1>4, FS_RemoveElement
  <2>3. free \ {s} # {}
    BY <1>2, <1>3, <2>1, <2>2, FS_EmptySet
  <2>4. Min(free \ {s}) \in free \ {s}
    BY <1>3, <2>3, MinOfNats
  <2> QED
    BY <2>1, <2>4
<1>6. t = 0 \/ (t \in free /\ t # s)
  BY <1>3, <1>5
<1> HIDE DEF s, t
<1>7. /\ e \in Entry
      /\ SectorsIn(e) = {s, t} \ {0} /\ SectorsIn(e) \subseteq free
      /\ e # NULL /\ e.sector = s
  <2>1. e \in Entry /\ e.sector = s
    BY <1>3, <1>4, <1>6 DEF Entry
  <2>2. SectorsIn(e) = {s, t} \ {0} /\ SectorsIn(e) \subseteq free
    BY <1>4, <1>6 DEF SectorsIn, SectorsOf
  <2> QED
    BY <2>1, <2>2, FileFacts
<1>8. TablesOK' /\ InodesCounted'
  BY <1>1, TablesKept, CountsKept DEF WInv
<1>9. ControlOK'
  BY <1>1, <1>2 DEF WInv, ControlOK
<1>10. FileInv' /\ WritersShutOut'
  BY <1>1, <1>2 DEF WInv, FileInv, WritersShutOut, ControlOK
<1>11. RootOK' /\ NamesApart' /\ MapOK'
  <2> HIDE DEF e
  <2>0. FreeMap(Named, OpenedIn(inodes), RemovedIn(inodes), free, lost)
    BY DEF WInv, MapOK
  <2>1. CASE /\ root[n] = NULL /\ root' = [root EXCEPT ![n] = e]
             /\ free' = free \ {s, t} /\ UNCHANGED lost
    <3>1. /\ RootOK' /\ root'[n] = e
          /\ \A m \in Names : m # n => root'[m] = root[m]
      BY <1>7, <2>1 DEF WInv, RootOK
    <3>2. Named' = Named \cup {e}
      BY <1>7, <2>1, <3>1 DEF Named
    <3>3. free' = free \ SectorsIn(e)
      BY <1>3, <1>7, <2>1
    <3>4. FreeMap(Named \cup {e}, OpenedIn(inodes), RemovedIn(inodes),
                  free \ SectorsIn(e), lost)
      BY <1>7, <2>0, FreeMapCreate
    <3>5. MapOK'
      BY <1>1, <2>1, <3>2, <3>3, <3>4 DEF MapOK
    <3>6. \A m \in Names : root[m] # NULL => root[m].sector # s
      <4> SUFFICES ASSUME NEW m \in Names, root[m] # NULL
                   PROVE  root[m].sector # s
        OBVIOUS
      <4>1. root[m] \in Named /\ root[m] \in Entry
        BY NamedEntries DEF WInv
      <4>2. root[m].sector \in SectorsIn(root[m])
        BY <4>1, SectorsInFacts
      <4>3. root[m].sector \notin free
        BY <2>0, <4>1, <4>2 DEF FreeMap
      <4> QED
        BY <1>4, <4>3
    <3>7. NamesApart'
      BY <1>7, <3>1, <3>6 DEF WInv, NamesApart
    <3> QED
      BY <3>1, <3>5, <3>7
  <2>2. CASE /\ free' = free \ {t} /\ lost' = lost \cup ({t} \ {0})
             /\ UNCHANGED root
    <3> DEFINE T == {t} \ {0}
    <3>1. T \subseteq free /\ free' = free \ T /\ lost' = lost \cup T
      BY <1>3, <1>6, <2>2
    <3> HIDE DEF T
    <3>2. FreeMap(Named, OpenedIn(inodes), RemovedIn(inodes), free \ T,
                  lost \cup T)
      BY <2>0, <3>1, FreeMapLose
    <3>3. Named' = Named
      BY <2>2 DEF Named
    <3>4. MapOK'
      BY <1>1, <3>1, <3>2, <3>3 DEF MapOK
    <3> QED
      BY <2>2, <3>4 DEF WInv, RootOK, NamesApart
  <2> QED
    BY <1>2, <2>1, <2>2 DEF e
<1> QED
  BY <1>8, <1>9, <1>10, <1>11 DEF WInv
-----------------------------------------------------------------------------
(* open() and what opens a file for load().                                *)
LEMMA OpenedStep ==
  ASSUME WInv, NEW n \in Names, root[n] # NULL, NEW r \in BOOLEAN,
         inodes' = inode_open(inodes, root[n], r),
         TablesOK', Changed(Sharer(root[n].sector), NULL),
         UNCHANGED <<root, free, lost>>
  PROVE  InodesCounted' /\ RootOK' /\ NamesApart' /\ MapOK'
<1> DEFINE e == root[n]
<1>1. e \in Named /\ e \in Entry
  BY NamedEntries DEF WInv
<1>2. IsSum /\ IsSum'
  BY OpenFilesSum, OpenFilesSumNext DEF WInv
<1> HIDE DEF e
<1>3. InodesCounted'
  BY <1>1, <1>2, OpenStep DEF WInv, e
<1>4. inodes \in Tables /\ inodes' = inode_open(inodes, e, r)
  BY DEF WInv, InodesCounted, Counted, Tables, e
<1> DEFINE js == inode_open(inodes, e, r)
<1>5. FreeMap(Named, OpenedIn(js), RemovedIn(js), free, lost)
  BY <1>1, <1>4, MapOpen DEF WInv, MapOK
<1>6. Named' = Named
  BY DEF Named
<1>7. FreeMap(Named, OpenedIn(inodes'), RemovedIn(inodes'), free, lost)
  BY <1>4, <1>5
<1>8. MapOK'
  BY <1>6, <1>7 DEF MapOK
<1>9. RootOK' /\ NamesApart'
  BY DEF WInv, RootOK, NamesApart
<1> QED
  BY <1>3, <1>8, <1>9

LEMMA UnusedFd ==
  ASSUME NEW S, S \subseteq Fds, S # {}
  PROVE  Min(S) \in S
<1>1. Fds \subseteq Nat
  BY FilesAssumption DEF Fds
<1> QED
  BY <1>1, MinOfNats

LEMMA SyscallOpenStep ==
  ASSUME WInv, NEW p \in Procs, NEW n \in Names, open(p, n)
  PROVE  WInv'
<1> DEFINE unused == {fd \in Fds : fd_table[p][fd] = NULL}
           f == File(root[n].sector, FALSE)
<1>1. /\ root[n] # NULL
      /\ UNCHANGED <<pc, filelock, running, file, root, free, history>>
      /\ \/ /\ unused # {}
            /\ inodes' = inode_open(inodes, root[n], TRUE)
            /\ fd_table' = [fd_table EXCEPT ![p][Min(unused)] = f]
            /\ UNCHANGED panicked
         \/ /\ panicked' = "file_close"
            /\ UNCHANGED <<inodes, fd_table>>
  BY DEF open
<1>1a. UNCHANGED <<pc, filelock, running, file, root, free, image, spoiled,
                   leaked, lost>>
  BY <1>1 DEF history
<1>2. CASE /\ unused # {}
           /\ inodes' = inode_open(inodes, root[n], TRUE)
           /\ fd_table' = [fd_table EXCEPT ![p][Min(unused)] = f]
           /\ UNCHANGED panicked
  <2> DEFINE fd == Min(unused)
             i == root[n].sector
  <2>1. fd \in Fds /\ fd_table[p][fd] = NULL
    <3>1. fd \in unused
      BY <1>2, UnusedFd
    <3> QED
      BY <3>1
  <2> HIDE DEF fd, unused
  <2>2. i \in Sectors
    BY <1>1, NamedEntries DEF WInv, Entry
  <2>3. f = Sharer(i) /\ f \in OpenFile /\ ~ f.deny_write /\ f # NULL
    BY <2>2, FileFacts DEF Sharer
  <2>4. fd_table' = [fd_table EXCEPT ![p][fd] = f]
    BY <1>2 DEF fd
  <2> HIDE DEF f
  <2>5. TablesOK' /\ Changed(f, NULL)
    BY <1>1a, <2>1, <2>3, <2>4, DescriptorStep DEF WInv
  <2>6. InodesCounted' /\ RootOK' /\ NamesApart' /\ MapOK'
    BY <1>1, <1>1a, <1>2, <2>3, <2>5, OpenedStep
  <2>7. ControlOK' /\ WritersShutOut'
    BY <1>1a, <1>2 DEF WInv, ControlOK, WritersShutOut
  <2>8. FileInv'
    <3>1. \A q \in Procs, d \in Fds :
            fd_table'[q][d] = IF q = p /\ d = fd THEN f ELSE fd_table[q][d]
      BY <2>1, <2>4 DEF WInv, TablesOK
    <3>2. pc[p] # "none"
      BY DEF open, Locked, At
    <3>3. \A q \in Procs : /\ \A d \in Fds : fd_table'[q][d] # NULL =>
                                fd_table'[q][d].deny_write = FALSE
                           /\ pc[q] = "none" =>
                                \A d \in Fds : fd_table'[q][d] = NULL
      BY <2>3, <3>1, <3>2 DEF WInv, FileInv
    <3> QED
      BY <1>1a, <3>3 DEF WInv, FileInv
  <2> QED
    BY <2>5, <2>6, <2>7, <2>8 DEF WInv
<1>3. CASE panicked' = "file_close" /\ UNCHANGED <<inodes, fd_table>>
  <2>1. TablesOK' /\ InodesCounted'
    BY <1>1a, <1>3, TablesKept, CountsKept DEF WInv
  <2>2. RootOK' /\ NamesApart' /\ MapOK'
    BY <1>1a, <1>3, MapUnchanged DEF WInv
  <2>3. ControlOK' /\ WritersShutOut'
    BY <1>1a, <1>3 DEF WInv, ControlOK, WritersShutOut
  <2>4. FileInv'
    BY <1>1a, <1>3 DEF WInv, FileInv
  <2> QED
    BY <2>1, <2>2, <2>3, <2>4 DEF WInv
<1> QED
  BY <1>1, <1>2, <1>3

(* file_close() of an open file.                                           *)
LEMMA ClosedStep ==
  ASSUME WInv, NEW g \in OpenFile, OpenFiles(g) > 0, file_close(g),
         TablesOK', Changed(NULL, g), UNCHANGED <<root, lost>>
  PROVE  InodesCounted' /\ RootOK' /\ NamesApart' /\ MapOK'
<1>1. IsSum /\ IsSum'
  BY OpenFilesSum, OpenFilesSumNext DEF WInv
<1>2. /\ inodes' = inode_close(file_allow_write(inodes, g), g.inode)
      /\ free' = free \cup Released(inodes, g.inode)
  BY DEF file_close
<1>3. InodesCounted'
  BY <1>1, <1>2, CloseStep DEF WInv
<1>4. /\ inodes[g.inode] # NULL
      /\ g.deny_write => inodes[g.inode].deny_write_cnt > 0
  BY InodeInUse DEF WInv
<1>5. inodes \in Tables /\ inodes' \in Tables
  BY <1>3 DEF WInv, InodesCounted, Counted, Tables
<1>6. FreeMap(Named, OpenedIn(inodes'), RemovedIn(inodes'),
              free \cup Released(inodes, g.inode), lost)
  BY <1>2, <1>4, <1>5, MapClose DEF WInv, MapOK
<1>7. Named' = Named
  BY DEF Named
<1>8. MapOK'
  BY <1>2, <1>6, <1>7 DEF MapOK
<1> QED
  BY <1>3, <1>8 DEF WInv, RootOK, NamesApart

(* A descriptor is closed, by close() or process_exit().                   *)
LEMMA DescriptorClosed ==
  ASSUME WInv, NEW p \in Procs, NEW fd \in Fds, fd_table[p][fd] # NULL,
         file_close(fd_table[p][fd]),
         fd_table' = [fd_table EXCEPT ![p][fd] = NULL],
         UNCHANGED <<pc, filelock, running, file, root, panicked, image,
                     spoiled, leaked, lost>>
  PROVE  WInv'
<1> DEFINE g == fd_table[p][fd]
<1>1. g \in OpenFile /\ OpenFiles(g) > 0
  BY InTables DEF WInv
<1>2. TablesOK' /\ Changed(NULL, g)
  BY DescriptorStep DEF WInv
<1>3. InodesCounted' /\ RootOK' /\ NamesApart' /\ MapOK'
  BY <1>1, <1>2, ClosedStep
<1>4. ControlOK' /\ WritersShutOut'
  BY DEF WInv, ControlOK, WritersShutOut
<1>5. FileInv'
  <2>1. \A q \in Procs, d \in Fds :
          fd_table'[q][d] = IF q = p /\ d = fd THEN NULL ELSE fd_table[q][d]
    BY DEF WInv, TablesOK
  <2>2. \A q \in Procs : /\ \A d \in Fds : fd_table'[q][d] # NULL =>
                              fd_table'[q][d].deny_write = FALSE
                         /\ pc[q] = "none" =>
                              \A d \in Fds : fd_table'[q][d] = NULL
    BY <2>1 DEF WInv, FileInv
  <2> QED
    BY <2>2 DEF WInv, FileInv
<1> QED
  BY <1>2, <1>3, <1>4, <1>5 DEF WInv

LEMMA CloseSteps ==
  ASSUME WInv, NEW p \in Procs,
         ExitClose(p) \/ \E fd \in Fds : close(p, fd)
  PROVE  WInv'
<1>1. ASSUME NEW fd \in Fds, close(p, fd)
      PROVE  WInv'
  BY <1>1, DescriptorClosed DEF close, history
<1>2. CASE ExitClose(p)
  <2> DEFINE used == {fd \in Fds : fd_table[p][fd] # NULL}
  <2>1. /\ used # {} /\ UNCHANGED <<pc, filelock, running, file, root, image,
                                    spoiled, leaked, lost>>
        /\ \/ /\ file_close(fd_table[p][Min(used)])
              /\ fd_table' = [fd_table EXCEPT ![p][Min(used)] = NULL]
              /\ UNCHANGED panicked
           \/ /\ panicked' = "lock_acquire"
              /\ UNCHANGED <<inodes, free, fd_table>>
    BY <1>2 DEF ExitClose, history
  <2> DEFINE fd == Min(used)
  <2>2. fd \in Fds /\ fd_table[p][fd] # NULL
    <3>1. fd \in used
      BY <2>1, UnusedFd
    <3> QED
      BY <3>1
  <2> HIDE DEF used
  <2>3. CASE /\ file_close(fd_table[p][fd])
             /\ fd_table' = [fd_table EXCEPT ![p][fd] = NULL]
             /\ UNCHANGED panicked
    <3> HIDE DEF fd
    <3> QED
      BY <2>1, <2>2, <2>3, DescriptorClosed
  <2>4. CASE panicked' = "lock_acquire" /\ UNCHANGED <<inodes, free, fd_table>>
    <3>1. TablesOK' /\ InodesCounted'
      BY <2>1, <2>4, TablesKept, CountsKept DEF WInv
    <3>2. RootOK' /\ NamesApart' /\ MapOK'
      BY <2>1, <2>4, MapUnchanged DEF WInv
    <3>3. ControlOK' /\ WritersShutOut'
      BY <2>1, <2>4 DEF WInv, ControlOK, WritersShutOut
    <3>4. FileInv'
      BY <2>1, <2>4 DEF WInv, FileInv
    <3> QED
      BY <3>1, <3>2, <3>3, <3>4 DEF WInv
  <2> QED
    BY <2>1, <2>3, <2>4
<1> QED
  BY <1>1, <1>2

LEMMA RemoveStep ==
  ASSUME WInv, NEW p \in Procs, NEW n \in Names, remove(p, n)
  PROVE  WInv'
<1> DEFINE e == root[n]
           i == e.sector
           ks == Marked(inodes, e)
<1>1. /\ root[n] # NULL /\ root' = [root EXCEPT ![n] = NULL]
      /\ inodes' = inode_close(ks, i) /\ free' = free \cup Released(ks, i)
      /\ UNCHANGED <<pc, filelock, fd_table, running, file, panicked, image,
                     spoiled, leaked, lost>>
  BY DEF remove, history, Marked
<1>2. e \in Named /\ e \in Entry /\ i \in Sectors
  BY <1>1, NamedEntries DEF WInv, Entry
<1> HIDE DEF ks
<1>3. /\ TablesOK' /\ Denying' = Denying /\ Others' = Others
  BY <1>1, TablesKept DEF WInv
<1>4. inodes \in Tables /\ Counted(inodes, Denying, Others)
  BY DEF WInv, InodesCounted, Counted, Tables
<1>5. ks = Marked(inodes, e)
  BY DEF ks
<1> HIDE DEF e
<1>6. InodesCounted'
  <2>1. CASE inodes[i] = NULL
    <3>1. inodes' = inodes
      BY <1>1, <1>2, <1>4, <1>5, <2>1, RemoveIs
    <3> QED
      BY <1>3, <1>4, <3>1 DEF InodesCounted
  <2>2. CASE inodes[i] # NULL
    <3>1. \E v \in Inode : /\ inodes' = [inodes EXCEPT ![i] = v]
                           /\ v.open_cnt = inodes[i].open_cnt
                           /\ v.deny_write_cnt = inodes[i].deny_write_cnt
      BY <1>1, <1>2, <1>4, <1>5, <2>2, RemoveIs
    <3>2. PICK v \in Inode : /\ inodes' = [inodes EXCEPT ![i] = v]
                             /\ v.open_cnt = inodes[i].open_cnt
                             /\ v.deny_write_cnt = inodes[i].deny_write_cnt
      BY <3>1
    <3> DEFINE D == Denying
               O == Others
               d == D[i]
               o == O[i]
    <3>3. Counted(inodes, D, O)
      BY <1>4
    <3> HIDE DEF D, O
    <3>4. /\ d \in Nat /\ o \in Nat /\ D = [D EXCEPT ![i] = d]
          /\ O = [O EXCEPT ![i] = o] /\ v # NULL
          /\ v.deny_write_cnt = d /\ v.open_cnt = d + o
      BY <1>2, <2>2, <3>2, <3>3, FileFacts DEF Counted
    <3> HIDE DEF d, o
    <3>5. Counted([inodes EXCEPT ![i] = v], [D EXCEPT ![i] = d],
                  [O EXCEPT ![i] = o])
      BY <1>2, <3>3, <3>4, CountedUpdate
    <3> QED
      BY <1>3, <3>2, <3>4, <3>5 DEF InodesCounted, D, O
  <2> QED
    BY <2>1, <2>2
<1>7. FreeMap(Named \ {e}, OpenedIn(inodes'), RemovedIn(inodes'),
              free \cup Released(ks, i), lost)
  BY <1>1, <1>2, <1>4, <1>5, MapRemove DEF WInv, MapOK
<1>8. /\ RootOK' /\ root'[n] = NULL /\ root[n] = e /\ e # NULL
      /\ \A m \in Names : m # n => root'[m] = root[m]
  BY <1>1 DEF WInv, RootOK, e
<1>9. \A m \in Names : m # n /\ root[m] # NULL => root[m] # e
  BY <1>8 DEF WInv, NamesApart
<1>10. Named' = Named \ {e}
  <2>1. \A x : x \in Named' <=> \E m \in Names : root'[m] # NULL /\ x = root'[m]
    BY DEF Named
  <2>2. \A x : x \in Named <=> \E m \in Names : root[m] # NULL /\ x = root[m]
    BY DEF Named
  <2>3. \A x : x \in Named' <=> x \in Named /\ x # e
    BY <1>8, <1>9, <2>1, <2>2
  <2> QED
    BY <2>3
<1>11. MapOK'
  BY <1>1, <1>7, <1>10 DEF MapOK
<1>12. NamesApart'
  BY <1>8 DEF WInv, NamesApart
<1>13. ControlOK' /\ WritersShutOut'
  BY <1>1 DEF WInv, ControlOK, WritersShutOut
<1>14. FileInv'
  BY <1>1 DEF WInv, FileInv
<1> QED
  BY <1>3, <1>6, <1>8, <1>11, <1>12, <1>13, <1>14 DEF WInv

(* A child gets its parent's descriptors, and none of them denies writes.  *)
LEMMA ForkStep ==
  ASSUME WInv, NEW p \in Procs, NEW c \in Procs, fork(p, c)
  PROVE  WInv'
<1> DEFINE R(f) == {fd \in Fds : fd_table[p][fd] = f}
<1>1. /\ pc[p] = "user" /\ pc[c] = "none" /\ Goto(c, "user")
      /\ fd_table' = [fd_table EXCEPT ![c] = fd_table[p]]
      /\ inodes' = [i \in Sectors |->
           IF inodes[i] = NULL THEN NULL
           ELSE [inodes[i] EXCEPT !.open_cnt =
                   @ + Cardinality(R(File(i, FALSE)))]]
      /\ image' = [image EXCEPT ![c] = image[p]]
      /\ spoiled' \in {spoiled, spoiled \cup {c}}
      /\ UNCHANGED <<filelock, running, file, root, free, panicked, leaked,
                     lost>>
  BY DEF fork, At
<1>2. /\ c # p /\ running[c] = NULL /\ \A fd \in Fds : fd_table[c][fd] = NULL
  BY <1>1 DEF WInv, FileInv
<1>3. \A f \in OpenFile :
        /\ fd_table' \in [Procs -> [Fds -> OpenFile \cup {NULL}]]
        /\ Cardinality(R(f)) \in Nat
        /\ Count(Descriptors, f)' = Count(Descriptors, f) + Cardinality(R(f))
  BY <1>1, <1>2, RowCopied DEF WInv
<1>3a. \A f \in OpenFile :
         Cardinality(R(f)) # 0 => \E fd \in Fds : fd_table[p][fd] = f
  <2> SUFFICES ASSUME NEW f \in OpenFile, ~ \E fd \in Fds : fd_table[p][fd] = f
               PROVE  Cardinality(R(f)) = 0
    OBVIOUS
  <2>1. R(f) = {}
    OBVIOUS
  <2> QED
    BY <2>1, FS_EmptySet
<1> HIDE DEF R
<1>4. TablesOK'
  BY <1>1, <1>2 DEF WInv, TablesOK
<1>5. IsSum /\ IsSum'
  BY <1>4, OpenFilesSum, OpenFilesSumNext DEF WInv
<1>6. ASSUME NEW f \in OpenFile
      PROVE  OpenFiles(f)' = OpenFiles(f) + Cardinality(R(f))
  <2>1. /\ OpenFiles(f) = Sum(f) /\ OpenFiles(f)' = Sum(f)'
        /\ Count(Descriptors, f) \in Nat /\ Count(running, f) \in Nat
        /\ Count(file, f) \in Nat /\ Count(leaked, f) \in Nat
    BY <1>5 DEF IsSum
  <2>2. /\ Count(running, f)' = Count(running, f)
        /\ Count(file, f)' = Count(file, f)
        /\ Count(leaked, f)' = Count(leaked, f)
    BY <1>1 DEF Count, Places
  <2>3. Sum(f)' = Count(Descriptors, f)' + Count(running, f)' + Count(file, f)'
                    + Count(leaked, f)'
    BY DEF Sum
  <2> QED
    BY <1>3, <2>1, <2>2, <2>3 DEF Sum
<1>7. ASSUME NEW i \in Sectors
      PROVE  /\ Denying'[i] = Denying[i]
             /\ Cardinality(R(Sharer(i))) \in Nat
             /\ Others'[i] = Others[i] + Cardinality(R(Sharer(i)))
             /\ inodes[i] = NULL => Cardinality(R(Sharer(i))) = 0
  <2>1. /\ Denier(i) \in OpenFile /\ Sharer(i) \in OpenFile
        /\ Denier(i).deny_write
    BY FileFacts
  <2>2. Cardinality(R(Denier(i))) = 0
    <3>1. \A fd \in Fds : fd_table[p][fd] # Denier(i)
      BY <2>1, FileFacts DEF WInv, FileInv
    <3> QED
      BY <1>3a, <2>1, <3>1
  <2>3. /\ Denying[i] = OpenFiles(Denier(i)) /\ Others[i] = OpenFiles(Sharer(i))
        /\ Denying'[i] = OpenFiles(Denier(i))'
        /\ Others'[i] = OpenFiles(Sharer(i))'
    BY DEF Denying, Others
  <2>4. Denying'[i] = OpenFiles(Denier(i)) + Cardinality(R(Denier(i)))
    BY <1>6, <2>1, <2>3
  <2>5. Others'[i] = OpenFiles(Sharer(i)) + Cardinality(R(Sharer(i)))
    BY <1>6, <2>1, <2>3
  <2>6. OpenFiles(Denier(i)) \in Nat
    BY <1>5, <2>1 DEF IsSum
  <2>7. inodes[i] = NULL => Cardinality(R(Sharer(i))) = 0
    <3> SUFFICES ASSUME Cardinality(R(Sharer(i))) # 0 PROVE inodes[i] # NULL
      OBVIOUS
    <3>1. PICK fd \in Fds : fd_table[p][fd] = Sharer(i)
      BY <1>3a, <2>1
    <3>2. OpenFiles(Sharer(i)) > 0
      BY <2>1, <3>1, FileFacts, InTables DEF WInv
    <3>3. inodes[Sharer(i).inode] # NULL
      BY <2>1, <3>2, InodeInUse DEF WInv
    <3> QED
      BY <3>3, FileFacts
  <2> QED
    BY <1>3, <2>1, <2>2, <2>3, <2>4, <2>5, <2>6, <2>7
<1>8. /\ Denying \in [Sectors -> Nat] /\ Others \in [Sectors -> Nat]
      /\ Denying' \in [Sectors -> Nat] /\ Others' \in [Sectors -> Nat]
  BY <1>5, CountsType, CountsTypeNext
<1>9. inodes \in Tables /\ Counted(inodes, Denying, Others)
  BY DEF WInv, InodesCounted, Counted, Tables
<1>10. ASSUME NEW i \in Sectors
       PROVE  /\ inodes'[i] \in Inode \cup {NULL}
              /\ inodes[i] = NULL <=> inodes'[i] = NULL
              /\ inodes[i] # NULL =>
                   /\ inodes'[i].start = inodes[i].start
                   /\ inodes'[i].removed = inodes[i].removed
              /\ IF inodes'[i] = NULL
                 THEN Denying'[i] = 0 /\ Others'[i] = 0
                 ELSE /\ inodes'[i].deny_write_cnt = Denying'[i]
                      /\ inodes'[i].open_cnt = Denying'[i] + Others'[i]
  <2>1. CASE inodes[i] = NULL
    <3>1. inodes'[i] = NULL
      BY <1>1, <2>1
    <3>2. Denying[i] = 0 /\ Others[i] = 0
      BY <1>9, <2>1 DEF Counted
    <3> QED
      BY <1>7, <2>1, <3>1, <3>2
  <2>2. CASE inodes[i] # NULL
    <3> DEFINE k == Cardinality(R(Sharer(i)))
               v == [inodes[i] EXCEPT !.open_cnt = @ + k]
    <3>1. inodes'[i] = v
      BY <1>1, <2>2 DEF Sharer
    <3>2. /\ inodes[i] \in Inode
          /\ inodes[i].deny_write_cnt = Denying[i]
          /\ inodes[i].open_cnt = Denying[i] + Others[i]
      BY <1>9, <2>2 DEF Counted, Tables
    <3>3. k \in Nat /\ Denying[i] \in Nat /\ Others[i] \in Nat
      BY <1>7, <1>8
    <3> HIDE DEF k
    <3>4. /\ v \in Inode /\ v.start = inodes[i].start
          /\ v.removed = inodes[i].removed
          /\ v.deny_write_cnt = Denying[i]
          /\ v.open_cnt = Denying[i] + (Others[i] + k)
      BY <3>2, <3>3 DEF Inode
    <3>5. Denying'[i] = Denying[i] /\ Others'[i] = Others[i] + k
      BY <1>7 DEF k
    <3> HIDE DEF v
    <3> QED
      BY <2>2, <3>1, <3>4, <3>5, FileFacts
  <2> QED
    BY <2>1, <2>2
<1>11. inodes' \in Tables
  BY <1>1, <1>10 DEF Tables
<1>12. InodesCounted'
  BY <1>8, <1>10, <1>11 DEF InodesCounted, Counted, Tables
<1>13. SameDisk(inodes, inodes')
  BY <1>10 DEF SameDisk
<1>14. RootOK' /\ NamesApart' /\ MapOK'
  BY <1>1, <1>9, <1>11, <1>13, MapKept DEF WInv
<1>15. pc' = [pc EXCEPT ![c] = "user"]
  BY <1>1 DEF Goto
<1>16. ControlOK'
  <2>1. file[c] = NULL
    BY <1>1 DEF WInv, ControlOK
  <2>2. \A q \in Procs : file[q] # NULL <=> pc'[q] \in {"opening", "loading"}
    BY <1>15, <2>1 DEF WInv, ControlOK
  <2> QED
    BY <1>1, <1>15, <2>2 DEF WInv, ControlOK
<1>17. WritersShutOut'
  BY <1>1, <1>2 DEF WInv, WritersShutOut
<1>18. FileInv'
  <2>1. \A q \in Procs, d \in Fds :
          fd_table'[q][d] = IF q = c THEN fd_table[p][d] ELSE fd_table[q][d]
    BY <1>1 DEF WInv, TablesOK
  <2>2. \A q \in Procs : /\ pc'[q] = "none" => q # c /\ pc[q] = "none"
                         /\ q # c => image'[q] = image[q]
    BY <1>1, <1>15 DEF WInv, ControlOK
  <2>3. \A q \in Procs : /\ \A d \in Fds : fd_table'[q][d] # NULL =>
                              fd_table'[q][d].deny_write = FALSE
                         /\ pc'[q] = "none" =>
                              \A d \in Fds : fd_table'[q][d] = NULL
    BY <2>1, <2>2 DEF WInv, FileInv
  <2>4. \A q \in Procs : running'[q] # NULL =>
                              /\ running'[q].deny_write = TRUE
                              /\ image'[q] \in {0, running'[q].inode}
    BY <1>1, <1>2, <2>2 DEF WInv, FileInv
  <2> QED
    BY <1>1, <2>2, <2>3, <2>4 DEF WInv, FileInv
<1> QED
  BY <1>4, <1>12, <1>14, <1>16, <1>17, <1>18 DEF WInv
(* One process's entry of a table changes.                                 *)
LEMMA ProcMoved ==
  ASSUME NEW g \in [Procs -> OpenFile \cup {NULL}], NEW p \in Procs, NEW v
  PROVE  Moved(g, [g EXCEPT ![p] = v], v, g[p])
<1> DEFINE h == [g EXCEPT ![p] = v]
<1>1. /\ DOMAIN g = Procs /\ DOMAIN h = Procs /\ h[p] = v
      /\ \A q \in Procs : q # p => h[q] = g[q]
  OBVIOUS
<1> HIDE DEF h
<1>2. \A f : Count(h, f) = Count(g, f) + One(h[p], f) - One(g[p], f)
  BY <1>1, ProcChange
<1>3. Moved(g, h, v, g[p])
  BY <1>1, <1>2 DEF Moved
<1> QED
  BY <1>3 DEF h

-----------------------------------------------------------------------------
(* The steps of load().                                                    *)
LEMMA LoadOpenStep ==
  ASSUME WInv, NEW p \in Procs, NEW n \in Names, LoadOpen(p, n)
  PROVE  WInv'
<1> DEFINE i == root[n].sector
           r == FALSE
           point == IF inodes[i] = NULL THEN "opening" ELSE "loading"
           f == File(i, FALSE)
<1>1. /\ pc[p] = "user" /\ root[n] # NULL
      /\ inodes' = inode_open(inodes, root[n], r)
      /\ file' = [file EXCEPT ![p] = f] /\ pc' = [pc EXCEPT ![p] = point]
      /\ UNCHANGED <<filelock, fd_table, running, root, free, panicked, image,
                     spoiled, leaked, lost>>
  BY DEF LoadOpen, At, Goto, history
<1>2. r \in BOOLEAN /\ point \in {"opening", "loading"}
  OBVIOUS
<1>3. i \in Sectors
  BY <1>1, NamedEntries DEF WInv, Entry
<1>4. f = Sharer(i) /\ f \in OpenFile /\ ~ f.deny_write /\ f # NULL
  BY <1>3, FileFacts DEF Sharer
<1> HIDE DEF r, point, f
<1>5. file[p] = NULL
  BY <1>1 DEF WInv, ControlOK
<1>6. TablesOK'
  BY <1>1, <1>4 DEF WInv, TablesOK
<1>7. IsSum /\ IsSum'
  BY <1>6, OpenFilesSum, OpenFilesSumNext DEF WInv
<1>8. Changed(f, NULL)
  <2>1. file \in [Procs -> OpenFile \cup {NULL}]
    BY DEF WInv, TablesOK
  <2>2a. Moved(file, [file EXCEPT ![p] = f], f, file[p])
    BY <2>1, ProcMoved
  <2>2. Moved(file, file', f, NULL)
    BY <1>1, <1>5, <2>2a
  <2>3. /\ Moved(Descriptors, Descriptors, NULL, NULL)
        /\ Moved(running, running, NULL, NULL)
        /\ Moved(leaked, leaked, NULL, NULL)
    BY TablesFinite, MovedNothing DEF WInv
  <2>4. /\ Moved(Descriptors, Descriptors', NULL, NULL)
        /\ Moved(running, running', NULL, NULL)
        /\ Moved(leaked, leaked', NULL, NULL)
    BY <1>1, <2>3 DEF Descriptors, Slots
  <2>5. ASSUME NEW x \in OpenFile
        PROVE  OpenFiles(x)' = OpenFiles(x) + One(f, x) - One(NULL, x)
    <3>1. OpenFiles(x)' = OpenFiles(x) + (One(NULL, x) - One(NULL, x))
                            + (One(NULL, x) - One(NULL, x))
                            + (One(f, x) - One(NULL, x)) + One(NULL, x)
      BY <1>7, <2>2, <2>4, MovedTables
    <3>2. One(NULL, x) = 0 /\ One(f, x) \in Int /\ OpenFiles(x) \in Nat
      BY <1>7, OneNull DEF One, IsSum
    <3> QED
      BY <3>1, <3>2
  <2> QED
    BY <2>5 DEF Changed
<1>9. InodesCounted' /\ RootOK' /\ NamesApart' /\ MapOK'
  BY <1>1, <1>2, <1>4, <1>6, <1>8, OpenedStep
<1>10. ControlOK'
  <2>1. /\ pc' \in [Procs -> {"none", "user", "keyboard", "writing",
                              "opening", "loading", "exiting"}]
        /\ \A q \in Procs : pc'[q] = IF q = p THEN point ELSE pc[q]
    BY <1>1, <1>2 DEF WInv, ControlOK
  <2>2. \A q \in Procs : file'[q] = IF q = p THEN f ELSE file[q]
    BY <1>1 DEF WInv, TablesOK
  <2>3. \A q \in Procs : file'[q] # NULL <=> pc'[q] \in {"opening", "loading"}
    BY <1>2, <1>4, <2>1, <2>2 DEF WInv, ControlOK
  <2> QED
    BY <1>1, <2>1, <2>3 DEF WInv, ControlOK
<1>11. WritersShutOut'
  BY <1>1 DEF WInv, WritersShutOut
<1>12. FileInv'
  <2>1. \A q \in Procs : /\ file'[q] = IF q = p THEN f ELSE file[q]
                         /\ pc'[q] = "none" => pc[q] = "none"
    BY <1>1, <1>2 DEF WInv, TablesOK, ControlOK
  <2>2. \A q \in Procs : file'[q] # NULL => file'[q].deny_write = FALSE
    BY <1>4, <2>1 DEF WInv, FileInv
  <2> QED
    BY <1>1, <2>1, <2>2 DEF WInv, FileInv
<1> QED
  BY <1>6, <1>9, <1>10, <1>11, <1>12 DEF WInv

(* The file of a process that is in load().                                *)
LEMMA Loading ==
  ASSUME WInv, NEW p \in Procs, pc[p] \in {"opening", "loading"}
  PROVE  /\ file[p] # NULL /\ file[p] \in OpenFile /\ file[p].inode \in Sectors
         /\ file[p] = Sharer(file[p].inode)
         /\ OpenFiles(file[p]) > 0
         /\ inodes[file[p].inode] # NULL /\ inodes[file[p].inode] \in Inode
<1>1. file[p] # NULL
  BY DEF WInv, ControlOK
<1>2. file[p] \in OpenFile /\ OpenFiles(file[p]) > 0
  BY <1>1, InTables DEF WInv
<1>3. file[p].deny_write = FALSE
  BY <1>1 DEF WInv, FileInv
<1>4. file[p].inode \in Sectors /\ file[p] = Sharer(file[p].inode)
  BY <1>2, <1>3, FileIs
<1>5. inodes[file[p].inode] # NULL /\ inodes[file[p].inode] \in Inode
  BY <1>2, InodeInUse DEF WInv
<1> QED
  BY <1>1, <1>2, <1>4, <1>5

LEMMA LoadReadStep ==
  ASSUME WInv, NEW p \in Procs, LoadRead(p)
  PROVE  WInv'
<1> DEFINE i == file[p].inode
           v == [inodes[i] EXCEPT !.ready = TRUE]
           D == Denying
           O == Others
           d == D[i]
           o == O[i]
<1>1. /\ pc[p] = "opening" /\ pc' = [pc EXCEPT ![p] = "loading"]
      /\ inodes' = [inodes EXCEPT ![i] = v]
      /\ UNCHANGED <<filelock, fd_table, running, file, root, free, panicked,
                     image, spoiled, leaked, lost>>
  BY DEF LoadRead, At, Goto, history
<1>2. i \in Sectors /\ inodes[i] # NULL /\ inodes[i] \in Inode
  BY <1>1, Loading
<1>3. /\ TablesOK' /\ D' = D /\ O' = O
  BY <1>1, TablesKept DEF WInv
<1>4. inodes \in Tables /\ Counted(inodes, D, O)
  BY DEF WInv, InodesCounted, Counted, Tables
<1>5. /\ v \in Inode /\ v.start = inodes[i].start
      /\ v.removed = inodes[i].removed /\ v.open_cnt = inodes[i].open_cnt
      /\ v.deny_write_cnt = inodes[i].deny_write_cnt
  BY <1>2 DEF Inode
<1> HIDE DEF i, v, D, O
<1>6. /\ d \in Nat /\ o \in Nat /\ D = [D EXCEPT ![i] = d]
      /\ O = [O EXCEPT ![i] = o] /\ v # NULL
      /\ v.deny_write_cnt = d /\ v.open_cnt = d + o
  BY <1>2, <1>4, <1>5, FileFacts DEF Counted
<1> HIDE DEF d, o
<1>7. Counted(inodes', [D EXCEPT ![i] = d], [O EXCEPT ![i] = o])
  BY <1>1, <1>2, <1>4, <1>5, <1>6, CountedUpdate
<1>8. InodesCounted'
  BY <1>3, <1>6, <1>7 DEF InodesCounted, D, O
<1>9. /\ inodes'[i] = v
      /\ \A j \in Sectors : j # i => inodes'[j] = inodes[j]
  BY <1>1, <1>2, <1>4 DEF Tables
<1>10. SameDisk(inodes, inodes') /\ inodes' \in Tables
  <2>1. SameDisk(inodes, inodes')
    BY <1>2, <1>5, <1>6, <1>9 DEF SameDisk
  <2>2. inodes' \in Tables
    BY <1>7 DEF Counted, Tables
  <2> QED
    BY <2>1, <2>2
<1>11. RootOK' /\ NamesApart' /\ MapOK'
  BY <1>1, <1>4, <1>10, MapKept DEF WInv
<1>12. ControlOK'
  <2>1. /\ pc' \in [Procs -> {"none", "user", "keyboard", "writing",
                              "opening", "loading", "exiting"}]
        /\ \A q \in Procs : pc'[q] = IF q = p THEN "loading" ELSE pc[q]
    BY <1>1 DEF WInv, ControlOK
  <2>2. \A q \in Procs : file'[q] # NULL <=> pc'[q] \in {"opening", "loading"}
    BY <1>1, <2>1 DEF WInv, ControlOK
  <2> QED
    BY <1>1, <2>1, <2>2 DEF WInv, ControlOK
<1>13. WritersShutOut'
  BY <1>1 DEF WInv, WritersShutOut
<1>14. FileInv'
  <2>1. \A q \in Procs : pc'[q] = "none" => pc[q] = "none"
    BY <1>1 DEF WInv, ControlOK
  <2> QED
    BY <1>1, <2>1 DEF WInv, FileInv
<1> QED
  BY <1>3, <1>8, <1>11, <1>12, <1>13, <1>14 DEF WInv

(* The end of load(), good or bad: the file leaves it.                     *)
LEMMA LeakedAppend ==
  ASSUME TablesOK, NEW g \in OpenFile, leaked' = Append(leaked, g)
  PROVE  Moved(leaked, leaked', g, NULL)
<1> SUFFICES ASSUME NEW f \in OpenFile
             PROVE  Count(leaked', f) = Count(leaked, f) + One(g, f)
                                          - One(NULL, f)
  BY DEF Moved
<1>1. Count(leaked', f) = Count(leaked, f) + One(g, f)
  BY CountAppend DEF TablesOK
<1>2. One(NULL, f) = 0 /\ One(g, f) \in Int /\ Count(leaked, f) \in Nat
  BY OneNull, OpenFilesSum DEF One, IsSum
<1> QED
  BY <1>1, <1>2


LEMMA LoadDoneStep ==
  ASSUME WInv, NEW p \in Procs, LoadDone(p)
  PROVE  WInv'
<1> DEFINE i == file[p].inode
           f == File(i, TRUE)
           v == [inodes[i] EXCEPT !.deny_write_cnt = @ + 1]
<1>1. /\ pc[p] = "loading" /\ pc' = [pc EXCEPT ![p] = "user"]
      /\ \/ running[p] = NULL /\ UNCHANGED leaked
         \/ /\ running[p] # NULL /\ Len(leaked) < MaxLeaks
            /\ leaked' = Append(leaked, running[p])
      /\ running' = [running EXCEPT ![p] = f]
      /\ inodes' = [inodes EXCEPT ![i].deny_write_cnt = @ + 1]
      /\ file' = [file EXCEPT ![p] = NULL]
      /\ image' = [image EXCEPT ![p] = i]
      /\ spoiled' = spoiled \ {p}
      /\ UNCHANGED <<filelock, fd_table, root, free, panicked, lost>>
  BY DEF LoadDone, At, Goto
<1>2. /\ i \in Sectors /\ inodes[i] # NULL /\ inodes[i] \in Inode
      /\ file[p] = Sharer(i) /\ OpenFiles(Sharer(i)) > 0 /\ file[p] # NULL
  BY <1>1, Loading
<1>3. /\ f = Denier(i) /\ f \in OpenFile /\ f # NULL
      /\ f.deny_write = TRUE /\ f.inode = i
  <2>1. f = Denier(i)
    BY DEF Denier
  <2>2. Denier(i).deny_write = TRUE
    BY DEF Denier, File
  <2>3. /\ Denier(i) \in OpenFile /\ Denier(i) # NULL /\ Denier(i).inode = i
    BY <1>2, FileFacts
  <2> HIDE DEF f
  <2> QED
    BY <2>1, <2>2, <2>3
<1>3a. inodes' = [inodes EXCEPT ![i] = v]
  BY <1>1
<1> HIDE DEF i, f
<1>4. running[p] \in OpenFile \cup {NULL}
  BY DEF WInv, TablesOK
<1>5. TablesOK'
  <2>1. leaked' \in Seq(OpenFile)
    BY <1>1, <1>4 DEF WInv, TablesOK
  <2> QED
    BY <1>1, <1>3, <2>1 DEF WInv, TablesOK
<1>6. IsSum /\ IsSum'
  BY <1>5, OpenFilesSum, OpenFilesSumNext DEF WInv
<1>7. Moved(leaked, leaked', running[p], NULL)
  <2>1. CASE running[p] = NULL
    <3>1. Moved(leaked, leaked, NULL, NULL)
      BY TablesFinite, MovedNothing DEF WInv
    <3> QED
      BY <1>1, <2>1, <3>1
  <2>2. CASE running[p] # NULL
    BY <1>1, <1>4, <2>2, LeakedAppend DEF WInv
  <2> QED
    BY <2>1, <2>2
<1>8. Changed(f, Sharer(i))
  <2>1. /\ running \in [Procs -> OpenFile \cup {NULL}]
        /\ file \in [Procs -> OpenFile \cup {NULL}]
    BY DEF WInv, TablesOK
  <2>2. Moved(running, [running EXCEPT ![p] = f], f, running[p])
    BY <2>1, ProcMoved
  <2>3. Moved(file, [file EXCEPT ![p] = NULL], NULL, file[p])
    BY <2>1, ProcMoved
  <2>4. Moved(Descriptors, Descriptors, NULL, NULL)
    BY TablesFinite, MovedNothing DEF WInv
  <2>5. /\ Moved(running, running', f, running[p])
        /\ Moved(file, file', NULL, Sharer(i))
        /\ Moved(Descriptors, Descriptors', NULL, NULL)
    BY <1>1, <1>2, <2>2, <2>3, <2>4 DEF Descriptors, Slots
  <2>6. ASSUME NEW x \in OpenFile
        PROVE  OpenFiles(x)' = OpenFiles(x) + One(f, x) - One(Sharer(i), x)
    <3>1. OpenFiles(x)' = OpenFiles(x) + (One(NULL, x) - One(NULL, x))
                            + (One(f, x) - One(running[p], x))
                            + (One(NULL, x) - One(Sharer(i), x))
                            + One(running[p], x)
      BY <1>6, <1>7, <2>5, MovedTables
    <3>2. /\ One(NULL, x) = 0 /\ One(f, x) \in Int /\ OpenFiles(x) \in Nat
          /\ One(running[p], x) \in Int /\ One(Sharer(i), x) \in Int
      BY <1>6, OneNull DEF One, IsSum
    <3> QED
      BY <3>1, <3>2
  <2> QED
    BY <2>6 DEF Changed
<1>9. InodesCounted'
  BY <1>1, <1>2, <1>3, <1>6, <1>8, DenyStep DEF WInv
<1>10. inodes \in Tables /\ inodes' \in Tables
  BY <1>9 DEF WInv, InodesCounted, Counted, Tables
<1>11. SameDisk(inodes, inodes')
  <2>1. /\ inodes'[i] = v
        /\ \A j \in Sectors : j # i => inodes'[j] = inodes[j]
    BY <1>2, <1>3a, <1>10 DEF Tables
  <2>2. /\ v \in Inode /\ v.start = inodes[i].start
        /\ v.removed = inodes[i].removed
    BY <1>2 DEF Inode
  <2>3. v # NULL
    BY <2>2, FileFacts
  <2> HIDE DEF v
  <2> QED
    BY <1>2, <2>1, <2>2, <2>3 DEF SameDisk
<1>12. RootOK' /\ NamesApart' /\ MapOK'
  BY <1>1, <1>10, <1>11, MapKept DEF WInv
<1>13. ControlOK'
  <2>1. /\ pc' \in [Procs -> {"none", "user", "keyboard", "writing",
                              "opening", "loading", "exiting"}]
        /\ \A q \in Procs : pc'[q] = IF q = p THEN "user" ELSE pc[q]
    BY <1>1 DEF WInv, ControlOK
  <2>2. \A q \in Procs : file'[q] = IF q = p THEN NULL ELSE file[q]
    BY <1>1 DEF WInv, TablesOK
  <2>3. \A q \in Procs : file'[q] # NULL <=> pc'[q] \in {"opening", "loading"}
    BY <2>1, <2>2 DEF WInv, ControlOK
  <2>4. Len(leaked') <= MaxLeaks
    <3>1. Len(leaked) \in Nat /\ MaxLeaks \in Nat
      BY FilesAssumption DEF WInv, TablesOK
    <3>2. running[p] # NULL => Len(Append(leaked, running[p])) = Len(leaked) + 1
      BY <1>4 DEF WInv, TablesOK
    <3> QED
      BY <1>1, <3>1, <3>2 DEF WInv, ControlOK
  <2>5. image' \in [Procs -> Sectors \cup {0}] /\ spoiled' \subseteq Procs
    BY <1>1, <1>2 DEF WInv, ControlOK
  <2> QED
    BY <1>1, <2>1, <2>3, <2>4, <2>5 DEF WInv, ControlOK
<1>14. \A q \in Procs : /\ running'[q] = IF q = p THEN f ELSE running[q]
                        /\ file'[q] = IF q = p THEN NULL ELSE file[q]
                        /\ image'[q] = IF q = p THEN i ELSE image[q]
                        /\ pc'[q] = IF q = p THEN "user" ELSE pc[q]
  BY <1>1 DEF WInv, TablesOK, ControlOK
<1>15. WritersShutOut'
  <2>1. \A q \in spoiled' : q # p /\ q \in spoiled /\ q \in Procs
    BY <1>1 DEF WInv, ControlOK
  <2> QED
    BY <1>14, <2>1 DEF WInv, WritersShutOut
<1>16. FileInv'
  <2> SUFFICES ASSUME NEW q \in Procs PROVE FileInv!(q)'
    BY DEF FileInv
  <2>1. CASE q = p
    <3>1. \A fd \in Fds : fd_table[p][fd] # NULL =>
                            fd_table[p][fd].deny_write = FALSE
      BY DEF WInv, FileInv
    <3> QED
      BY <1>1, <1>3, <1>14, <2>1, <3>1
  <2>2. CASE q # p
    BY <1>1, <1>14, <2>2 DEF WInv, FileInv
  <2> QED
    BY <2>1, <2>2
<1> QED
  BY <1>5, <1>9, <1>12, <1>13, <1>15, <1>16 DEF WInv

LEMMA LoadFailsStep ==
  ASSUME WInv, NEW p \in Procs, LoadFails(p)
  PROVE  WInv'
<1> DEFINE g == file[p]
<1>1. /\ pc[p] = "loading" /\ pc' = [pc EXCEPT ![p] = "exiting"]
      /\ Len(leaked) < MaxLeaks /\ leaked' = Append(leaked, g)
      /\ file' = [file EXCEPT ![p] = NULL]
      /\ UNCHANGED <<filelock, fd_table, running, inodes, root, free, panicked,
                     image, spoiled, lost>>
  BY DEF LoadFails, At, Goto
<1>2. g \in OpenFile
  BY <1>1, Loading
<1>3. TablesOK'
  <2>1. leaked' \in Seq(OpenFile)
    BY <1>1, <1>2 DEF WInv, TablesOK
  <2> QED
    BY <1>1, <2>1 DEF WInv, TablesOK
<1>4. IsSum /\ IsSum'
  BY <1>3, OpenFilesSum, OpenFilesSumNext DEF WInv
<1>5. Changed(NULL, NULL)
  <2>1. file \in [Procs -> OpenFile \cup {NULL}]
    BY DEF WInv, TablesOK
  <2>2. Moved(file, [file EXCEPT ![p] = NULL], NULL, g)
    BY <2>1, ProcMoved
  <2>3. /\ Moved(Descriptors, Descriptors, NULL, NULL)
        /\ Moved(running, running, NULL, NULL)
    BY TablesFinite, MovedNothing DEF WInv
  <2>4. Moved(leaked, leaked', g, NULL)
    BY <1>1, <1>2, LeakedAppend DEF WInv
  <2>5. /\ Moved(running, running', NULL, NULL)
        /\ Moved(file, file', NULL, g)
        /\ Moved(Descriptors, Descriptors', NULL, NULL)
    BY <1>1, <2>2, <2>3 DEF Descriptors, Slots
  <2>6. ASSUME NEW x \in OpenFile
        PROVE  OpenFiles(x)' = OpenFiles(x) + One(NULL, x) - One(NULL, x)
    <3>1. OpenFiles(x)' = OpenFiles(x) + (One(NULL, x) - One(NULL, x))
                            + (One(NULL, x) - One(NULL, x))
                            + (One(NULL, x) - One(g, x)) + One(g, x)
      BY <1>4, <2>4, <2>5, MovedTables
    <3>2. One(NULL, x) = 0 /\ One(g, x) \in Int /\ OpenFiles(x) \in Nat
      BY <1>4, OneNull DEF One, IsSum
    <3> QED
      BY <3>1, <3>2
  <2> QED
    BY <2>6 DEF Changed
<1>6. Denying' = Denying /\ Others' = Others
  <2>1. /\ Denying \in [Sectors -> Nat] /\ Others \in [Sectors -> Nat]
        /\ Denying' \in [Sectors -> Nat] /\ Others' \in [Sectors -> Nat]
    BY <1>4, CountsType, CountsTypeNext
  <2>2. ASSUME NEW j \in Sectors
        PROVE  Denying'[j] = Denying[j] /\ Others'[j] = Others[j]
    <3>1. /\ Denying'[j] = Denying[j] + One(NULL, Denier(j))
                             - One(NULL, Denier(j))
          /\ Others'[j] = Others[j] + One(NULL, Sharer(j))
                            - One(NULL, Sharer(j))
      BY <1>5, ChangedCounts
    <3>2. One(NULL, Denier(j)) = 0 /\ One(NULL, Sharer(j)) = 0
      BY OneIs
    <3> QED
      BY <2>1, <3>1, <3>2
  <2>3. Denying' = Denying
    BY <2>1, <2>2, SameIs
  <2>4. Others' = Others
    BY <2>1, <2>2, SameIs
  <2> QED
    BY <2>3, <2>4
<1>7. InodesCounted'
  BY <1>1, <1>6 DEF WInv, InodesCounted
<1>8. RootOK' /\ NamesApart' /\ MapOK'
  BY <1>1, MapUnchanged DEF WInv
<1>9. \A q \in Procs : /\ file'[q] = IF q = p THEN NULL ELSE file[q]
                       /\ pc'[q] = IF q = p THEN "exiting" ELSE pc[q]
  BY <1>1 DEF WInv, TablesOK, ControlOK
<1>10. ControlOK'
  <2>1. pc' \in [Procs -> {"none", "user", "keyboard", "writing",
                           "opening", "loading", "exiting"}]
    BY <1>1 DEF WInv, ControlOK
  <2>2. \A q \in Procs : file'[q] # NULL <=> pc'[q] \in {"opening", "loading"}
    BY <1>9 DEF WInv, ControlOK
  <2>3. Len(leaked') <= MaxLeaks
    <3>1. Len(leaked) \in Nat /\ MaxLeaks \in Nat
      BY FilesAssumption DEF WInv, TablesOK
    <3>2. Len(Append(leaked, g)) = Len(leaked) + 1
      BY <1>2 DEF WInv, TablesOK
    <3> QED
      BY <1>1, <3>1, <3>2
  <2> QED
    BY <1>1, <2>1, <2>2, <2>3 DEF WInv, ControlOK
<1>11. WritersShutOut'
  BY <1>1 DEF WInv, WritersShutOut
<1>12. FileInv'
  BY <1>1, <1>9 DEF WInv, FileInv
<1> QED
  BY <1>3, <1>7, <1>8, <1>10, <1>11, <1>12 DEF WInv

(* The end of process_exit().                                              *)
LEMMA ExitRunningStep ==
  ASSUME WInv, NEW p \in Procs, ExitRunning(p)
  PROVE  WInv'
<1> DEFINE g == running[p]
<1>1. /\ pc[p] = "exiting" /\ pc' = [pc EXCEPT ![p] = "none"]
      /\ \A fd \in Fds : fd_table[p][fd] = NULL
      /\ \/ g # NULL /\ file_close(g)
         \/ g = NULL /\ UNCHANGED <<inodes, free>>
      /\ running' = [running EXCEPT ![p] = NULL]
      /\ filelock' \in {filelock, Lost}
      /\ image' = [image EXCEPT ![p] = 0]
      /\ spoiled' = spoiled \ {p}
      /\ UNCHANGED <<fd_table, file, root, panicked, leaked, lost>>
  BY DEF ExitRunning, At, Goto
<1>2. TablesOK'
  BY <1>1 DEF WInv, TablesOK
<1>3. IsSum /\ IsSum'
  BY <1>2, OpenFilesSum, OpenFilesSumNext DEF WInv
<1>4. InodesCounted' /\ RootOK' /\ NamesApart' /\ MapOK'
  <2>1. CASE g # NULL /\ file_close(g)
    <3>1. g \in OpenFile /\ OpenFiles(g) > 0
      BY <2>1, InTables DEF WInv
    <3>2. Changed(NULL, g)
      <4>1. running \in [Procs -> OpenFile \cup {NULL}]
        BY DEF WInv, TablesOK
      <4>2. Moved(running, [running EXCEPT ![p] = NULL], NULL, g)
        BY <4>1, ProcMoved
      <4>3. /\ Moved(Descriptors, Descriptors, NULL, NULL)
            /\ Moved(file, file, NULL, NULL)
            /\ Moved(leaked, leaked, NULL, NULL)
        BY TablesFinite, MovedNothing DEF WInv
      <4>4. /\ Moved(running, running', NULL, g)
            /\ Moved(file, file', NULL, NULL)
            /\ Moved(leaked, leaked', NULL, NULL)
            /\ Moved(Descriptors, Descriptors', NULL, NULL)
        BY <1>1, <4>2, <4>3 DEF Descriptors, Slots
      <4>5. ASSUME NEW x \in OpenFile
            PROVE  OpenFiles(x)' = OpenFiles(x) + One(NULL, x) - One(g, x)
        <5>1. OpenFiles(x)' = OpenFiles(x) + (One(NULL, x) - One(NULL, x))
                                + (One(NULL, x) - One(g, x))
                                + (One(NULL, x) - One(NULL, x)) + One(NULL, x)
          BY <1>3, <4>4, MovedTables
        <5>2. One(NULL, x) = 0 /\ One(g, x) \in Int /\ OpenFiles(x) \in Nat
          BY <1>3, OneNull DEF One, IsSum
        <5> QED
          BY <5>1, <5>2
      <4> QED
        BY <4>5 DEF Changed
    <3> QED
      BY <1>1, <1>2, <2>1, <3>1, <3>2, ClosedStep
  <2>2. CASE g = NULL /\ UNCHANGED <<inodes, free>>
    <3>1. UNCHANGED running
      <4>1. running \in [Procs -> OpenFile \cup {NULL}]
        BY DEF WInv, TablesOK
      <4> QED
        BY <1>1, <2>2, <4>1
    <3>2. InodesCounted'
      BY <1>1, <2>2, <3>1, CountsKept DEF WInv
    <3>3. RootOK' /\ NamesApart' /\ MapOK'
      BY <1>1, <2>2, MapUnchanged DEF WInv
    <3> QED
      BY <3>2, <3>3
  <2> QED
    BY <1>1, <2>1, <2>2
<1>5. \A q \in Procs : /\ running'[q] = IF q = p THEN NULL ELSE running[q]
                       /\ image'[q] = IF q = p THEN 0 ELSE image[q]
                       /\ pc'[q] = IF q = p THEN "none" ELSE pc[q]
  BY <1>1 DEF WInv, TablesOK, ControlOK
<1>6. ControlOK'
  <2>1. /\ pc' \in [Procs -> {"none", "user", "keyboard", "writing",
                              "opening", "loading", "exiting"}]
        /\ image' \in [Procs -> Sectors \cup {0}]
    BY <1>1 DEF WInv, ControlOK
  <2>2. \A q \in Procs : file'[q] # NULL <=> pc'[q] \in {"opening", "loading"}
    BY <1>1, <1>5 DEF WInv, ControlOK
  <2> QED
    BY <1>1, <2>1, <2>2 DEF WInv, ControlOK
<1>7. WritersShutOut'
  BY <1>1, <1>5 DEF WInv, WritersShutOut, ControlOK
<1>8. FileInv'
  <2> SUFFICES ASSUME NEW q \in Procs PROVE FileInv!(q)'
    BY DEF FileInv
  <2>1. CASE q = p
    <3>1. file[p] # NULL => file[p].deny_write = FALSE
      BY DEF WInv, FileInv
    <3> QED
      BY <1>1, <1>5, <2>1, <3>1
  <2>2. CASE q # p
    BY <1>1, <1>5, <2>2 DEF WInv, FileInv
  <2> QED
    BY <2>1, <2>2
<1> QED
  BY <1>2, <1>4, <1>6, <1>7, <1>8 DEF WInv
-----------------------------------------------------------------------------
LEMMA InitIInv ==
  ASSUME Init
  PROVE  IInv
<1> DEFINE f == File(1, TRUE)
           e == [sector |-> 1, start |-> 2]
           v == [start |-> 2, ready |-> TRUE, open_cnt |-> 1,
                 deny_write_cnt |-> 1, removed |-> FALSE]
<1>1. /\ 1 \in Sectors /\ 2 \in Sectors /\ First \in Procs /\ Program \in Names
      /\ Sectors \subseteq Nat \ {0} /\ MaxLeaks \in Nat
  BY FilesAssumption, DiskAndTables
<1>2. /\ f = Denier(1) /\ f \in OpenFile /\ f # NULL
      /\ f.deny_write = TRUE /\ f.inode = 1
  <2>1. f = Denier(1)
    BY DEF Denier
  <2>2. Denier(1).deny_write = TRUE
    BY DEF Denier, File
  <2>3. Denier(1) \in OpenFile /\ Denier(1) # NULL /\ Denier(1).inode = 1
    BY <1>1, FileFacts
  <2> HIDE DEF f
  <2> QED
    BY <2>1, <2>2, <2>3
<1>3. /\ e \in Entry /\ e.sector = 1 /\ e.start = 2 /\ e # NULL
      /\ v \in Inode /\ v # NULL /\ v.start = 2 /\ v.open_cnt = 1
      /\ v.deny_write_cnt = 1 /\ v.removed = FALSE
  <2>1. e \in Entry /\ e.sector = 1 /\ e.start = 2
    BY <1>1 DEF Entry
  <2>2. /\ v \in Inode /\ v.start = 2 /\ v.open_cnt = 1
        /\ v.deny_write_cnt = 1 /\ v.removed = FALSE
    BY <1>1 DEF Inode
  <2> QED
    BY <2>1, <2>2, FileFacts
<1>4. /\ pc = [p \in Procs |-> IF p = First THEN "user" ELSE "none"]
      /\ filelock = Nobody /\ panicked = "no" /\ spoiled = {} /\ lost = {}
      /\ leaked = <<>> /\ free = Sectors \ {1, 2}
      /\ fd_table = [p \in Procs |-> [fd \in Fds |-> NULL]]
      /\ running = [p \in Procs |-> IF p = First THEN f ELSE NULL]
      /\ file = [p \in Procs |-> NULL]
      /\ inodes = [i \in Sectors |-> IF i = 1 THEN v ELSE NULL]
      /\ root = [n \in Names |-> IF n = Program THEN e ELSE NULL]
      /\ image = [p \in Procs |-> IF p = First THEN 1 ELSE 0]
  BY DEF Init
<1> HIDE DEF f, e, v
<1>5. ControlOK
  <2>1. \A p \in Procs : file[p] # NULL <=> pc[p] \in {"opening", "loading"}
    BY <1>4
  <2>2. Len(leaked) = 0
    BY <1>4
  <2> QED
    BY <1>1, <1>4, <2>1, <2>2 DEF ControlOK
<1>6. TablesOK
  <2>1. leaked \in Seq(OpenFile)
    BY <1>4
  <2> QED
    BY <1>2, <1>4, <2>1 DEF TablesOK
<1>7. RootOK
  BY <1>3, <1>4 DEF RootOK
<1>8. FileInv
  BY <1>2, <1>4 DEF FileInv
<1>9. WritersShutOut
  BY <1>4 DEF WritersShutOut
<1>10. NamesApart
  BY <1>4 DEF NamesApart
<1>11. inodes \in Tables
  BY <1>3, <1>4 DEF Tables
<1>12. InodesCounted
  <2>1. IsSum
    BY <1>6, OpenFilesSum
  <2>2. Denying \in [Sectors -> Nat] /\ Others \in [Sectors -> Nat]
    BY <2>1, CountsType
  <2>3. ASSUME NEW g \in OpenFile
        PROVE  OpenFiles(g) = IF g = f THEN 1 ELSE 0
    <3>1. OpenFiles(g) = Count(Descriptors, g) + Count(running, g)
                           + Count(file, g) + Count(leaked, g)
      BY <2>1 DEF IsSum, Sum
    <3>2. g # NULL
      BY FileFacts
    <3>3. Places(Descriptors, g) = {} /\ Places(file, g) = {}
          /\ Places(leaked, g) = {}
      BY <1>4, <3>2 DEF Places, Descriptors, Slots
    <3>4. /\ Count(Descriptors, g) = 0 /\ Count(file, g) = 0
          /\ Count(leaked, g) = 0
      BY <3>3, FS_EmptySet DEF Count
    <3>5. CASE g = f
      <4>1. Places(running, g) = {First}
        BY <1>1, <1>4, <3>2, <3>5 DEF Places
      <4>2. Count(running, g) = 1
        BY <4>1, FS_Singleton DEF Count
      <4> QED
        BY <3>1, <3>4, <3>5, <4>2
    <3>6. CASE g # f
      <4>1. Places(running, g) = {}
        BY <1>4, <3>2, <3>6 DEF Places
      <4>2. Count(running, g) = 0
        BY <4>1, FS_EmptySet DEF Count
      <4> QED
        BY <3>1, <3>4, <3>6, <4>2
    <3> QED
      BY <3>5, <3>6
  <2>4. ASSUME NEW i \in Sectors
        PROVE  IF inodes[i] = NULL
               THEN Denying[i] = 0 /\ Others[i] = 0
               ELSE /\ inodes[i].deny_write_cnt = Denying[i]
                    /\ inodes[i].open_cnt = Denying[i] + Others[i]
    <3>1. /\ Denier(i) \in OpenFile /\ Sharer(i) \in OpenFile
          /\ Sharer(i) # f /\ (Denier(i) = f <=> i = 1)
      BY <1>1, <1>2, FileFacts
    <3>2. /\ Denying[i] = OpenFiles(Denier(i))
          /\ Others[i] = OpenFiles(Sharer(i))
      BY DEF Denying, Others
    <3>3. Denying[i] = (IF i = 1 THEN 1 ELSE 0) /\ Others[i] = 0
      BY <2>3, <3>1, <3>2
    <3> QED
      BY <1>3, <1>4, <3>3
  <2> QED
    BY <1>11, <2>2, <2>4 DEF InodesCounted, Counted, Tables
<1>13. MapOK
  <2>1. Named = {e}
    BY <1>1, <1>3, <1>4 DEF Named
  <2>2. /\ inodes[1] = v /\ \A i \in Sectors : inodes[i] # NULL <=> i = 1
    BY <1>1, <1>3, <1>4
  <2>3. EntryOf(inodes, 1) = e
    BY <1>3, <2>2 DEF EntryOf, e
  <2>4. OpenedIn(inodes) = {e}
    BY <1>1, <2>2, <2>3 DEF OpenedIn
  <2>5. RemovedIn(inodes) = {}
    BY <1>3, <2>2 DEF RemovedIn
  <2>6. SectorsIn(e) = {1, 2}
    BY <1>3 DEF SectorsIn, SectorsOf
  <2>7. FreeMap({e}, {e}, {}, Sectors \ {1, 2}, {})
    BY <1>1, <1>3, <2>6 DEF FreeMap
  <2> QED
    BY <1>4, <2>1, <2>4, <2>5, <2>7 DEF MapOK
<1>14. WInv
  BY <1>5, <1>6, <1>7, <1>8, <1>9, <1>10, <1>12, <1>13 DEF WInv
<1> QED
  BY <1>14, IInvIs

LEMMA NextIInv ==
  ASSUME IInv, [Next]_vars
  PROVE  IInv'
<1>1. WInv
  BY IInvIs
<1>2. ASSUME NEW p \in Procs, Step(p)
      PROVE  WInv'
  <2>1. ASSUME NEW n \in Names, NEW k \in Lengths, create(p, n, k)
        PROVE  WInv'
    BY <1>1, <2>1, CreateStep
  <2>2. ASSUME NEW n \in Names, remove(p, n)
        PROVE  WInv'
    BY <1>1, <2>2, RemoveStep
  <2>3. ASSUME NEW n \in Names, open(p, n)
        PROVE  WInv'
    BY <1>1, <2>3, SyscallOpenStep
  <2>4. ASSUME NEW n \in Names, LoadOpen(p, n)
        PROVE  WInv'
    BY <1>1, <2>4, LoadOpenStep
  <2>5. ASSUME NEW fd \in Fds, close(p, fd)
        PROVE  WInv'
    BY <1>1, <2>5, CloseSteps
  <2>6. ASSUME NEW fd \in Fds, write(p, fd)
        PROVE  WInv'
    BY <1>1, <2>6, WriteStep
  <2>7. CASE \/ ReadKeyboard(p) \/ KeyPressed(p) \/ ReadFaults(p)
             \/ UseUnread(p) \/ exit(p) \/ Written(p)
    BY <1>1, <2>7, QuietSteps
  <2>8. ASSUME NEW c \in Procs, fork(p, c)
        PROVE  WInv'
    BY <1>1, <2>8, ForkStep
  <2>9. CASE LoadRead(p)
    BY <1>1, <2>9, LoadReadStep
  <2>10. CASE LoadDone(p)
    BY <1>1, <2>10, LoadDoneStep
  <2>11. CASE LoadFails(p)
    BY <1>1, <2>11, LoadFailsStep
  <2>12. CASE ExitClose(p)
    BY <1>1, <2>12, CloseSteps
  <2>13. CASE ExitRunning(p)
    BY <1>1, <2>13, ExitRunningStep
  <2> QED
    BY <1>2, <2>1, <2>2, <2>3, <2>4, <2>5, <2>6, <2>7, <2>8, <2>9, <2>10,
       <2>11, <2>12, <2>13 DEF Step
<1>3. ASSUME UNCHANGED vars
      PROVE  WInv'
  <2>1. UNCHANGED <<pc, filelock, fd_table, running, file, inodes, root, free,
                    panicked, image, spoiled, leaked, lost>>
    BY <1>3 DEF vars, history
  <2> QED
    BY <1>1, <2>1, NoFileStep
<1>4. ASSUME NEW p \in Procs, NEW q \in Procs, Overlap(p, q)
      PROVE  WInv'
  BY <1>1, <1>4, OverlapStep
<1>5. WInv'
  BY <1>2, <1>3, <1>4 DEF Next
<1> QED
  BY <1>5, IInvIsNext

(* The inductive invariant holds in every state.                           *)
THEOREM Invariance == Spec => []IInv
  BY InitIInv, NextIInv, PTL DEF Spec

(* The tables, the disk and the counts have values the code can hold.      *)
THEOREM TypeCorrect == Spec => []TypeOK
<1>1. IInv => TypeOK
  BY DEF IInv
<1> QED
  BY <1>1, Invariance, PTL

(* inode_open(), inode_close(), file_deny_write() and file_allow_write()   *)
(* keep, for every inode, the counts of the open files of it: no close()   *)
(* frees an inode in use, and none is left behind, until two of them       *)
(* overlap.                                                                *)
THEOREM CountsRight == Spec => []CountsMatch
<1>1. IInv => CountsMatch
  BY DEF IInv
<1> QED
  BY <1>1, Invariance, PTL

(* No two files share a sector, a removed file has its sectors until the   *)
(* last close, and but for what create() loses every sector is free or in  *)
(* use, again until two operations overlap.                                *)
THEOREM FreeMapRight == Spec => []FreeMapExact
<1>1. IInv => FreeMapExact
  BY DEF IInv
<1> QED
  BY <1>1, Invariance, PTL

(* Nobody is let in to write the program of a process that has loaded it  *)
(* itself.                                                                 *)
THEOREM WritersKeptOut == Spec => []WritersShutOut
<1>1. IInv => WritersShutOut
  BY DEF IInv
<1> QED
  BY <1>1, Invariance, PTL
=============================================================================
