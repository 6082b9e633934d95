-------------------------- MODULE Programs_proofs --------------------------
(***************************************************************************)
(* Proofs about the two programs of the course beside PintOS.              *)
(*                                                                         *)
(* ProxyCache, for any number of connections, any uris, sizes and limits:  *)
(* the list stays well linked, and the threads together use it as LRUCache *)
(* says.                                                                   *)
(*                                                                         *)
(* Malloc, for a heap of any length, any chunk and any requests: the       *)
(* blocks tile the heap, no two free ones are neighbours, the free list    *)
(* holds the free blocks once each, and what a trace wrote into a block it *)
(* holds stays there.                                                      *)
(***************************************************************************)
EXTENDS ProxyCache, Malloc, Lists_proofs

(* Two functions on 0 .. n that start alike and go on alike are alike.     *)
LEMMA SameSteps ==
  ASSUME NEW n \in Nat, NEW f, NEW g,
         f[0] = g[0],
         \A k \in 1 .. n : f[k - 1] = g[k - 1] => f[k] = g[k]
  PROVE  \A k \in 0 .. n : f[k] = g[k]
<1> DEFINE Bad == {k \in 0 .. n : f[k] # g[k]}
<1> SUFFICES ASSUME Bad # {}
             PROVE  FALSE
  OBVIOUS
<1>1. Bad \subseteq Nat
  OBVIOUS
<1>2. Min(Bad) \in Bad /\ \A k \in Bad : Min(Bad) <= k
  BY <1>1, MinOfNats
<1>3. PICK k \in 0 .. n : f[k] # g[k] /\ \A j \in 0 .. n : j < k => f[j] = g[j]
  BY <1>2
<1>4. k # 0
  BY <1>3
<1>5. k \in 1 .. n /\ k - 1 \in 0 .. n /\ k - 1 < k
  BY <1>4
<1> QED
  BY <1>3, <1>5

(* A set of numbers that has 0, and with a number the next, has them all.  *)
LEMMA Counting ==
  ASSUME NEW S, 0 \in S, \A n \in Nat : n \in S => n + 1 \in S
  PROVE  \A n \in Nat : n \in S
<1> DEFINE Bad == Nat \ S
<1> SUFFICES ASSUME Bad # {}
             PROVE  FALSE
  OBVIOUS
<1>1. Min(Bad) \in Bad /\ \A k \in Bad : Min(Bad) <= k
  BY MinOfNats
<1>2. PICK k \in Nat : k \notin S /\ \A j \in Nat : j < k => j \in S
  BY <1>1
<1>3. k # 0
  BY <1>2
<1>4. k - 1 \in Nat /\ k - 1 < k /\ (k - 1) + 1 = k
  BY <1>3
<1> QED
  BY <1>2, <1>4
-----------------------------------------------------------------------------
(* The sizes of objects, added up from the left: f[n] is the sum of the    *)
(* first n.                                                                *)
Sums(s, f) ==
  /\ f \in [0 .. Len(s) -> Nat]
  /\ f[0] = 0
  /\ \A n \in 1 .. Len(s) : f[n] = f[n - 1] + s[n].size

(* TotalSize is defined by a fold, which takes the last position of a set  *)
(* of positions, and then the rest of the set.  Such a function exists on  *)
(* the sets of positions of a sequence ...                                 *)
Folds(s, n, iter) ==
  iter = [S \in SUBSET (1 .. n) |->
            IF S = {} THEN 0 ELSE iter[S \ {Max(S)}] + s[Max(S)].size]

(* ... of any length, although the definition of it is recursive.          *)
LEMMA FoldExists ==
  ASSUME NEW s
  PROVE  \A n \in Nat : \E iter : Folds(s, n, iter)
<1> DEFINE Good == {n \in Nat : \E iter : Folds(s, n, iter)}
<1>1. 0 \in Good
  <2>1. SUBSET (1 .. 0) = {{}}
    OBVIOUS
  <2>2. Folds(s, 0, [S \in SUBSET (1 .. 0) |-> 0])
    BY <2>1 DEF Folds
  <2> QED
    BY <2>2
<1>2. ASSUME NEW n \in Nat, n \in Good
      PROVE  n + 1 \in Good
  <2>1. PICK g : Folds(s, n, g)
    BY <1>2
  <2> DEFINE h == [S \in SUBSET (1 .. n + 1) |->
                     IF n + 1 \in S THEN g[S \ {n + 1}] + s[n + 1].size
                     ELSE g[S]]
  <2>2. ASSUME NEW S \in SUBSET (1 .. n + 1)
        PROVE  h[S] = IF S = {} THEN 0
                      ELSE h[S \ {Max(S)}] + s[Max(S)].size
    <3>1. CASE S = {}
      <4>1. h[S] = g[S]
        BY <3>1
      <4>2. g[S] = 0
        BY <2>1, <3>1 DEF Folds
      <4> QED
        BY <3>1, <4>1, <4>2
    <3>2. CASE S # {}
      <4>1. S \subseteq 0 .. n + 1 /\ n + 1 \in Nat
        OBVIOUS
      <4>2. Max(S) \in S /\ \A k \in S : k <= Max(S)
        BY <3>2, <4>1, MaxOfBounded
      <4>3. CASE n + 1 \in S
        <5>1. Max(S) = n + 1
          <6>1. Max(S) \in 1 .. n + 1 /\ n + 1 <= Max(S)
            BY <4>2, <4>3
          <6> QED
            BY <6>1
        <5>2. S \ {n + 1} \in SUBSET (1 .. n + 1) /\ n + 1 \notin S \ {n + 1}
          OBVIOUS
        <5>3. h[S \ {n + 1}] = g[S \ {n + 1}]
          BY <5>2
        <5>4. h[S] = g[S \ {n + 1}] + s[n + 1].size
          BY <4>3
        <5> QED
          BY <3>2, <5>1, <5>3, <5>4
      <4>4. CASE n + 1 \notin S
        <5>1. S \in SUBSET (1 .. n)
          BY <4>4
        <5>2. S \ {Max(S)} \in SUBSET (1 .. n + 1)
              /\ n + 1 \notin S \ {Max(S)}
          BY <4>4
        <5>3. h[S] = g[S] /\ h[S \ {Max(S)}] = g[S \ {Max(S)}]
          BY <4>4, <5>2
        <5>4. g[S] = g[S \ {Max(S)}] + s[Max(S)].size
          BY <2>1, <3>2, <5>1 DEF Folds
        <5> QED
          BY <3>2, <5>3, <5>4
      <4> QED
        BY <4>3, <4>4
    <3> QED
      BY <3>1, <3>2
  <2>3. Folds(s, n + 1, h)
    <3> HIDE DEF h
    <3>1. h = [S \in SUBSET (1 .. n + 1) |-> h[S]]
      BY DEF h
    <3> QED
      BY <2>2, <3>1 DEF Folds
  <2> HIDE DEF h
  <2> QED
    BY <2>3
<1> HIDE DEF Good
<1>3. \A n \in Nat : n \in Good
  BY <1>1, <1>2, Counting
<1> QED
  BY <1>3 DEF Good

(* ... and at the first n positions it is the sum of the first n sizes.    *)
LEMMA TotalIsSum ==
  ASSUME NEW S, NEW s \in Seq(S), NEW f, Sums(s, f)
  PROVE  LRU!TotalSize(s) = f[Len(s)]
<1> DEFINE iter == CHOOSE g : Folds(s, Len(s), g)
           h == [k \in 0 .. Len(s) |-> iter[1 .. k]]
<1>1. DOMAIN s = 1 .. Len(s) /\ Len(s) \in Nat
  OBVIOUS
<1>2. LRU!TotalSize(s) = iter[1 .. Len(s)]
  <2>1. LRU!TotalSize(s) =
          (CHOOSE g : g = [T \in SUBSET DOMAIN s |->
                             IF T = {} THEN 0
                             ELSE g[T \ {Max(T)}] + s[Max(T)].size])[DOMAIN s]
    BY DEF LRU!TotalSize, LRU!FoldLeft, LRU!MapThenFoldSet, LRU!Max, Max
  <2> QED
    BY <1>1, <2>1 DEF Folds
<1>3. Folds(s, Len(s), iter)
  BY <1>1, FoldExists
<1> HIDE DEF iter
<1>4. h[0] = f[0]
  <2>1. 1 .. 0 = {} /\ {} \in SUBSET (1 .. Len(s))
    OBVIOUS
  <2>2. iter[{}] = 0
    BY <1>3, <2>1 DEF Folds
  <2> QED
    BY <1>1, <2>1, <2>2 DEF Sums
<1>5. ASSUME NEW k \in 1 .. Len(s), h[k - 1] = f[k - 1]
      PROVE  h[k] = f[k]
  <2> DEFINE T == 1 .. k
  <2>1. k \in Nat /\ k \in T /\ k <= Len(s)
    BY <1>1
  <2>2. T \subseteq 1 .. Len(s) /\ T # {} /\ T \subseteq 0 .. k
    <3>1. \A j \in 1 .. k : j \in 1 .. Len(s) /\ j \in 0 .. k
      BY <1>1
    <3> QED
      BY <2>1, <3>1
  <2>3. Max(T) = k
    <3>1. Max(T) \in T /\ \A j \in T : j <= Max(T)
      BY <2>1, <2>2, MaxOfBounded
    <3>2. k \in T
      BY <1>1
    <3>3. Max(T) \in 1 .. k /\ k <= Max(T)
      BY <3>1, <3>2
    <3> QED
      BY <1>1, <3>3
  <2>4. T \ {k} = 1 .. k - 1
    BY <1>1
  <2>5. iter[T] = iter[T \ {Max(T)}] + s[Max(T)].size
    BY <1>3, <2>2 DEF Folds
  <2>6. iter[T] = iter[1 .. k - 1] + s[k].size
    BY <2>3, <2>4, <2>5
  <2>7. k \in 0 .. Len(s) /\ k - 1 \in 0 .. Len(s)
    BY <1>1
  <2>8. h[k] = h[k - 1] + s[k].size
    BY <2>6, <2>7
  <2> QED
    BY <1>5, <2>8 DEF Sums
<1> HIDE DEF h
<1>6. h[Len(s)] = f[Len(s)]
  <2>1. \A k \in 1 .. Len(s) : h[k - 1] = f[k - 1] => h[k] = f[k]
    BY <1>5
  <2> DEFINE n == Len(s)
  <2>2. n \in Nat
    BY <1>1
  <2>5. \A k \in 1 .. n : h[k - 1] = f[k - 1] => h[k] = f[k]
    BY <2>1
  <2>6. h[0] = f[0]
    BY <1>4
  <2> HIDE DEF n
  <2>3. \A k \in 0 .. n : h[k] = f[k]
    BY <2>2, <2>5, <2>6, SameSteps, Zenon
  <2>4. h[n] = f[n]
    BY <2>2, <2>3
  <2> QED
    BY <2>4 DEF n
<1> QED
  BY <1>1, <1>2, <1>6 DEF h

(* The partial sums exist.                                                 *)
LEMMA SumsExist ==
  ASSUME NEW S, NEW s \in Seq(S), \A i \in 1 .. Len(s) : s[i].size \in Nat
  PROVE  \E f : Sums(s, f)
<1> DEFINE Upto(n, f) ==
             /\ f \in [0 .. n -> Nat]
             /\ f[0] = 0
             /\ \A k \in 1 .. n : f[k] = f[k - 1] + s[k].size
           Good == {n \in Nat : n <= Len(s) => \E f : Upto(n, f)}
<1>1. 0 \in Good
  <2>1. Upto(0, [k \in 0 .. 0 |-> 0])
    OBVIOUS
  <2> QED
    BY <2>1
<1>2. ASSUME NEW n \in Nat, n \in Good
      PROVE  n + 1 \in Good
  <2> SUFFICES ASSUME n + 1 <= Len(s)
               PROVE  \E f : Upto(n + 1, f)
    <3> HIDE DEF Upto
    <3> QED
      OBVIOUS
  <2>1. PICK f : Upto(n, f)
    BY <1>2
  <2> DEFINE g == [k \in 0 .. n + 1 |->
                     IF k <= n THEN f[k] ELSE f[n] + s[n + 1].size]
  <2>2. n + 1 \in 1 .. Len(s) /\ s[n + 1].size \in Nat
    OBVIOUS
  <2>3. f[n] \in Nat
    BY <2>1
  <2>4. g \in [0 .. n + 1 -> Nat]
    BY <2>1, <2>2, <2>3
  <2>5. g[0] = 0
    BY <2>1
  <2>6. ASSUME NEW k \in 1 .. n + 1
        PROVE  g[k] = g[k - 1] + s[k].size
    <3>1. CASE k <= n
      BY <2>1, <3>1
    <3>2. CASE k = n + 1
      BY <2>1, <3>2
    <3> QED
      BY <3>1, <3>2
  <2> QED
    BY <2>4, <2>5, <2>6
<1> HIDE DEF Good
<1>3. \A n \in Nat : n \in Good
  BY <1>1, <1>2, Counting
<1>4. \E f : Upto(Len(s), f)
  <2> HIDE DEF Upto
  <2>1. Len(s) \in Nat /\ Len(s) <= Len(s)
    OBVIOUS
  <2> QED
    BY <1>3, <2>1 DEF Good
<1> QED
  BY <1>4 DEF Sums

(* They do not decrease.                                                   *)
LEMMA SumsIncrease ==
  ASSUME NEW S, NEW s \in Seq(S), \A i \in 1 .. Len(s) : s[i].size \in Nat,
         NEW f, Sums(s, f)
  PROVE  \A k, j \in 0 .. Len(s) : k <= j => f[k] <= f[j]
<1> SUFFICES ASSUME NEW k \in 0 .. Len(s)
             PROVE  \A j \in 0 .. Len(s) : k <= j => f[k] <= f[j]
  OBVIOUS
<1> DEFINE Good == {n \in Nat : k + n <= Len(s) => f[k] <= f[k + n]}
<1>1. 0 \in Good
  BY DEF Sums
<1>2. ASSUME NEW n \in Nat, n \in Good
      PROVE  n + 1 \in Good
  <2> SUFFICES ASSUME k + (n + 1) <= Len(s)
               PROVE  f[k] <= f[k + (n + 1)]
    OBVIOUS
  <2>1. k + n \in 0 .. Len(s) /\ k + (n + 1) \in 1 .. Len(s)
        /\ k + (n + 1) - 1 = k + n
    OBVIOUS
  <2> DEFINE m == k + (n + 1)
  <2>2. /\ f[m] = f[m - 1] + s[m].size
        /\ f[k] \in Nat /\ f[m - 1] \in Nat /\ f[m] \in Nat
    <3>1. m \in 1 .. Len(s) /\ m \in 0 .. Len(s) /\ m - 1 \in 0 .. Len(s)
      BY <2>1
    <3> HIDE DEF m
    <3> QED
      BY <3>1 DEF Sums
  <2>3. s[m].size \in Nat /\ f[k] <= f[m - 1]
    BY <1>2, <2>1
  <2> HIDE DEF m
  <2>4. f[k] <= f[m]
    BY <2>2, <2>3
  <2> QED
    BY <2>4 DEF m
<1> HIDE DEF Good
<1>3. \A n \in Nat : n \in Good
  BY <1>1, <1>2, Counting
<1> SUFFICES ASSUME NEW j \in 0 .. Len(s), k <= j
             PROVE  f[k] <= f[j]
  OBVIOUS
<1>4. j - k \in Nat /\ k + (j - k) = j
  OBVIOUS
<1> QED
  BY <1>3, <1>4 DEF Good

(* The total of the first k objects.                                       *)
LEMMA TotalOfPrefix ==
  ASSUME NEW S, NEW s \in Seq(S), NEW f, Sums(s, f), NEW k \in 0 .. Len(s)
  PROVE  LRU!TotalSize(SubSeq(s, 1, k)) = f[k]
<1> DEFINE r == SubSeq(s, 1, k)
           g == [n \in 0 .. k |-> f[n]]
<1>1. r \in Seq(S) /\ Len(r) = k /\ \A i \in 1 .. k : r[i] = s[i]
  OBVIOUS
<1> HIDE DEF r
<1>2. Sums(r, g)
  <2>1. /\ g \in [0 .. k -> Nat] /\ g[0] = 0
        /\ \A n \in 1 .. k : g[n] = g[n - 1] + s[n].size
    BY DEF Sums
  <2> HIDE DEF g
  <2> QED
    BY <1>1, <2>1 DEF Sums
<1>3. LRU!TotalSize(r) = g[Len(r)]
  BY <1>1, <1>2, TotalIsSum
<1> QED
  BY <1>1, <1>3 DEF r

(* The total of an object and the first k others.                          *)
LEMMA TotalWithFirst ==
  ASSUME NEW S, NEW s \in Seq(S), \A i \in 1 .. Len(s) : s[i].size \in Nat,
         NEW f, Sums(s, f), NEW k \in 0 .. Len(s),
         NEW r \in Seq(S), Len(r) = k + 1, r[1].size \in Nat,
         \A i \in 1 .. k : r[i + 1] = s[i]
  PROVE  LRU!TotalSize(r) = f[k] + r[1].size
<1> DEFINE g == [n \in 0 .. k + 1 |-> IF n = 0 THEN 0
                                      ELSE f[n - 1] + r[1].size]
<1>1. \A n \in 0 .. Len(s) : f[n] \in Nat
  BY DEF Sums
<1>2. g \in [0 .. k + 1 -> Nat] /\ g[0] = 0
  <2>1. ASSUME NEW n \in 0 .. k + 1
        PROVE  (IF n = 0 THEN 0 ELSE f[n - 1] + r[1].size) \in Nat
    <3>1. n # 0 => n - 1 \in 0 .. Len(s)
      OBVIOUS
    <3> QED
      BY <1>1, <3>1
  <2> QED
    BY <2>1
<1>3. ASSUME NEW n \in 1 .. k + 1
      PROVE  g[n] = g[n - 1] + r[n].size
  <2>1. n \in 0 .. k + 1 /\ n - 1 \in 0 .. k + 1
    OBVIOUS
  <2>2. CASE n = 1
    <3>1. f[0] = 0
      BY DEF Sums
    <3>2. g[1] = f[0] + r[1].size /\ g[0] = 0
      BY <2>1, <2>2
    <3> QED
      BY <2>2, <3>1, <3>2
  <2>3. CASE n # 1
    <3>1. n - 1 \in 1 .. Len(s) /\ n - 1 \in 1 .. k /\ (n - 1) + 1 = n
      BY <2>3
    <3>2. f[n - 1] = f[(n - 1) - 1] + s[n - 1].size
      BY <3>1 DEF Sums
    <3>3. r[n] = s[n - 1]
      BY <3>1
    <3>4. g[n] = f[n - 1] + r[1].size /\ g[n - 1] = f[(n - 1) - 1] + r[1].size
      BY <2>1, <2>3
    <3>5. f[(n - 1) - 1] \in Nat /\ f[n - 1] \in Nat
      BY <1>1, <3>1
    <3>6. s[n - 1].size \in Nat
      BY <3>1
    <3>7. \A a, b, c \in Nat : (a + b) + c = (a + c) + b
      OBVIOUS
    <3>8. (f[(n - 1) - 1] + s[n - 1].size) + r[1].size
            = (f[(n - 1) - 1] + r[1].size) + s[n - 1].size
      BY <3>5, <3>6, <3>7
    <3>9. g[n] = (f[(n - 1) - 1] + s[n - 1].size) + r[1].size
      BY <3>2, <3>4
    <3> HIDE DEF g
    <3> QED
      BY <3>3, <3>4, <3>8, <3>9
  <2> QED
    BY <2>2, <2>3
<1> HIDE DEF g
<1>4. Sums(r, g)
  BY <1>2, <1>3 DEF Sums
<1>5. LRU!TotalSize(r) = g[k + 1]
  BY <1>4, TotalIsSum
<1> QED
  BY <1>5 DEF g

(* Moving an object to the front does not change the total.                *)
MovedUp(s, i) == [j \in 1 .. Len(s) |-> IF j = 1 THEN s[i]
                                      ELSE IF j <= i THEN s[j - 1] ELSE s[j]]

(* The elements of two sequences joined.                                   *)
LEMMA Concat ==
  ASSUME NEW S, NEW a \in Seq(S), NEW b \in Seq(S)
  PROVE  /\ a \o b \in Seq(S) /\ Len(a \o b) = Len(a) + Len(b)
         /\ \A j \in 1 .. Len(a) + Len(b) :
              (a \o b)[j] = IF j <= Len(a) THEN a[j] ELSE b[j - Len(a)]
  OBVIOUS

(* ... is taking it out and putting it first.                              *)
LEMMA MovedIs ==
  ASSUME NEW S, NEW s \in Seq(S), NEW i \in 1 .. Len(s)
  PROVE  /\ MovedUp(s, i) \in Seq(S)
         /\ Len(MovedUp(s, i)) = Len(s)
         /\ MovedUp(s, i) = <<s[i]>> \o RemoveAt(s, i)
<1> DEFINE r == MovedUp(s, i)
           a == SubSeq(s, 1, i - 1)
           b == SubSeq(s, i + 1, Len(s))
           d == a \o b
<1>1. r \in Seq(S) /\ Len(r) = Len(s)
  <2>1. \A j \in 1 .. Len(s) : r[j] \in S
    <3> SUFFICES ASSUME NEW j \in 1 .. Len(s)
                 PROVE  r[j] \in S
      OBVIOUS
    <3>1. j # 1 => j - 1 \in 1 .. Len(s)
      OBVIOUS
    <3> QED
      BY <3>1 DEF MovedUp
  <2>2. r \in [1 .. Len(s) -> S]
    BY <2>1 DEF MovedUp
  <2> QED
    BY <2>2, FunIsSeq
<1>2. /\ a \in Seq(S) /\ Len(a) = i - 1
      /\ \A j \in 1 .. i - 1 : a[j] = s[j]
  OBVIOUS
<1>3. /\ b \in Seq(S) /\ Len(b) = Len(s) - i
      /\ \A j \in 1 .. Len(s) - i : b[j] = s[i + j]
  OBVIOUS
<1> HIDE DEF a, b
<1>4. /\ d \in Seq(S) /\ Len(d) = Len(s) - 1
      /\ \A j \in 1 .. Len(s) - 1 : d[j] = IF j < i THEN s[j] ELSE s[j + 1]
  <2>1. /\ d \in Seq(S) /\ Len(d) = Len(s) - 1
        /\ \A j \in 1 .. Len(s) - 1 :
             d[j] = IF j <= i - 1 THEN a[j] ELSE b[j - (i - 1)]
    <3>1. /\ d \in Seq(S) /\ Len(d) = Len(a) + Len(b)
          /\ \A j \in 1 .. Len(a) + Len(b) :
               d[j] = IF j <= Len(a) THEN a[j] ELSE b[j - Len(a)]
      BY <1>2, <1>3, Concat
    <3>2. Len(a) + Len(b) = Len(s) - 1
      BY <1>2, <1>3
    <3> HIDE DEF d
    <3> QED
      BY <1>2, <3>1, <3>2
  <2> HIDE DEF d
  <2>2. ASSUME NEW j \in 1 .. Len(s) - 1
        PROVE  d[j] = IF j < i THEN s[j] ELSE s[j + 1]
    <3>1. CASE j < i
      <4>1. j <= i - 1 /\ j \in 1 .. i - 1
        BY <3>1
      <4> QED
        BY <1>2, <2>1, <3>1, <4>1
    <3>2. CASE j >= i
      <4>1. j - (i - 1) \in 1 .. Len(s) - i /\ i + (j - (i - 1)) = j + 1
        BY <3>2
      <4>2. d[j] = b[j - (i - 1)]
        <5>1. d[j] = IF j <= i - 1 THEN a[j] ELSE b[j - (i - 1)]
          BY <2>1
        <5>2. ~ (j <= i - 1)
          BY <3>2
        <5> QED
          BY <5>1, <5>2
      <4> QED
        BY <1>3, <3>2, <4>1, <4>2
    <3> QED
      BY <3>1, <3>2
  <2> QED
    BY <2>1, <2>2
<1>5. RemoveAt(s, i) = d
  BY DEF RemoveAt, a, b
<1> HIDE DEF d
<1>6. /\ <<s[i]>> \o d \in Seq(S) /\ Len(<<s[i]>> \o d) = Len(s)
      /\ \A j \in 1 .. Len(s) : (<<s[i]>> \o d)[j] = r[j]
  <2>1. <<s[i]>> \in Seq(S) /\ Len(<<s[i]>>) = 1 /\ <<s[i]>>[1] = s[i]
    OBVIOUS
  <2>2. <<s[i]>> \o d \in Seq(S) /\ Len(<<s[i]>> \o d) = Len(s)
    BY <1>4, <2>1
  <2>3. ASSUME NEW j \in 1 .. Len(s)
        PROVE  (<<s[i]>> \o d)[j] = r[j]
    <3>1. CASE j = 1
      BY <1>4, <2>1, <3>1 DEF MovedUp
    <3>2. CASE j # 1
      <4>1. j - 1 \in 1 .. Len(s) - 1 /\ (j - 1) + 1 = j
        BY <3>2
      <4>2. (<<s[i]>> \o d)[j] = d[j - 1]
        BY <1>4, <2>1, <4>1
      <4> QED
        BY <1>4, <3>2, <4>1, <4>2 DEF MovedUp
    <3> QED
      BY <3>1, <3>2
  <2> QED
    BY <2>2, <2>3
<1> HIDE DEF r
<1>7. <<s[i]>> \o d = r
  <2> DEFINE e == <<s[i]>> \o d
  <2>1. e = [j \in 1 .. Len(s) |-> e[j]] /\ r = [j \in 1 .. Len(s) |-> r[j]]
    BY <1>1, <1>6
  <2>2. \A j \in 1 .. Len(s) : e[j] = r[j]
    BY <1>6
  <2> HIDE DEF e
  <2>3. e = r
    BY <2>1, <2>2
  <2> QED
    BY <2>3 DEF e
<1> QED
  BY <1>1, <1>5, <1>7 DEF r

(* The total after such a move.                                            *)
LEMMA TotalMoved ==
  ASSUME NEW S, NEW s \in Seq(S), \A j \in 1 .. Len(s) : s[j].size \in Nat,
         NEW f, Sums(s, f), NEW i \in 1 .. Len(s)
  PROVE  LRU!TotalSize(MovedUp(s, i)) = f[Len(s)]
<1> DEFINE r == MovedUp(s, i)
           x == s[i].size
           g == [n \in 0 .. Len(s) |-> IF n = 0 THEN 0
                                       ELSE IF n <= i THEN f[n - 1] + x
                                       ELSE f[n]]
<1>1. \A n \in 0 .. Len(s) : f[n] \in Nat
  BY DEF Sums
<1>2. x \in Nat
  OBVIOUS
<1>3. \A n \in 1 .. Len(s) : f[n] = f[n - 1] + s[n].size
  BY DEF Sums
<1> HIDE DEF x
<1>4. g \in [0 .. Len(s) -> Nat] /\ g[0] = 0
  <2>1. ASSUME NEW n \in 0 .. Len(s)
        PROVE  (IF n = 0 THEN 0 ELSE IF n <= i THEN f[n - 1] + x ELSE f[n])
                 \in Nat
    <3>1. n # 0 => n - 1 \in 0 .. Len(s)
      OBVIOUS
    <3> QED
      BY <1>1, <1>2, <3>1
  <2> QED
    BY <2>1
<1>5. ASSUME NEW n \in 1 .. Len(s)
      PROVE  g[n] = g[n - 1] + r[n].size
  <2>1. n \in 0 .. Len(s) /\ n - 1 \in 0 .. Len(s)
    OBVIOUS
  <2>2. CASE n = 1
    <3>1. f[0] = 0
      BY DEF Sums
    <3>2. g[1] = f[0] + x /\ g[0] = 0 /\ r[1].size = x
      BY <2>1, <2>2 DEF MovedUp, x
    <3> QED
      BY <1>2, <2>2, <3>1, <3>2
  <2>3. CASE n # 1 /\ n <= i
    <3>1. n - 1 \in 1 .. Len(s)
      BY <2>3
    <3>2. f[n - 1] = f[(n - 1) - 1] + s[n - 1].size
      BY <1>3, <3>1
    <3>3. r[n] = s[n - 1] /\ s[n - 1].size \in Nat
      BY <2>3, <3>1 DEF MovedUp
    <3>4. g[n] = f[n - 1] + x /\ g[n - 1] = f[(n - 1) - 1] + x
      BY <2>1, <2>3
    <3>5. f[(n - 1) - 1] \in Nat
      BY <1>1, <3>1
    <3>6. \A a, b, c \in Nat : (a + b) + c = (a + c) + b
      OBVIOUS
    <3>7. (f[(n - 1) - 1] + s[n - 1].size) + x
            = (f[(n - 1) - 1] + x) + s[n - 1].size
      BY <1>2, <3>3, <3>5, <3>6
    <3> HIDE DEF g, r
    <3> QED
      BY <3>2, <3>3, <3>4, <3>7
  <2>4. CASE n > i
    <3>1. r[n] = s[n] /\ g[n] = f[n]
      BY <2>1, <2>4 DEF MovedUp
    <3>2. g[n - 1] = f[n - 1]
      <4>1. CASE n - 1 = i
        <5>1. n - 1 # 0 /\ n - 1 <= i
          BY <2>1, <4>1
        <5>2. g[n - 1] = f[(n - 1) - 1] + x
          BY <2>1, <5>1
        <5>3. f[n - 1] = f[(n - 1) - 1] + x
          BY <1>3, <4>1 DEF x
        <5> QED
          BY <5>2, <5>3
      <4>2. CASE n - 1 # i
        BY <2>1, <2>4, <4>2
      <4> QED
        BY <4>1, <4>2
    <3> QED
      BY <1>3, <3>1, <3>2
  <2> QED
    BY <2>2, <2>3, <2>4
<1> HIDE DEF g, r
<1>6. r \in Seq(S) /\ Len(r) = Len(s)
  BY MovedIs DEF r
<1>7. Sums(r, g)
  BY <1>4, <1>5, <1>6 DEF Sums
<1>8. LRU!TotalSize(r) = g[Len(s)]
  BY <1>6, <1>7, TotalIsSum
<1>9. g[Len(s)] = f[Len(s)]
  <2>1. Len(s) \in 0 .. Len(s) /\ Len(s) # 0
    OBVIOUS
  <2>2. CASE Len(s) = i
    <3>1. g[Len(s)] = f[i - 1] + x
      BY <2>1, <2>2 DEF g
    <3> QED
      BY <1>3, <2>2, <3>1 DEF x
  <2>3. CASE Len(s) # i
    BY <2>1, <2>3 DEF g
  <2> QED
    BY <2>2, <2>3
<1> QED
  BY <1>8, <1>9 DEF r
-----------------------------------------------------------------------------
(* The list of a cache as a sequence of blocks, which the program does not *)
(* have: it is well linked in both directions, and the rest is free.       *)
At(s, i) == IF i \in 1 .. Len(s) THEN s[i] ELSE NULL

Distinct(s) == \A i, j \in 1 .. Len(s) : s[i] = s[j] => i = j

LinkAt(c, s, i) ==
  /\ c.block[s[i]].prev = At(s, i - 1)
  /\ c.block[s[i]].next = At(s, i + 1)
  /\ c.block[s[i]].uri \in Uris

Strung(c, s) ==
  /\ s \in Seq(Blocks) /\ Distinct(s)
  /\ c.head = At(s, 1) /\ c.tail = At(s, Len(s))
  /\ \A i \in 1 .. Len(s) : LinkAt(c, s, i)
  /\ \A p \in Blocks : (\A i \in 1 .. Len(s) : s[i] # p) => c.block[p] = Freed

(* What is on the list.                                                    *)
Contents(c, s) == [i \in 1 .. Len(s) |-> [uri |-> c.block[s[i]].uri,
                                          size |-> c.block[s[i]].size]]

(* There are no more blocks on the list than there are.                    *)
LEMMA ChainLength ==
  ASSUME NEW s \in Seq(Blocks), Distinct(s)
  PROVE  Len(s) \in Nat /\ Len(s) <= BlockCount
<1>1. Len(s) \in Nat /\ BlockCount \in Nat
  BY ProxyCacheAssumption
<1>2. s \in Injection(1 .. Len(s), 1 .. BlockCount)
  <2>1. s \in [1 .. Len(s) -> Blocks]
    OBVIOUS
  <2>2. s \in [1 .. Len(s) -> 1 .. BlockCount]
    BY <2>1 DEF Blocks
  <2> QED
    BY <2>2 DEF Injection, IsInjective, Distinct
<1>3. /\ IsFiniteSet(1 .. BlockCount)
      /\ Cardinality(1 .. BlockCount) = BlockCount
      /\ Cardinality(1 .. Len(s)) = Len(s)
  <2>1. \A n \in Nat : IsFiniteSet(1 .. n) /\ Cardinality(1 .. n) = n
    BY FS_Interval
  <2> QED
    BY <1>1, <2>1
<1>4. Cardinality(1 .. Len(s)) <= Cardinality(1 .. BlockCount)
  BY <1>2, <1>3, FS_Injection
<1> QED
  BY <1>1, <1>3, <1>4

(* Reading the list along next gives its blocks one by one.                *)
LEMMA ListIs ==
  ASSUME NEW c, NEW s, Strung(c, s)
  PROVE  /\ DOMAIN List(c) = 0 .. BlockCount
         /\ \A n \in 0 .. BlockCount : List(c)[n] = At(s, n + 1)
<1>1. s \in Seq(Blocks) /\ Len(s) \in Nat /\ Len(s) <= BlockCount
  BY ChainLength DEF Strung
<1>2. BlockCount \in Nat /\ Blocks \cup {0} = 0 .. BlockCount
  BY ProxyCacheAssumption DEF Blocks
<1> DEFINE Reads(f) ==
             f = [n \in Blocks \cup {0} |->
                    IF n = 0 THEN c.head
                    ELSE IF f[n - 1] = NULL THEN NULL
                    ELSE c.block[f[n - 1]].next]
           g == [n \in 0 .. BlockCount |-> At(s, n + 1)]
<1>3. ASSUME NEW n \in 0 .. BlockCount
      PROVE  At(s, n + 1) = IF n = 0 THEN c.head
                            ELSE IF At(s, n) = NULL THEN NULL
                            ELSE c.block[At(s, n)].next
  <2>1. CASE n = 0
    BY <2>1 DEF Strung
  <2>2. CASE n \in 1 .. Len(s)
    <3>1. At(s, n) = s[n] /\ s[n] # NULL /\ n # 0
      BY <1>1, <2>2, ProxyCacheAssumption DEF At, Blocks, NULL
    <3>2. c.block[s[n]].next = At(s, n + 1)
      BY <2>2 DEF Strung, LinkAt
    <3> QED
      BY <3>1, <3>2
  <2>3. CASE n > Len(s)
    <3>1. At(s, n) = NULL /\ At(s, n + 1) = NULL /\ n # 0
      BY <1>1, <2>3 DEF At
    <3> QED
      BY <3>1
  <2> QED
    BY <1>1, <1>2, <2>1, <2>2, <2>3
<1>4. Reads(g)
  <2>1. ASSUME NEW n \in 0 .. BlockCount
        PROVE  g[n] = IF n = 0 THEN c.head
                      ELSE IF g[n - 1] = NULL THEN NULL
                      ELSE c.block[g[n - 1]].next
    <3>1. n # 0 => g[n - 1] = At(s, n)
      <4> SUFFICES ASSUME n # 0
                   PROVE  g[n - 1] = At(s, n)
        OBVIOUS
      <4>1. n - 1 \in 0 .. BlockCount /\ (n - 1) + 1 = n
        BY <1>2
      <4> QED
        BY <4>1
    <3>2. g[n] = At(s, n + 1)
      OBVIOUS
    <3> HIDE DEF g
    <3> QED
      BY <1>3, <3>1, <3>2
  <2>2. g = [n \in 0 .. BlockCount |-> g[n]]
    OBVIOUS
  <2> HIDE DEF g
  <2> QED
    BY <1>2, <2>1, <2>2
<1>5. List(c) = CHOOSE f : Reads(f)
  BY DEF List
<1> HIDE DEF g
<1>6. Reads(List(c))
  <2> HIDE DEF Reads
  <2> QED
    BY <1>4, <1>5
<1> DEFINE l == List(c)
<1> HIDE DEF l
<1>7. /\ DOMAIN l = 0 .. BlockCount
      /\ \A n \in 0 .. BlockCount :
           l[n] = IF n = 0 THEN c.head
                  ELSE IF l[n - 1] = NULL THEN NULL
                  ELSE c.block[l[n - 1]].next
  BY <1>2, <1>6 DEF l
<1>8. \A n \in 0 .. BlockCount : l[n] = g[n]
  <2>1. l[0] = g[0]
    BY <1>2, <1>4, <1>7
  <2>2. ASSUME NEW n \in 1 .. BlockCount, l[n - 1] = g[n - 1]
        PROVE  l[n] = g[n]
    <3>1. n \in 0 .. BlockCount /\ n # 0
      BY <1>2
    <3> QED
      BY <1>2, <1>4, <1>7, <2>2, <3>1
  <2> QED
    BY <1>2, <2>1, <2>2, SameSteps
<1> QED
  BY <1>7, <1>8 DEF g, l

(* At is NULL beyond the ends of the list, and nowhere else.               *)
LEMMA AtFacts ==
  ASSUME NEW s \in Seq(Blocks), NEW n \in Int
  PROVE  /\ n \in 1 .. Len(s) => At(s, n) = s[n] /\ s[n] \in Blocks
                                 /\ s[n] # NULL
         /\ n \notin 1 .. Len(s) => At(s, n) = NULL
         /\ At(s, n) = NULL <=> n \notin 1 .. Len(s)
         /\ At(s, n) \in Blocks \cup {NULL}
<1>1. n \in 1 .. Len(s) => s[n] \in Blocks
  OBVIOUS
<1>2. NULL \notin Blocks
  BY ProxyCacheAssumption DEF NULL, Blocks
<1> QED
  BY <1>1, <1>2 DEF At

(* What the specification reads off a list is what is on it.               *)
LEMMA EntriesAre ==
  ASSUME NEW c, NEW s, Strung(c, s)
  PROVE  Entries(c) = Contents(c, s)
<1>1. s \in Seq(Blocks) /\ Len(s) \in Nat /\ Len(s) <= BlockCount
  BY ChainLength DEF Strung
<1>2. BlockCount \in Nat /\ Blocks \cup {0} = 0 .. BlockCount
  BY ProxyCacheAssumption DEF Blocks
<1> DEFINE l == List(c)
           Ends(n) == l[n] = NULL /\ (n = 0 \/ l[n - 1] # NULL)
           length == CHOOSE n \in Blocks \cup {0} : Ends(n)
<1>3. \A n \in 0 .. BlockCount : l[n] = At(s, n + 1)
  BY ListIs
<1> HIDE DEF l
<1>4. \A n \in 0 .. BlockCount : n # 0 => l[n - 1] = At(s, n)
  <2> SUFFICES ASSUME NEW n \in 0 .. BlockCount, n # 0
               PROVE  l[n - 1] = At(s, n)
    OBVIOUS
  <2>1. n - 1 \in 0 .. BlockCount /\ (n - 1) + 1 = n
    BY <1>2
  <2> QED
    BY <1>3, <2>1
<1>5. \A n \in 0 .. BlockCount : Ends(n) <=> n = Len(s)
  <2> SUFFICES ASSUME NEW n \in 0 .. BlockCount
               PROVE  Ends(n) <=> n = Len(s)
    OBVIOUS
  <2>1. n \in Int /\ n + 1 \in Int
    BY <1>2
  <2>2. At(s, n + 1) = NULL <=> n + 1 \notin 1 .. Len(s)
    BY <1>1, <2>1, AtFacts
  <2>3. At(s, n) = NULL <=> n \notin 1 .. Len(s)
    BY <1>1, <2>1, AtFacts
  <2>4. Ends(n) <=> n + 1 \notin 1 .. Len(s) /\ (n = 0 \/ n \in 1 .. Len(s))
    BY <1>3, <1>4, <2>2, <2>3
  <2> HIDE DEF Ends
  <2> QED
    BY <1>1, <1>2, <2>4
<1>6. length = Len(s)
  <2>1. Len(s) \in 0 .. BlockCount
    BY <1>1, <1>2
  <2> HIDE DEF Ends
  <2> QED
    BY <1>2, <1>5, <2>1
<1>7. Entries(c) = [i \in 1 .. length |->
                      [uri |-> c.block[l[i - 1]].uri,
                       size |-> c.block[l[i - 1]].size]]
  BY DEF Entries, l
<1> HIDE DEF length
<1>8. \A i \in 1 .. Len(s) : l[i - 1] = s[i]
  <2> SUFFICES ASSUME NEW i \in 1 .. Len(s)
               PROVE  l[i - 1] = s[i]
    OBVIOUS
  <2>1. i \in 0 .. BlockCount /\ i # 0 /\ i \in Int
    BY <1>1, <1>2
  <2> QED
    BY <1>1, <1>4, <2>1, AtFacts
<1> QED
  BY <1>6, <1>7, <1>8 DEF Contents

(* The blocks on the list.                                                 *)
LEMMA ListedAre ==
  ASSUME NEW c, NEW s, Strung(c, s)
  PROVE  Listed(c) = {s[i] : i \in 1 .. Len(s)}
<1>1. s \in Seq(Blocks) /\ Len(s) \in Nat /\ Len(s) <= BlockCount
  BY ChainLength DEF Strung
<1>2. BlockCount \in Nat /\ Blocks \cup {0} = 0 .. BlockCount
  BY ProxyCacheAssumption DEF Blocks
<1>3. \A n \in 0 .. BlockCount : List(c)[n] = At(s, n + 1)
  BY ListIs
<1>4. ASSUME NEW p \in Listed(c)
      PROVE  \E i \in 1 .. Len(s) : s[i] = p
  <2>1. PICK n \in 0 .. BlockCount : p = At(s, n + 1) /\ p # NULL
    BY <1>2, <1>3 DEF Listed
  <2>2. n + 1 \in Int
    BY <1>2
  <2>3. n + 1 \in 1 .. Len(s) /\ p = s[n + 1]
    BY <1>1, <2>1, <2>2, AtFacts
  <2> QED
    BY <2>3
<1>5. ASSUME NEW i \in 1 .. Len(s)
      PROVE  s[i] \in Listed(c)
  <2>1. i - 1 \in 0 .. BlockCount /\ (i - 1) + 1 = i /\ i \in Int
    BY <1>1, <1>2
  <2>2. List(c)[i - 1] = s[i] /\ s[i] # NULL
    BY <1>1, <1>3, <2>1, AtFacts
  <2> QED
    BY <1>2, <2>1, <2>2 DEF Listed
<1> QED
  BY <1>4, <1>5

(* The first block of the list with this uri is the one at i.              *)
FirstAt(c, s, i, u) ==
  /\ c.block[s[i]].uri = u
  /\ \A j \in 1 .. (i - 1) : c.block[s[j]].uri # u

(* A lookup returns the first block on the list with the uri, or none if   *)
(* there is none.                                                          *)
LEMMA SearchIs ==
  ASSUME NEW c, NEW s, Strung(c, s), NEW u
  PROVE  \/ /\ Search(c, u) = NULL
            /\ \A i \in 1 .. Len(s) : c.block[s[i]].uri # u
         \/ \E i \in 1 .. Len(s) :
              /\ Search(c, u) = s[i] /\ s[i] # NULL
              /\ FirstAt(c, s, i, u)
<1>1. s \in Seq(Blocks)
  BY DEF Strung
<1>2. BlockCount \in Nat
  BY ProxyCacheAssumption
<1> DEFINE l == List(c)
           hits == {n \in DOMAIN l : l[n] # NULL /\ c.block[l[n]].uri = u}
           first == CHOOSE n \in hits : \A m \in hits : n <= m
<1>3. /\ DOMAIN l = 0 .. BlockCount
      /\ \A n \in 0 .. BlockCount : l[n] = At(s, n + 1)
  BY ListIs
<1>4. Search(c, u) = IF hits = {} THEN NULL ELSE l[first]
  BY DEF Search
<1> HIDE DEF l
<1>0. Len(s) \in Nat /\ Len(s) <= BlockCount
  BY ChainLength DEF Strung
<1>a. ASSUME NEW j \in 1 .. Len(s)
      PROVE  j - 1 \in 0 .. BlockCount /\ l[j - 1] = s[j] /\ s[j] # NULL
  <2>1. j - 1 \in 0 .. BlockCount /\ (j - 1) + 1 = j /\ j \in Int
    BY <1>0, <1>2
  <2>2. l[j - 1] = At(s, j)
    BY <1>3, <2>1
  <2> QED
    BY <1>1, <2>1, <2>2, AtFacts
<1>b. CASE hits = {}
  <2>1. \A i \in 1 .. Len(s) : c.block[s[i]].uri # u
    <3> SUFFICES ASSUME NEW i \in 1 .. Len(s)
                 PROVE  c.block[s[i]].uri # u
      OBVIOUS
    <3>1. i - 1 \notin hits
      BY <1>b
    <3> QED
      BY <1>3, <1>a, <3>1
  <2> HIDE DEF hits
  <2> QED
    BY <1>4, <1>b, <2>1
<1> SUFFICES ASSUME hits # {}
             PROVE  \E i \in 1 .. Len(s) :
                      /\ Search(c, u) = s[i] /\ s[i] # NULL
                      /\ FirstAt(c, s, i, u)
  BY <1>b
<1>5. first \in hits /\ \A m \in hits : first <= m
  <2>1. hits \subseteq Nat
    BY <1>2, <1>3
  <2> DEFINE least(k) == \A m \in hits : k <= m
  <2>2. Min(hits) \in hits /\ least(Min(hits))
    <3> HIDE DEF hits
    <3> QED
      BY <2>1, MinOfNats
  <2>3. first = CHOOSE k \in hits : least(k)
    OBVIOUS
  <2>4. first \in hits /\ least(first)
    <3> HIDE DEF hits, least, first
    <3> QED
      BY <2>2, <2>3
  <2> QED
    BY <2>4
<1>6. /\ first \in 0 .. BlockCount /\ l[first] # NULL
      /\ l[first] = At(s, first + 1) /\ c.block[l[first]].uri = u
  BY <1>3, <1>5
<1> HIDE DEF first
<1>7. first + 1 \in Int
  BY <1>2, <1>6
<1>8. first + 1 \in 1 .. Len(s) /\ l[first] = s[first + 1]
  BY <1>1, <1>6, <1>7, AtFacts
<1>9. ASSUME NEW j \in 1 .. ((first + 1) - 1)
      PROVE  c.block[s[j]].uri # u
  <2>1. j \in 1 .. Len(s) /\ j - 1 < first
    BY <1>0, <1>2, <1>6, <1>8
  <2>2. j - 1 \notin hits
    <3>1. j - 1 \in Int /\ first \in Int
      BY <1>2, <1>6, <2>1
    <3>2. ~(first <= j - 1)
      BY <2>1, <3>1
    <3> HIDE DEF hits
    <3> QED
      BY <1>5, <3>2
  <2> QED
    BY <1>3, <1>a, <2>1, <2>2
<1>10. FirstAt(c, s, first + 1, u)
  BY <1>6, <1>8, <1>9 DEF FirstAt
<1> HIDE DEF hits
<1> QED
  BY <1>4, <1>6, <1>8, <1>10
-----------------------------------------------------------------------------
(* c with the link of p set to q is d.                                     *)
NextSet(c, d, p, q) ==
  /\ d \in Cache
  /\ d.head = c.head /\ d.tail = c.tail /\ d.total_size = c.total_size
  /\ \A x \in Blocks :
       /\ d.block[x].uri = c.block[x].uri
       /\ d.block[x].size = c.block[x].size
       /\ d.block[x].prev = c.block[x].prev
       /\ d.block[x].next = IF x = p THEN q ELSE c.block[x].next
       /\ x # p => d.block[x] = c.block[x]

PrevSet(c, d, p, q) ==
  /\ d \in Cache
  /\ d.head = c.head /\ d.tail = c.tail /\ d.total_size = c.total_size
  /\ \A x \in Blocks :
       /\ d.block[x].uri = c.block[x].uri
       /\ d.block[x].size = c.block[x].size
       /\ d.block[x].next = c.block[x].next
       /\ d.block[x].prev = IF x = p THEN q ELSE c.block[x].prev
       /\ x # p => d.block[x] = c.block[x]

(* What a store through a pointer that may be NULL changes.                *)
LEMMA SetNextIs ==
  ASSUME NEW c \in Cache, NEW p \in Blocks \cup {NULL},
         NEW q \in Blocks \cup {NULL}
  PROVE  NextSet(c, SetNext(c, p, q), p, q)
<1>1. NULL \notin Blocks
  BY ProxyCacheAssumption DEF NULL, Blocks
<1>2. CASE p = NULL
  BY <1>1, <1>2 DEF SetNext, NextSet
<1>3. CASE p # NULL
  <2>1. p \in Blocks
    BY <1>3
  <2>2. SetNext(c, p, q) = [c EXCEPT !.block[p].next = q]
    BY <1>3 DEF SetNext
  <2>3. c.block \in [Blocks -> Block]
    BY DEF Cache
  <2>4. [c.block EXCEPT ![p].next = q] \in [Blocks -> Block]
    BY <2>1, <2>3 DEF Block
  <2>5. SetNext(c, p, q) \in Cache
    BY <2>2, <2>4 DEF Cache
  <2> QED
    BY <2>1, <2>2, <2>3, <2>5 DEF Cache, Block, NextSet
<1> QED
  BY <1>2, <1>3

(* And back.                                                               *)
LEMMA SetPrevIs ==
  ASSUME NEW c \in Cache, NEW p \in Blocks \cup {NULL},
         NEW q \in Blocks \cup {NULL}
  PROVE  PrevSet(c, SetPrev(c, p, q), p, q)
<1>1. NULL \notin Blocks
  BY ProxyCacheAssumption DEF NULL, Blocks
<1>2. CASE p = NULL
  BY <1>1, <1>2 DEF SetPrev, PrevSet
<1>3. CASE p # NULL
  <2>1. p \in Blocks
    BY <1>3
  <2>2. SetPrev(c, p, q) = [c EXCEPT !.block[p].prev = q]
    BY <1>3 DEF SetPrev
  <2>3. c.block \in [Blocks -> Block]
    BY DEF Cache
  <2>4. [c.block EXCEPT ![p].prev = q] \in [Blocks -> Block]
    BY <2>1, <2>3 DEF Block
  <2>5. SetPrev(c, p, q) \in Cache
    BY <2>2, <2>4 DEF Cache
  <2> QED
    BY <2>1, <2>2, <2>3, <2>5 DEF Cache, Block, PrevSet
<1> QED
  BY <1>2, <1>3

(* d is c with p, which was between v and n, in front.                     *)
PutInFront(c, d, p, v, n) ==
  /\ d \in Cache
  /\ d.head = p /\ d.tail = (IF c.tail = p THEN v ELSE c.tail)
  /\ d.total_size = c.total_size
  /\ \A x \in Blocks :
       /\ d.block[x].uri = c.block[x].uri
       /\ d.block[x].size = c.block[x].size
       /\ d.block[x].next = IF x = p THEN c.head
                            ELSE IF x = v THEN n
                            ELSE c.block[x].next
       /\ d.block[x].prev = IF x = p THEN NULL
                            ELSE IF x = c.head THEN p
                            ELSE IF x = n THEN v
                            ELSE c.block[x].prev
       /\ x \notin {p, v, n, c.head} => d.block[x] = c.block[x]

(* ToFront does so with a block that has the neighbours v and n.           *)
LEMMA ToFrontIs ==
  ASSUME NEW c \in Cache, NEW p \in Blocks, p # c.head, c.head \in Blocks,
         NEW v, v = c.block[p].prev, NEW n, n = c.block[p].next,
         v # p, n # p
  PROVE  PutInFront(c, ToFront(c, p), p, v, n)
<1> DEFINE a == SetNext(c, v, n)
           b == SetPrev(a, n, v)
           e == [b EXCEPT !.head = p,
                          !.tail = IF p = @ THEN v ELSE @,
                          !.block[p].next = c.head,
                          !.block[p].prev = NULL]
           d == SetPrev(e, c.head, p)
<1>1. v \in Blocks \cup {NULL} /\ n \in Blocks \cup {NULL}
  BY DEF Cache, Block
<1>2. ToFront(c, p) = d
  BY DEF ToFront
<1>3. NextSet(c, a, v, n)
  BY <1>1, SetNextIs
<1> HIDE DEF a
<1>4. PrevSet(a, b, n, v)
  BY <1>1, <1>3, SetPrevIs DEF NextSet
<1> HIDE DEF b
<1>5. /\ e \in Cache
      /\ e.head = p /\ e.tail = (IF b.tail = p THEN v ELSE b.tail)
      /\ e.total_size = b.total_size
      /\ \A x \in Blocks :
           /\ e.block[x].uri = b.block[x].uri
           /\ e.block[x].size = b.block[x].size
           /\ e.block[x].next = IF x = p THEN c.head ELSE b.block[x].next
           /\ e.block[x].prev = IF x = p THEN NULL ELSE b.block[x].prev
           /\ x # p => e.block[x] = b.block[x]
  <2>1. b.block \in [Blocks -> Block]
    BY <1>4 DEF Cache, PrevSet
  <2>2. [b.block EXCEPT ![p] = [@ EXCEPT !.next = c.head, !.prev = NULL]]
          \in [Blocks -> Block]
    BY <2>1 DEF Block
  <2>3. e.block = [b.block EXCEPT ![p] = [@ EXCEPT !.next = c.head,
                                                   !.prev = NULL]]
    BY <1>4, <2>1 DEF Cache, Block, PrevSet
  <2>4. /\ e.head = p /\ e.tail = (IF b.tail = p THEN v ELSE b.tail)
        /\ e.total_size = b.total_size
    BY <1>4 DEF Cache, PrevSet
  <2>5. e \in Cache
    BY <1>1, <1>4, <2>2, <2>3, <2>4 DEF Cache, PrevSet
  <2> QED
    BY <2>1, <2>3, <2>4, <2>5 DEF Block
<1> HIDE DEF e
<1>6. PrevSet(e, d, c.head, p)
  BY <1>5, SetPrevIs
<1> HIDE DEF d
<1>7. /\ d \in Cache
      /\ d.head = p /\ d.tail = (IF c.tail = p THEN v ELSE c.tail)
      /\ d.total_size = c.total_size
  BY <1>3, <1>4, <1>5, <1>6 DEF NextSet, PrevSet
<1>8. ASSUME NEW x \in Blocks
      PROVE  /\ d.block[x].uri = c.block[x].uri
             /\ d.block[x].size = c.block[x].size
             /\ d.block[x].next = IF x = p THEN c.head
                                  ELSE IF x = v THEN n
                                  ELSE c.block[x].next
             /\ d.block[x].prev = IF x = p THEN NULL
                                  ELSE IF x = c.head THEN p
                                  ELSE IF x = n THEN v
                                  ELSE c.block[x].prev
             /\ x \notin {p, v, n, c.head} => d.block[x] = c.block[x]
  BY <1>3, <1>4, <1>5, <1>6 DEF NextSet, PrevSet
<1> QED
  BY <1>2, <1>7, <1>8 DEF PutInFront

(* Moving an element keeps the list without repetitions and with the same  *)
(* elements.                                                               *)
LEMMA MovedSet ==
  ASSUME NEW s \in Seq(Blocks), Distinct(s), NEW i \in 1 .. Len(s)
  PROVE  LET r == MovedUp(s, i)
         IN  /\ r \in Seq(Blocks) /\ Len(r) = Len(s) /\ Distinct(r)
             /\ \A k \in 1 .. Len(s) : \E j \in 1 .. Len(r) : r[j] = s[k]
<1> DEFINE r == MovedUp(s, i)
<1>1. r \in Seq(Blocks) /\ Len(r) = Len(s)
  BY MovedIs
<1>2. \A j \in 1 .. Len(s) : r[j] = IF j = 1 THEN s[i]
                                    ELSE IF j <= i THEN s[j - 1] ELSE s[j]
  BY DEF MovedUp
<1> HIDE DEF r
<1> DEFINE from == [j \in 1 .. Len(s) |-> IF j = 1 THEN i
                                         ELSE IF j <= i THEN j - 1 ELSE j]
<1>3. ASSUME NEW j \in 1 .. Len(s)
      PROVE  from[j] \in 1 .. Len(s) /\ r[j] = s[from[j]]
  <2>1. from[j] \in 1 .. Len(s)
    OBVIOUS
  <2>2. r[j] = s[from[j]]
    BY <1>2
  <2> QED
    BY <2>1, <2>2
<1>4. \A j, k \in 1 .. Len(s) : from[j] = from[k] => j = k
  OBVIOUS
<1>5. ASSUME NEW k \in 1 .. Len(s)
      PROVE  \E j \in 1 .. Len(s) : from[j] = k
  <2> DEFINE j == IF k = i THEN 1 ELSE IF k < i THEN k + 1 ELSE k
  <2>1. j \in 1 .. Len(s)
    OBVIOUS
  <2>2. from[j] = k
    BY <2>1
  <2> QED
    BY <2>1, <2>2
<1> HIDE DEF from
<1>6. Distinct(r)
  <2> SUFFICES ASSUME NEW j \in 1 .. Len(s), NEW k \in 1 .. Len(s),
                      r[j] = r[k]
               PROVE  j = k
    BY <1>1 DEF Distinct
  <2>1. s[from[j]] = s[from[k]]
    BY <1>3
  <2>2. from[j] = from[k]
    BY <1>3, <2>1 DEF Distinct
  <2> QED
    BY <1>4, <2>2
<1>7. ASSUME NEW k \in 1 .. Len(s)
      PROVE  \E j \in 1 .. Len(s) : r[j] = s[k]
  <2>1. PICK j \in 1 .. Len(s) : from[j] = k
    BY <1>5
  <2>2. r[j] = s[k]
    BY <1>3, <2>1
  <2> QED
    BY <2>2
<1> QED
  BY <1>1, <1>6, <1>7 DEF r

(* Moving a block to the front is moving it in the sequence.               *)
LEMMA ToFrontLinks ==
  ASSUME NEW c \in Cache, NEW s, Strung(c, s), NEW i \in 2 .. Len(s),
         NEW d, PutInFront(c, d, s[i], At(s, i - 1), At(s, i + 1)),
         NEW j \in 1 .. Len(s)
  PROVE  LinkAt(d, MovedUp(s, i), j)
<1> DEFINE r == MovedUp(s, i)
           p == s[i]
<1>1. s \in Seq(Blocks) /\ Distinct(s) /\ c.head = s[1] /\ Len(s) \in Nat
  <2>1. s \in Seq(Blocks) /\ 1 \in 1 .. Len(s)
    BY DEF Strung
  <2> QED
    BY <2>1 DEF Strung, At
<1>2. r \in Seq(Blocks) /\ Len(r) = Len(s)
  <2>1. i \in 1 .. Len(s)
    BY <1>1
  <2> QED
    BY <1>1, <2>1, MovedIs
<1>3. \A k \in 1 .. Len(s) : r[k] = IF k = 1 THEN s[i]
                                    ELSE IF k <= i THEN s[k - 1] ELSE s[k]
  BY DEF MovedUp
<1> HIDE DEF r
<1>4. r[j] \in Blocks
  BY <1>2
<1>5. At(s, i - 1) = s[i - 1] /\ i - 1 \in 1 .. Len(s)
  BY <1>1 DEF At
<1>6. \A k \in 1 .. Len(s) : /\ c.block[s[k]].prev = At(s, k - 1)
                             /\ c.block[s[k]].next = At(s, k + 1)
                             /\ c.block[s[k]].uri \in Uris
                             /\ s[k] \in Blocks /\ s[k] # NULL
  <2> SUFFICES ASSUME NEW k \in 1 .. Len(s)
               PROVE  /\ c.block[s[k]].prev = At(s, k - 1)
                      /\ c.block[s[k]].next = At(s, k + 1)
                      /\ c.block[s[k]].uri \in Uris
                      /\ s[k] \in Blocks /\ s[k] # NULL
    OBVIOUS
  <2>1. s[k] \in Blocks /\ s[k] # NULL
    BY <1>1, AtFacts
  <2>2. LinkAt(c, s, k)
    BY DEF Strung
  <2> QED
    BY <2>1, <2>2 DEF LinkAt
<1>7. \A k, m \in 1 .. Len(s) : s[k] = s[m] => k = m
  BY <1>1 DEF Distinct
<1>8. \/ At(s, i + 1) = NULL
      \/ i + 1 \in 1 .. Len(s) /\ At(s, i + 1) = s[i + 1]
  BY DEF At
<1>9. d.block[r[j]].uri \in Uris
  <2>1. PICK k \in 1 .. Len(s) : r[j] = s[k]
    BY <1>1, <1>3
  <2>2. d.block[r[j]].uri = c.block[r[j]].uri
    BY <1>4 DEF PutInFront
  <2> QED
    BY <1>6, <2>1, <2>2
<1>10. /\ d.block[r[j]].next = IF r[j] = p THEN s[1]
                               ELSE IF r[j] = s[i - 1] THEN At(s, i + 1)
                               ELSE c.block[r[j]].next
       /\ d.block[r[j]].prev = IF r[j] = p THEN NULL
                               ELSE IF r[j] = s[1] THEN p
                               ELSE IF r[j] = At(s, i + 1) THEN s[i - 1]
                               ELSE c.block[r[j]].prev
  BY <1>1, <1>4, <1>5 DEF PutInFront
<1>11. CASE j = 1
  <2>1. r[j] = p
    BY <1>3, <1>11
  <2>2. At(r, j - 1) = NULL
    BY <1>11 DEF At
  <2>3. At(r, j + 1) = s[1]
    <3>1. 2 \in 1 .. Len(s) /\ r[2] = s[1]
      BY <1>1, <1>3
    <3> QED
      BY <1>2, <1>11, <3>1 DEF At
  <2> QED
    BY <1>9, <1>10, <2>1, <2>2, <2>3 DEF LinkAt, r
<1>12. CASE j \in 2 .. i
  <2>1. r[j] = s[j - 1] /\ j - 1 \in 1 .. Len(s) /\ j - 1 # i
    <3>1. j # 1 /\ j <= i /\ j \in Nat
      BY <1>1, <1>12
    <3>2. j - 1 \in 1 .. Len(s) /\ j - 1 # i
      BY <1>1, <1>12
    <3>3. r[j] = s[j - 1]
      BY <1>3, <3>1
    <3> QED
      BY <3>2, <3>3
  <2>2. r[j] # p
    BY <1>1, <1>7, <2>1
  <2>3. d.block[r[j]].next = At(r, j + 1)
    <3>1. CASE j = i
      <4>1. At(r, i + 1) = At(s, i + 1)
        BY <1>1, <1>2, <1>3 DEF At
      <4> QED
        BY <1>10, <2>1, <2>2, <3>1, <4>1
    <3>2. CASE j # i
      <4>1. s[j - 1] # s[i - 1]
        BY <1>1, <1>5, <1>7, <1>12, <2>1, <3>2
      <4>2. j + 1 \in 1 .. Len(s) /\ j + 1 <= i /\ j + 1 # 1
            /\ (j + 1) - 1 = j /\ (j - 1) + 1 = j
        <5>1. j \in Nat /\ j >= 2 /\ j <= i /\ j # i
          BY <1>12, <3>2
        <5>2. i \in Nat /\ i <= Len(s) /\ Len(s) \in Nat
          BY <1>1
        <5> QED
          BY <5>1, <5>2
      <4>3. At(r, j + 1) = s[j] /\ At(s, j) = s[j]
        BY <1>2, <1>3, <4>2 DEF At
      <4>4. c.block[s[j - 1]].next = At(s, j)
        BY <1>6, <2>1, <4>2
      <4> QED
        BY <1>10, <2>1, <2>2, <4>1, <4>3, <4>4
    <3> QED
      BY <3>1, <3>2
  <2>4. d.block[r[j]].prev = At(r, j - 1)
    <3>1. CASE j = 2
      <4>1. At(r, 1) = p
        BY <1>1, <1>2, <1>3 DEF At
      <4> QED
        BY <1>10, <2>1, <2>2, <3>1, <4>1
    <3>2. CASE j # 2
      <4>1. s[j - 1] # s[1] /\ s[j - 1] # At(s, i + 1)
        <5>1. j - 1 # 1 /\ j - 1 # i + 1 /\ 1 \in 1 .. Len(s)
          BY <1>1, <1>12, <3>2
        <5>2. s[j - 1] # s[1]
          BY <1>7, <2>1, <5>1
        <5>3. s[j - 1] # At(s, i + 1)
          BY <1>6, <1>7, <1>8, <2>1, <5>1
        <5> QED
          BY <5>2, <5>3
      <4>2. c.block[s[j - 1]].prev = At(s, (j - 1) - 1)
        BY <1>6, <2>1
      <4>3. j - 1 # 1 /\ j - 1 <= i /\ (j - 1) - 1 \in 1 .. Len(s)
        BY <1>1, <1>12, <2>1, <3>2
      <4>4. At(r, j - 1) = s[(j - 1) - 1]
            /\ At(s, (j - 1) - 1) = s[(j - 1) - 1]
        BY <1>2, <1>3, <2>1, <4>3 DEF At
      <4> QED
        BY <1>10, <2>1, <2>2, <4>1, <4>2, <4>4
    <3> QED
      BY <3>1, <3>2
  <2> QED
    BY <1>9, <2>3, <2>4 DEF LinkAt, r
<1>13. CASE j > i
  <2>1. r[j] = s[j] /\ r[j] # p /\ s[j] # s[1] /\ s[j] # s[i - 1]
    BY <1>1, <1>3, <1>5, <1>7, <1>13
  <2>2. d.block[r[j]].next = At(r, j + 1)
    <3>1. At(r, j + 1) = At(s, j + 1)
      BY <1>1, <1>2, <1>3, <1>13 DEF At
    <3> QED
      BY <1>6, <1>10, <2>1, <3>1
  <2>3. d.block[r[j]].prev = At(r, j - 1)
    <3>1. CASE j = i + 1
      <4>1. At(r, i) = s[i - 1]
        BY <1>1, <1>2, <1>3 DEF At
      <4>2. At(s, i + 1) = s[j] /\ j - 1 = i
        BY <1>1, <3>1 DEF At
      <4> QED
        BY <1>10, <2>1, <4>1, <4>2
    <3>2. CASE j # i + 1
      <4>1. s[j] # At(s, i + 1)
        BY <1>1, <1>6, <1>7, <1>8, <3>2
      <4>2. j - 1 \in 1 .. Len(s) /\ j - 1 # 1 /\ ~ (j - 1 <= i)
        BY <1>1, <1>13, <3>2
      <4>3. At(r, j - 1) = s[j - 1] /\ At(s, j - 1) = s[j - 1]
        BY <1>2, <1>3, <4>2 DEF At
      <4> QED
        BY <1>6, <1>10, <2>1, <4>1, <4>3
    <3> QED
      BY <3>1, <3>2
  <2> QED
    BY <1>9, <2>2, <2>3 DEF LinkAt, r
<1> QED
  BY <1>1, <1>11, <1>12, <1>13

(* Sizes that may be kept are numbers up to MAX_OBJECT_SIZE, and a freed   *)
(* block is a block.                                                       *)
LEMMA CacheableFacts ==
  /\ Cacheable \subseteq Nat /\ 0 \in Cacheable
  /\ \A n \in Cacheable : n <= MAX_OBJECT_SIZE
  /\ Freed \in Block
<1>1. 0 \in Cacheable
  BY ProxyCacheAssumption DEF Cacheable
<1>2. Freed \in Block
  BY <1>1 DEF Freed, Block
<1>3. ASSUME NEW n \in Cacheable
      PROVE  n \in Nat /\ n <= MAX_OBJECT_SIZE
  <2>1. n \in Sizes \cup {0} /\ n <= MAX_OBJECT_SIZE
    BY DEF Cacheable
  <2>2. Sizes \cup {0} \subseteq Nat
    BY ProxyCacheAssumption
  <2>3. n \in Nat
    BY <2>1, <2>2
  <2> QED
    BY <2>1, <2>3
<1> QED
  BY <1>1, <1>2, <1>3

(* The contents are objects.                                               *)
LEMMA ContentsType ==
  ASSUME NEW c \in Cache, NEW s, Strung(c, s)
  PROVE  /\ Contents(c, s) \in Seq(LRU!Object)
         /\ Len(Contents(c, s)) = Len(s)
         /\ \A i \in 1 .. Len(s) :
              /\ Contents(c, s)[i] \in LRU!Object
              /\ Contents(c, s)[i].size \in Nat
              /\ Contents(c, s)[i].uri = c.block[s[i]].uri
              /\ Contents(c, s)[i].size = c.block[s[i]].size
<1> DEFINE e == Contents(c, s)
<1>1. s \in Seq(Blocks) /\ Len(s) \in Nat
  BY DEF Strung
<1>2. ASSUME NEW i \in 1 .. Len(s)
      PROVE  /\ e[i] \in LRU!Object /\ e[i].size \in Nat
             /\ e[i].uri = c.block[s[i]].uri /\ e[i].size = c.block[s[i]].size
  <2>1. c.block[s[i]] \in Block /\ c.block[s[i]].uri \in Uris
    BY <1>1 DEF Cache, Strung, LinkAt
  <2>2. e[i] = [uri |-> c.block[s[i]].uri, size |-> c.block[s[i]].size]
    BY DEF Contents
  <2>3. c.block[s[i]].size \in Cacheable
    BY <2>1 DEF Block
  <2> HIDE DEF e
  <2>4. e[i] \in LRU!Object
    BY <2>1, <2>2, <2>3 DEF LRU!Object
  <2>5. e[i].uri = c.block[s[i]].uri /\ e[i].size = c.block[s[i]].size
    BY <2>2
  <2> QED
    BY <2>3, <2>4, <2>5, CacheableFacts
<1>3. e \in [1 .. Len(s) -> LRU!Object]
  <2>1. e = [i \in 1 .. Len(s) |-> e[i]]
    BY DEF Contents
  <2> HIDE DEF e
  <2> QED
    BY <1>2, <2>1
<1> HIDE DEF e
<1>4. e \in Seq(LRU!Object) /\ Len(e) = Len(s)
  BY <1>1, <1>3, FunIsSeq
<1> QED
  BY <1>2, <1>4 DEF e

(* A hit keeps the list well linked, and moves the object in the contents. *)
LEMMA ToFrontChain ==
  ASSUME NEW c \in Cache, NEW s, Strung(c, s), NEW i \in 1 .. Len(s)
  PROVE  LET d == ToFront(c, s[i])
             r == MovedUp(s, i)
         IN  /\ d \in Cache /\ Strung(d, r)
             /\ d.total_size = c.total_size
             /\ Contents(d, r) = MovedUp(Contents(c, s), i)
<1> DEFINE d == ToFront(c, s[i])
           r == MovedUp(s, i)
<1>1. s \in Seq(Blocks) /\ Distinct(s) /\ Len(s) \in Nat
  BY DEF Strung
<1>2. /\ r \in Seq(Blocks) /\ Len(r) = Len(s) /\ Distinct(r)
      /\ \A k \in 1 .. Len(s) : \E j \in 1 .. Len(r) : r[j] = s[k]
  BY <1>1, MovedSet
<1>3. \A j \in 1 .. Len(s) : r[j] = IF j = 1 THEN s[i]
                                    ELSE IF j <= i THEN s[j - 1] ELSE s[j]
  BY DEF MovedUp
<1>4. c.head = s[1] /\ 1 \in 1 .. Len(s)
  BY <1>1 DEF Strung, At
<1>5. ASSUME i = 1
      PROVE  d = c /\ r = s /\ MovedUp(Contents(c, s), i) = Contents(c, s)
  <2>1. d = c
    BY <1>4, <1>5 DEF ToFront
  <2>2. \A j \in 1 .. Len(s) : ~ (j # 1 /\ j <= i)
    BY <1>5
  <2>3. \A z : (/\ z \in [1 .. Len(s) -> {z[j] : j \in 1 .. Len(s)}]
                /\ Len(z) = Len(s))
                  => MovedUp(z, i) = z
    BY <1>5, <2>2 DEF MovedUp
  <2>4. s \in [1 .. Len(s) -> {s[j] : j \in 1 .. Len(s)}]
    BY <1>1
  <2>5. /\ Contents(c, s) \in Seq(LRU!Object)
        /\ Len(Contents(c, s)) = Len(s)
    BY ContentsType
  <2> DEFINE e == Contents(c, s)
  <2> HIDE DEF e
  <2>6. e \in [1 .. Len(s) -> {e[j] : j \in 1 .. Len(s)}]
    BY <2>5 DEF e
  <2>7. MovedUp(e, i) = e
    BY <2>3, <2>5, <2>6 DEF e
  <2> QED
    BY <2>1, <2>3, <2>4, <2>7 DEF e
<1>6. CASE i = 1
  BY <1>5, <1>6
<1>7. CASE i # 1
  <2> DEFINE p == s[i]
             v == At(s, i - 1)
             n == At(s, i + 1)
  <2>1. i \in 2 .. Len(s)
    BY <1>1, <1>7
  <2>2. PutInFront(c, d, p, v, n)
    <3>1. /\ p \in Blocks /\ c.block[p].prev = v /\ c.block[p].next = n
      BY <1>1 DEF Strung, LinkAt
    <3>2. p # c.head /\ c.head \in Blocks
      BY <1>1, <1>4, <1>7 DEF Distinct
    <3>3. v # p /\ n # p
      <4>1. i - 1 \in Int /\ i + 1 \in Int /\ i - 1 # i /\ i + 1 # i
        OBVIOUS
      <4>2. NULL # p
        BY <3>1, ProxyCacheAssumption DEF NULL, Blocks
      <4> QED
        BY <1>1, <4>1, <4>2 DEF Distinct, At
    <3> HIDE DEF p, v, n
    <3> QED
      BY <3>1, <3>2, <3>3, ToFrontIs DEF p
  <2> HIDE DEF d, r
  <2>3. \A j \in 1 .. Len(s) : LinkAt(d, r, j)
    BY <2>1, <2>2, ToFrontLinks DEF r
  <2>4. d \in Cache /\ d.total_size = c.total_size
    BY <2>2 DEF PutInFront
  <2>5. d.head = At(r, 1)
    BY <1>1, <1>2, <1>3, <1>4, <2>2 DEF PutInFront, At
  <2>6. d.tail = At(r, Len(r))
    <3>1. c.tail = s[Len(s)] /\ Len(s) \in 1 .. Len(s)
      BY <1>1, <1>4 DEF Strung, At
    <3>2. At(r, Len(r)) = r[Len(s)]
      BY <1>2, <3>1 DEF At
    <3>3. CASE i = Len(s)
      <4>1. r[Len(s)] = s[i - 1] /\ v = s[i - 1]
        BY <1>1, <1>3, <2>1, <3>1, <3>3 DEF At
      <4> QED
        BY <2>2, <3>1, <3>2, <3>3, <4>1 DEF PutInFront
    <3>4. CASE i # Len(s)
      <4>1. r[Len(s)] = s[Len(s)]
        BY <1>1, <1>3, <2>1, <3>1, <3>4
      <4>2. c.tail # p
        BY <1>1, <3>1, <3>4 DEF Distinct
      <4> QED
        BY <2>2, <3>1, <3>2, <4>1, <4>2 DEF PutInFront
    <3> QED
      BY <3>3, <3>4
  <2>7. ASSUME NEW x \in Blocks, \A j \in 1 .. Len(r) : r[j] # x
        PROVE  d.block[x] = Freed
    <3>1. \A k \in 1 .. Len(s) : s[k] # x
      BY <1>2, <2>7
    <3>2. c.block[x] = Freed
      BY <3>1 DEF Strung
    <3>3. NULL # x
      BY ProxyCacheAssumption DEF NULL, Blocks
    <3>4. x \notin {p, v, n, c.head}
      BY <1>1, <1>4, <3>1, <3>3 DEF At
    <3> QED
      BY <2>2, <3>2, <3>4 DEF PutInFront
  <2>8. Strung(d, r)
    BY <1>2, <2>3, <2>5, <2>6, <2>7 DEF Strung
  <2>9. Contents(d, r) = MovedUp(Contents(c, s), i)
    <3> DEFINE e == Contents(c, s)
    <3>1. /\ Len(e) = Len(s)
          /\ \A j \in 1 .. Len(s) : e[j] = [uri |-> c.block[s[j]].uri,
                                            size |-> c.block[s[j]].size]
      BY ContentsType DEF Contents
    <3> HIDE DEF e
    <3>2. \A x \in Blocks : /\ d.block[x].uri = c.block[x].uri
                            /\ d.block[x].size = c.block[x].size
      BY <2>2 DEF PutInFront
    <3>3. ASSUME NEW j \in 1 .. Len(s)
          PROVE  [uri |-> d.block[r[j]].uri, size |-> d.block[r[j]].size]
                   = IF j = 1 THEN e[i] ELSE IF j <= i THEN e[j - 1] ELSE e[j]
      <4>1. r[j] \in Blocks
        BY <1>2
      <4>2. CASE j = 1
        BY <1>3, <3>1, <3>2, <4>1, <4>2
      <4>3. CASE j # 1 /\ j <= i
        <5>1. j - 1 \in 1 .. Len(s) /\ r[j] = s[j - 1]
          BY <1>1, <1>3, <4>3
        <5> QED
          BY <3>1, <3>2, <4>1, <4>3, <5>1
      <4>4. CASE j > i
        <5>1. j # 1 /\ ~ (j <= i) /\ r[j] = s[j]
          BY <1>1, <1>3, <4>4
        <5> QED
          BY <3>1, <3>2, <4>1, <5>1
      <4> QED
        BY <4>2, <4>3, <4>4
    <3>4. Contents(d, r) = [j \in 1 .. Len(s) |->
              [uri |-> d.block[r[j]].uri, size |-> d.block[r[j]].size]]
      BY <1>2 DEF Contents
    <3>5. MovedUp(e, i) = [j \in 1 .. Len(s) |->
              IF j = 1 THEN e[i] ELSE IF j <= i THEN e[j - 1] ELSE e[j]]
      BY <3>1 DEF MovedUp
    <3>6. Contents(d, r) = MovedUp(e, i)
      BY <3>3, <3>4, <3>5
    <3> QED
      BY <3>6 DEF e
  <2> QED
    BY <2>4, <2>8, <2>9 DEF d, r
<1> QED
  BY <1>6, <1>7
-----------------------------------------------------------------------------
(* The cache after the last blocks were freed and the first k kept.  f are *)
(* the sums of the sizes on the list.                                      *)
EvictTo(c, s, f, k) ==
  [head |-> IF k = 0 THEN NULL ELSE c.head,
   tail |-> At(s, k),
   total_size |-> f[k],
   block |-> [p \in Blocks |->
                IF \E i \in 1 .. k : s[i] = p
                  THEN IF p = s[k] THEN [c.block[p] EXCEPT !.next = NULL]
                       ELSE c.block[p]
                  ELSE Freed]]

(* Caches with the same fields are the same ...                            *)
LEMMA SameCache ==
  ASSUME NEW c \in Cache, NEW d \in Cache,
         c.head = d.head, c.tail = d.tail, c.total_size = d.total_size,
         \A p \in Blocks : c.block[p] = d.block[p]
  PROVE  c = d
<1>1. c.block = d.block
  BY DEF Cache
<1> QED
  BY <1>1 DEF Cache

(* ... and so are blocks.                                                  *)
LEMMA SameBlock ==
  ASSUME NEW b \in Block, NEW d \in Block, b.uri = d.uri, b.size = d.size,
         b.prev = d.prev, b.next = d.next
  PROVE  b = d
  BY DEF Block

(* What a cache is after the evictions ...                                 *)
Evicted(c, s, f, k, d) ==
  /\ d \in Cache
  /\ d.head = (IF k = 0 THEN NULL ELSE c.head)
  /\ d.tail = At(s, k) /\ d.total_size = f[k]
  /\ \A i \in 1 .. k :
       /\ d.block[s[i]].uri = c.block[s[i]].uri
       /\ d.block[s[i]].size = c.block[s[i]].size
       /\ d.block[s[i]].prev = At(s, i - 1)
       /\ d.block[s[i]].next = IF i = k THEN NULL ELSE At(s, i + 1)
  /\ \A p \in Blocks : (\A i \in 1 .. k : s[i] # p) => d.block[p] = Freed

(* ... as the closed form has it.                                          *)
LEMMA EvictToIs ==
  ASSUME NEW c \in Cache, NEW s, Strung(c, s),
         NEW f, Sums(Contents(c, s), f), NEW k \in 0 .. Len(s)
  PROVE  Evicted(c, s, f, k, EvictTo(c, s, f, k))
<1> DEFINE d == EvictTo(c, s, f, k)
<1>1. s \in Seq(Blocks) /\ Distinct(s) /\ Len(s) \in Nat /\ k \in Int
  BY DEF Strung
<1>2. \A i \in 1 .. k : s[i] \in Blocks
  BY <1>1
<1>3. c.block \in [Blocks -> Block]
  BY DEF Cache
<1>4. /\ d.head = (IF k = 0 THEN NULL ELSE c.head)
      /\ d.tail = At(s, k) /\ d.total_size = f[k]
  BY DEF EvictTo
<1>5. d.block = [p \in Blocks |->
                   IF \E i \in 1 .. k : s[i] = p
                     THEN IF p = s[k] THEN [c.block[p] EXCEPT !.next = NULL]
                          ELSE c.block[p]
                     ELSE Freed]
  BY DEF EvictTo
<1>6. f[k] \in Nat
  BY ContentsType DEF Sums
<1>7. d \in Cache
  <2>1. ASSUME NEW b \in Block
        PROVE  [b EXCEPT !.next = NULL] \in Block
    BY DEF Block
  <2>2. d.block \in [Blocks -> Block]
    BY <1>3, <1>5, <2>1, CacheableFacts
  <2>3. At(s, k) \in Blocks \cup {NULL}
    BY <1>1, AtFacts
  <2>4. d = [head |-> d.head, tail |-> d.tail, total_size |-> d.total_size,
             block |-> d.block]
    BY DEF EvictTo
  <2>5. d.head \in Blocks \cup {NULL}
    BY <1>4 DEF Cache
  <2> HIDE DEF d
  <2> QED
    BY <1>4, <1>6, <2>2, <2>3, <2>4, <2>5 DEF Cache
<1> HIDE DEF d
<1>8. ASSUME NEW i \in 1 .. k
      PROVE  /\ d.block[s[i]].uri = c.block[s[i]].uri
             /\ d.block[s[i]].size = c.block[s[i]].size
             /\ d.block[s[i]].prev = At(s, i - 1)
             /\ d.block[s[i]].next = IF i = k THEN NULL ELSE At(s, i + 1)
  <2>1. i \in 1 .. Len(s) /\ k \in 1 .. Len(s)
    BY <1>1
  <2>2. c.block[s[i]].prev = At(s, i - 1) /\ c.block[s[i]].next = At(s, i + 1)
    BY <2>1 DEF Strung, LinkAt
  <2>3. d.block[s[i]] = IF s[i] = s[k] THEN [c.block[s[i]] EXCEPT !.next = NULL]
                        ELSE c.block[s[i]]
    BY <1>2, <1>5
  <2>4. s[i] = s[k] <=> i = k
    BY <1>1, <2>1 DEF Distinct
  <2>5. c.block[s[i]] \in Block
    BY <1>2, <1>3
  <2> QED
    BY <2>2, <2>3, <2>4, <2>5 DEF Block
<1>9. \A p \in Blocks : (\A i \in 1 .. k : s[i] # p) => d.block[p] = Freed
  BY <1>5
<1> QED
  BY <1>4, <1>7, <1>8, <1>9 DEF d, Evicted

(* ... with the list still well linked ...                                 *)
LEMMA EvictToChain ==
  ASSUME NEW c \in Cache, NEW s, Strung(c, s),
         NEW f, Sums(Contents(c, s), f), NEW k \in 0 .. Len(s)
  PROVE  LET d == EvictTo(c, s, f, k)
             r == SubSeq(s, 1, k)
         IN  /\ Strung(d, r)
             /\ Contents(d, r) = SubSeq(Contents(c, s), 1, k)
<1> DEFINE d == EvictTo(c, s, f, k)
           r == SubSeq(s, 1, k)
           e == Contents(c, s)
<1>1. s \in Seq(Blocks) /\ Distinct(s) /\ Len(s) \in Nat /\ k \in Int
  BY DEF Strung
<1>2. r \in Seq(Blocks) /\ Len(r) = k /\ \A i \in 1 .. k : r[i] = s[i]
  BY <1>1
<1> HIDE DEF r
<1>3. Evicted(c, s, f, k, d)
  BY EvictToIs
<1> HIDE DEF d
<1>4. Distinct(r)
  BY <1>1, <1>2 DEF Distinct
<1>5. d.head = At(r, 1) /\ d.tail = At(r, Len(r))
  BY <1>1, <1>2, <1>3 DEF Strung, At, Evicted
<1>6. ASSUME NEW i \in 1 .. Len(r)
      PROVE  LinkAt(d, r, i)
  <2>1. i \in 1 .. k /\ r[i] = s[i]
    BY <1>2
  <2>2. c.block[s[i]].uri \in Uris
    BY <1>1, <2>1 DEF Strung, LinkAt
  <2>3. At(r, i - 1) = At(s, i - 1)
    BY <1>1, <1>2, <2>1 DEF At
  <2>4. At(r, i + 1) = IF i = k THEN NULL ELSE At(s, i + 1)
    BY <1>1, <1>2, <2>1 DEF At
  <2> QED
    BY <1>3, <2>1, <2>2, <2>3, <2>4 DEF LinkAt, Evicted
<1>7. Strung(d, r)
  BY <1>2, <1>3, <1>4, <1>5, <1>6 DEF Strung, Evicted
<1>8. Contents(d, r) = SubSeq(e, 1, k)
  <2>1. e \in Seq(LRU!Object) /\ Len(e) = Len(s)
    BY ContentsType
  <2>2. SubSeq(e, 1, k) = [i \in 1 .. k |-> e[i]]
    BY <1>1, <2>1
  <2>3. \A i \in 1 .. k : e[i] = [uri |-> c.block[s[i]].uri,
                                  size |-> c.block[s[i]].size]
    BY <1>1 DEF Contents
  <2>4. Contents(d, r) = [i \in 1 .. k |-> [uri |-> d.block[r[i]].uri,
                                            size |-> d.block[r[i]].size]]
    BY <1>2 DEF Contents
  <2> HIDE DEF e
  <2>5. \A i \in 1 .. k :
          [uri |-> d.block[r[i]].uri, size |-> d.block[r[i]].size] = e[i]
    <3> SUFFICES ASSUME NEW i \in 1 .. k
                 PROVE  [uri |-> d.block[r[i]].uri,
                         size |-> d.block[r[i]].size] = e[i]
      OBVIOUS
    <3>1. /\ d.block[s[i]].uri = c.block[s[i]].uri
          /\ d.block[s[i]].size = c.block[s[i]].size
      BY <1>3 DEF Evicted
    <3> QED
      BY <1>2, <2>3, <3>1
  <2> QED
    BY <2>2, <2>4, <2>5
<1> QED
  BY <1>7, <1>8 DEF d, r

(* ... is what one more turn of the loop makes of it.                      *)
LEMMA EvictOne ==
  ASSUME NEW c \in Cache, NEW s, Strung(c, s),
         NEW f, Sums(Contents(c, s), f), NEW k \in 1 .. Len(s)
  PROVE  Evict(EvictTo(c, s, f, k)) = EvictTo(c, s, f, k - 1)
<1> DEFINE d == EvictTo(c, s, f, k)
           g == EvictTo(c, s, f, k - 1)
           v == At(s, k - 1)
           a == SetNext(d, v, NULL)
           e == Evict(d)
<1>1. s \in Seq(Blocks) /\ Distinct(s) /\ Len(s) \in Nat /\ k \in Int
      /\ k \in 0 .. Len(s) /\ k - 1 \in 0 .. Len(s) /\ k # 0
  BY DEF Strung
<1>2. /\ d \in Cache
      /\ d.head = c.head
      /\ d.tail = s[k] /\ d.total_size = f[k]
      /\ \A i \in 1 .. k :
           /\ d.block[s[i]].uri = c.block[s[i]].uri
           /\ d.block[s[i]].size = c.block[s[i]].size
           /\ d.block[s[i]].prev = At(s, i - 1)
           /\ d.block[s[i]].next = IF i = k THEN NULL ELSE At(s, i + 1)
      /\ \A p \in Blocks :
           (\A i \in 1 .. k : s[i] # p) => d.block[p] = Freed
  <2>1. At(s, k) = s[k]
    BY DEF At
  <2>2. Evicted(c, s, f, k, d)
    BY <1>1, EvictToIs
  <2> HIDE DEF d
  <2> QED
    BY <1>1, <2>1, <2>2 DEF Evicted
<1>3. /\ g \in Cache
      /\ g.head = (IF k - 1 = 0 THEN NULL ELSE c.head)
      /\ g.tail = At(s, k - 1) /\ g.total_size = f[k - 1]
      /\ \A i \in 1 .. k - 1 :
           /\ g.block[s[i]].uri = c.block[s[i]].uri
           /\ g.block[s[i]].size = c.block[s[i]].size
           /\ g.block[s[i]].prev = At(s, i - 1)
           /\ g.block[s[i]].next = IF i = k - 1 THEN NULL ELSE At(s, i + 1)
      /\ \A p \in Blocks :
           (\A i \in 1 .. k - 1 : s[i] # p) => g.block[p] = Freed
  <2>1. Evicted(c, s, f, k - 1, g)
    BY <1>1, EvictToIs
  <2> HIDE DEF g
  <2> QED
    BY <2>1 DEF Evicted
<1> HIDE DEF d, g
<1>4. v \in Blocks \cup {NULL} /\ (v = NULL <=> k = 1)
      /\ (k # 1 => v = s[k - 1])
  <2>1. k - 1 \in Int
    BY <1>1
  <2> QED
    BY <1>1, <2>1, AtFacts
<1>5. s[k] \in Blocks /\ d.block[s[k]].prev = v
      /\ d.block[s[k]].size = c.block[s[k]].size
  BY <1>1, <1>2
<1> HIDE DEF v
<1>6. NextSet(d, a, v, NULL)
  BY <1>2, <1>4, SetNextIs
<1> DEFINE size == c.block[s[k]].size
<1>7. e = [a EXCEPT !.tail = v,
                    !.head = IF v = NULL THEN NULL ELSE @,
                    !.total_size = @ - size,
                    !.block[s[k]] = Freed]
  BY <1>2, <1>5 DEF Evict
<1> HIDE DEF a, e
<1>8. f[k] - size = f[k - 1] /\ f[k - 1] \in Nat
  <2>1. /\ Len(Contents(c, s)) = Len(s) /\ Contents(c, s)[k].size = size
        /\ size \in Nat
    BY ContentsType
  <2>2. f[k] = f[k - 1] + size /\ f[k - 1] \in Nat
    BY <1>1, <2>1 DEF Sums
  <2> HIDE DEF size
  <2> QED
    BY <2>1, <2>2
<1> HIDE DEF size
<1>9. /\ e \in Cache
      /\ e.tail = v /\ e.head = (IF v = NULL THEN NULL ELSE c.head)
      /\ e.total_size = f[k - 1]
      /\ e.block = [a.block EXCEPT ![s[k]] = Freed]
  <2>1. a \in Cache /\ a.head = c.head /\ a.total_size = f[k]
    BY <1>2, <1>6 DEF NextSet
  <2>2. [a.block EXCEPT ![s[k]] = Freed] \in [Blocks -> Block]
    BY <2>1, CacheableFacts DEF Cache
  <2>3. /\ e.tail = v /\ e.head = (IF v = NULL THEN NULL ELSE c.head)
        /\ e.total_size = f[k - 1]
        /\ e.block = [a.block EXCEPT ![s[k]] = Freed]
    BY <1>7, <1>8, <2>1 DEF Cache
  <2>4. e = [head |-> e.head, tail |-> e.tail, total_size |-> e.total_size,
             block |-> e.block]
    BY <1>7, <2>1 DEF Cache
  <2>5. c.head \in Blocks \cup {NULL}
    BY DEF Cache
  <2> QED
    BY <1>4, <1>8, <2>2, <2>3, <2>4, <2>5 DEF Cache
<1>10. a.block \in [Blocks -> Block]
  BY <1>6 DEF NextSet, Cache
<1>11. ASSUME NEW p \in Blocks
       PROVE  e.block[p] = g.block[p]
  <2>1. CASE p = s[k]
    <3>1. \A i \in 1 .. k - 1 : s[i] # p
      BY <1>1, <2>1 DEF Distinct
    <3>2. e.block[p] = Freed
      BY <1>9, <1>10, <2>1
    <3> QED
      BY <1>3, <3>1, <3>2
  <2>2. CASE \A i \in 1 .. k : s[i] # p
    <3>1. \A i \in 1 .. k - 1 : s[i] # p
      BY <1>1, <2>2
    <3>2. p # s[k] /\ p # v
      <4>1. k # 1 => k - 1 \in 1 .. k
        BY <1>1
      <4>2. p # NULL
        BY ProxyCacheAssumption DEF NULL, Blocks
      <4> QED
        BY <1>1, <1>4, <2>2, <4>1, <4>2
    <3>3. e.block[p] = d.block[p]
      BY <1>6, <1>9, <1>10, <3>2 DEF NextSet
    <3> QED
      BY <1>2, <1>3, <2>2, <3>1, <3>3
  <2>3. CASE \E i \in 1 .. k - 1 : s[i] = p
    <3>1. PICK i \in 1 .. k - 1 : s[i] = p
      BY <2>3
    <3>2. i \in 1 .. k /\ i # k /\ p # s[k]
      BY <1>1, <3>1 DEF Distinct
    <3>3. e.block[p] = a.block[p] /\ a.block[p] \in Block
      BY <1>9, <1>10, <3>2
    <3>4. p = v <=> i = k - 1
      <4>1. p # NULL
        BY ProxyCacheAssumption DEF NULL, Blocks
      <4> QED
        BY <1>1, <1>4, <3>1, <4>1 DEF Distinct
    <3>5. /\ d.block[p].uri = c.block[p].uri
          /\ d.block[p].size = c.block[p].size
          /\ d.block[p].prev = At(s, i - 1)
          /\ d.block[p].next = At(s, i + 1)
      BY <1>2, <3>1, <3>2
    <3>6. /\ a.block[p].uri = c.block[p].uri
          /\ a.block[p].size = c.block[p].size
          /\ a.block[p].prev = At(s, i - 1)
          /\ a.block[p].next = IF i = k - 1 THEN NULL ELSE At(s, i + 1)
      BY <1>6, <3>4, <3>5 DEF NextSet
    <3>7. /\ g.block[p].uri = c.block[p].uri
          /\ g.block[p].size = c.block[p].size
          /\ g.block[p].prev = At(s, i - 1)
          /\ g.block[p].next = IF i = k - 1 THEN NULL ELSE At(s, i + 1)
      BY <1>3, <3>1
    <3>8. g.block[p] \in Block
      BY <1>3 DEF Cache
    <3> QED
      BY <3>3, <3>6, <3>7, <3>8, SameBlock
  <2> QED
    <3>1. \A i \in 1 .. k : i = k \/ i \in 1 .. k - 1
      BY <1>1
    <3> QED
      BY <2>1, <2>2, <2>3, <3>1
<1>12. e = g
  <2>1. e.head = g.head /\ e.tail = g.tail /\ e.total_size = g.total_size
    BY <1>1, <1>3, <1>4, <1>9 DEF v
  <2> QED
    BY <1>3, <1>9, <1>11, <2>1, SameCache
<1> QED
  BY <1>12 DEF e, g, d

(* Nothing evicted.                                                        *)
LEMMA EvictNone ==
  ASSUME NEW c \in Cache, NEW s, Strung(c, s),
         NEW f, Sums(Contents(c, s), f), c.total_size = f[Len(s)]
  PROVE  EvictTo(c, s, f, Len(s)) = c
<1> DEFINE k == Len(s)
           d == EvictTo(c, s, f, k)
<1>1. s \in Seq(Blocks) /\ k \in Nat /\ k \in 0 .. Len(s)
  BY DEF Strung
<1>2. Evicted(c, s, f, k, d)
  BY <1>1, EvictToIs
<1> HIDE DEF d
<1>3. d.head = c.head /\ d.tail = c.tail /\ d.total_size = c.total_size
  BY <1>1, <1>2 DEF Evicted, Strung, At
<1>4. ASSUME NEW p \in Blocks
      PROVE  c.block[p] = d.block[p]
  <2>1. CASE \A i \in 1 .. k : s[i] # p
    BY <1>2, <2>1 DEF Evicted, Strung
  <2>2. CASE \E i \in 1 .. k : s[i] = p
    <3>1. PICK i \in 1 .. k : s[i] = p
      BY <2>2
    <3>2. c.block[p].prev = At(s, i - 1) /\ c.block[p].next = At(s, i + 1)
      BY <3>1 DEF Strung, LinkAt
    <3>3. i = k => At(s, i + 1) = NULL
      BY <1>1 DEF At
    <3>4. /\ d.block[p].uri = c.block[p].uri
          /\ d.block[p].size = c.block[p].size
          /\ d.block[p].prev = c.block[p].prev
          /\ d.block[p].next = c.block[p].next
      BY <1>2, <3>1, <3>2, <3>3 DEF Evicted
    <3>5. c.block[p] \in Block /\ d.block[p] \in Block
      BY <1>2 DEF Evicted, Cache
    <3> QED
      BY <3>4, <3>5, SameBlock
  <2> QED
    BY <2>1, <2>2
<1>5. d \in Cache
  BY <1>2 DEF Evicted
<1>6. d = c
  BY <1>3, <1>4, <1>5, SameCache
<1> QED
  BY <1>6 DEF d

(* As many objects are kept as leave room for one more, and no fewer.      *)
Kept(n, f, size, k) ==
  /\ k \in 0 .. n
  /\ k = 0 \/ f[k] + size <= MAX_CACHE_SIZE
  /\ k = n \/ f[k + 1] + size > MAX_CACHE_SIZE

(* Some number of them is such.                                            *)
LEMMA KeptExists ==
  ASSUME NEW n \in Nat, NEW f \in [0 .. n -> Nat], NEW size \in Nat
  PROVE  \E k : Kept(n, f, size, k)
<1> DEFINE S == {k \in 0 .. n : k = 0 \/ f[k] + size <= MAX_CACHE_SIZE}
           k == Max(S)
<1>1. S \subseteq 0 .. n /\ S # {}
  <2>1. 0 \in S
    OBVIOUS
  <2> QED
    BY <2>1
<1>2. k \in S /\ \A j \in S : j <= k
  <2> HIDE DEF S
  <2> QED
    BY <1>1, MaxOfBounded
<1> HIDE DEF k
<1>3. k \in 0 .. n /\ (k = 0 \/ f[k] + size <= MAX_CACHE_SIZE)
  BY <1>2
<1>4. ASSUME k # n
      PROVE  f[k + 1] + size > MAX_CACHE_SIZE
  <2>1. k + 1 \in 0 .. n /\ ~ (k + 1 <= k)
    BY <1>3, <1>4
  <2>2. k + 1 \notin S
    BY <1>2, <2>1
  <2>3. ~ (f[k + 1] + size <= MAX_CACHE_SIZE) /\ f[k + 1] \in Nat
    BY <2>1, <2>2
  <2> QED
    BY <2>3, ProxyCacheAssumption
<1> QED
  BY <1>3, <1>4 DEF Kept

(* It is what LRUCache keeps ...                                           *)
LEMMA KeepIs ==
  ASSUME NEW S, NEW e \in Seq(S), \A i \in 1 .. Len(e) : e[i].size \in Nat,
         NEW f, Sums(e, f), NEW size \in Nat,
         NEW k, Kept(Len(e), f, size, k)
  PROVE  LRU!Keep(e, size) = SubSeq(e, 1, k)
<1> DEFINE Q(n) ==
        /\ n = 0 \/ LRU!TotalSize(SubSeq(e, 1, n)) + size <= MAX_CACHE_SIZE
        /\ \/ n = Len(e)
           \/ LRU!TotalSize(SubSeq(e, 1, n + 1)) + size > MAX_CACHE_SIZE
<1>1. Len(e) \in Nat /\ MAX_CACHE_SIZE \in Nat
      /\ \A n \in 0 .. Len(e) : f[n] \in Nat
  BY ProxyCacheAssumption DEF Sums
<1>2. \A n, m \in 0 .. Len(e) : n <= m => f[n] <= f[m]
  BY SumsIncrease
<1>3. \A n \in 0 .. Len(e) : LRU!TotalSize(SubSeq(e, 1, n)) = f[n]
  BY TotalOfPrefix
<1>4. \A n \in 0 .. Len(e) : Q(n) <=> Kept(Len(e), f, size, n)
  <2> SUFFICES ASSUME NEW n \in 0 .. Len(e)
               PROVE  Q(n) <=> Kept(Len(e), f, size, n)
    OBVIOUS
  <2>1. n = Len(e) \/ n + 1 \in 0 .. Len(e)
    BY <1>1
  <2> QED
    BY <1>3, <2>1 DEF Kept
<1>5. ASSUME NEW n \in 0 .. Len(e), Kept(Len(e), f, size, n)
      PROVE  n = k
  <2>1. k \in 0 .. Len(e) /\ n \in Nat /\ k \in Nat
    BY <1>1 DEF Kept
  <2>2. ASSUME NEW a \in 0 .. Len(e), NEW b \in 0 .. Len(e), a < b,
               Kept(Len(e), f, size, a), Kept(Len(e), f, size, b)
        PROVE  FALSE
    <3>1. a + 1 \in 0 .. Len(e) /\ a + 1 <= b /\ b # 0 /\ a # Len(e)
      BY <1>1, <2>2
    <3>2. f[a + 1] + size > MAX_CACHE_SIZE /\ f[b] + size <= MAX_CACHE_SIZE
      BY <2>2, <3>1 DEF Kept
    <3>3. f[a + 1] <= f[b] /\ f[a + 1] \in Nat /\ f[b] \in Nat
      BY <1>1, <1>2, <3>1
    <3> QED
      BY <1>1, <3>2, <3>3
  <2>3. ~ (n < k) /\ ~ (k < n)
    BY <1>5, <2>1, <2>2
  <2> QED
    BY <2>1, <2>3
<1>6. k \in 0 .. Len(e)
  BY DEF Kept
<1>7. LRU!Keep(e, size) = SubSeq(e, 1, CHOOSE n \in 0 .. Len(e) : Q(n))
  BY DEF LRU!Keep
<1> HIDE DEF Q
<1>8. (CHOOSE n \in 0 .. Len(e) : Q(n)) = k
  BY <1>4, <1>5, <1>6
<1> QED
  BY <1>7, <1>8

(* ... and what the loop that makes room keeps.                            *)
LEMMA EvictForIs ==
  ASSUME NEW c \in Cache, NEW s, Strung(c, s),
         NEW f, Sums(Contents(c, s), f), c.total_size = f[Len(s)],
         NEW size \in Nat, NEW k, Kept(Len(s), f, size, k)
  PROVE  EvictFor(c, size) = EvictTo(c, s, f, k)
<1> DEFINE Turn(x) == IF x.total_size + size > MAX_CACHE_SIZE /\ x.tail # NULL
                        THEN Evict(x) ELSE x
           Turns(g) == g = [n \in Blocks \cup {0} |->
                              IF n = 0 THEN c ELSE Turn(g[n - 1])]
           left(n) == IF Len(s) - n >= k THEN Len(s) - n ELSE k
           h == [n \in 0 .. BlockCount |-> EvictTo(c, s, f, left(n))]
<1>1. /\ s \in Seq(Blocks) /\ Len(s) \in Nat /\ Len(s) <= BlockCount
      /\ k \in 0 .. Len(s)
  BY ChainLength DEF Strung, Kept
<1>2. BlockCount \in Nat /\ Blocks \cup {0} = 0 .. BlockCount
  BY ProxyCacheAssumption DEF Blocks
<1>3. MAX_CACHE_SIZE \in Nat /\ \A n \in 0 .. Len(s) : f[n] \in Nat
  BY ContentsType, ProxyCacheAssumption DEF Sums
<1>4. \A n, m \in 0 .. Len(s) : n <= m => f[n] <= f[m]
  BY ContentsType, SumsIncrease
<1>5. ASSUME NEW m \in 0 .. Len(s), m > k
      PROVE  Turn(EvictTo(c, s, f, m)) = EvictTo(c, s, f, m - 1)
  <2> DEFINE x == EvictTo(c, s, f, m)
  <2>1. x.total_size = f[m] /\ x.tail = At(s, m)
    BY DEF EvictTo
  <2>2. m \in 1 .. Len(s) /\ k # Len(s) /\ k + 1 \in 0 .. Len(s) /\ k + 1 <= m
    BY <1>1, <1>5
  <2>3. f[m] + size > MAX_CACHE_SIZE
    <3>1. f[k + 1] + size > MAX_CACHE_SIZE
      BY <2>2 DEF Kept
    <3>2. f[k + 1] <= f[m] /\ f[k + 1] \in Nat /\ f[m] \in Nat
      BY <1>3, <1>4, <2>2
    <3> QED
      BY <1>3, <3>1, <3>2
  <2>4. At(s, m) # NULL
    BY <1>1, <2>2, AtFacts
  <2>5. Evict(x) = EvictTo(c, s, f, m - 1)
    BY <2>2, EvictOne
  <2> HIDE DEF x
  <2>6. Turn(x) = EvictTo(c, s, f, m - 1)
    BY <2>1, <2>3, <2>4, <2>5
  <2> QED
    BY <2>6 DEF x
<1>6. Turn(EvictTo(c, s, f, k)) = EvictTo(c, s, f, k)
  <2> DEFINE x == EvictTo(c, s, f, k)
  <2>1. x.total_size = f[k] /\ x.tail = At(s, k)
    BY DEF EvictTo
  <2>2. At(s, 0) = NULL
    BY DEF At
  <2>3. k = 0 \/ ~ (f[k] + size > MAX_CACHE_SIZE)
    <3>1. f[k] \in Nat
      BY <1>1, <1>3
    <3>2. k = 0 \/ f[k] + size <= MAX_CACHE_SIZE
      BY DEF Kept
    <3> QED
      BY <1>3, <3>1, <3>2
  <2> HIDE DEF x
  <2>4. Turn(x) = x
    BY <2>1, <2>2, <2>3
  <2> QED
    BY <2>4 DEF x
<1> HIDE DEF Turn
<1>7. h[0] = c
  <2>1. left(0) = Len(s) /\ 0 \in 0 .. BlockCount
    BY <1>1, <1>2
  <2>2. h[0] = EvictTo(c, s, f, left(0))
    BY <2>1
  <2> HIDE DEF left, h
  <2> QED
    BY <2>1, <2>2, EvictNone
<1>8. ASSUME NEW n \in 1 .. BlockCount
      PROVE  h[n] = Turn(h[n - 1])
  <2>1. n \in 0 .. BlockCount /\ n - 1 \in 0 .. BlockCount /\ n \in Nat
    BY <1>2
  <2>2. /\ h[n] = EvictTo(c, s, f, left(n))
        /\ h[n - 1] = EvictTo(c, s, f, left(n - 1))
    BY <2>1
  <2>3. \/ left(n - 1) \in 0 .. Len(s) /\ left(n - 1) > k
           /\ left(n) = left(n - 1) - 1
        \/ left(n - 1) = k /\ left(n) = k
    BY <1>1, <2>1
  <2> HIDE DEF left, h
  <2> QED
    BY <1>5, <1>6, <2>2, <2>3
<1>9. h = [n \in 0 .. BlockCount |-> h[n]]
  OBVIOUS
<1>10. h[BlockCount] = EvictTo(c, s, f, k)
  <2>1. BlockCount \in 0 .. BlockCount /\ left(BlockCount) = k
    BY <1>1, <1>2
  <2> QED
    BY <2>1
<1> HIDE DEF h
<1>11. Turns(h)
  <2>1. \A n \in 0 .. BlockCount :
           h[n] = IF n = 0 THEN c ELSE Turn(h[n - 1])
    BY <1>2, <1>7, <1>8
  <2> QED
    BY <1>2, <1>9, <2>1
<1> DEFINE turn == CHOOSE g : Turns(g)
<1>12. EvictFor(c, size) = turn[BlockCount]
  BY DEF EvictFor, Turn
<1>13. Turns(turn)
  <2> HIDE DEF Turns
  <2> QED
    BY <1>11
<1> HIDE DEF turn
<1>14. \A n \in 0 .. BlockCount : turn[n] = h[n]
  <2>1. \A n \in 0 .. BlockCount :
           turn[n] = IF n = 0 THEN c ELSE Turn(turn[n - 1])
    BY <1>2, <1>13
  <2>2. turn[0] = h[0]
    BY <1>2, <1>7, <2>1
  <2>3. ASSUME NEW n \in 1 .. BlockCount, turn[n - 1] = h[n - 1]
        PROVE  turn[n] = h[n]
    <3>1. n \in 0 .. BlockCount /\ n # 0
      BY <1>2
    <3> QED
      BY <1>8, <2>1, <2>3, <3>1
  <2> QED
    BY <1>2, <2>2, <2>3, SameSteps
<1>15. turn[BlockCount] = h[BlockCount]
  BY <1>2, <1>14
<1> QED
  BY <1>10, <1>12, <1>15
-----------------------------------------------------------------------------
(* A sequence with one more element in front.                              *)
LEMMA ConsIs ==
  ASSUME NEW S, NEW s \in Seq(S), NEW p \in S
  PROVE  LET r == <<p>> \o s
         IN  /\ r \in Seq(S) /\ Len(r) = Len(s) + 1 /\ r[1] = p
             /\ \A i \in 1 .. Len(s) : r[i + 1] = s[i]
             /\ \A j \in 2 .. Len(s) + 1 : r[j] = s[j - 1]
<1> DEFINE a == <<p>>
           r == a \o s
<1>1. a \in Seq(S) /\ Len(a) = 1 /\ a[1] = p /\ Len(s) \in Nat
  OBVIOUS
<1> HIDE DEF a
<1>2. /\ r \in Seq(S) /\ Len(r) = Len(a) + Len(s)
      /\ \A j \in 1 .. Len(a) + Len(s) :
           r[j] = IF j <= Len(a) THEN a[j] ELSE s[j - Len(a)]
  BY <1>1, Concat
<1> HIDE DEF r
<1>3. /\ r \in Seq(S) /\ Len(r) = Len(s) + 1
      /\ \A j \in 1 .. Len(s) + 1 : r[j] = IF j <= 1 THEN a[j] ELSE s[j - 1]
  BY <1>1, <1>2
<1>4. r[1] = p
  BY <1>1, <1>3
<1>5. \A j \in 2 .. Len(s) + 1 : r[j] = s[j - 1]
  BY <1>1, <1>3
<1>6. ASSUME NEW i \in 1 .. Len(s)
      PROVE  r[i + 1] = s[i]
  <2>1. i + 1 \in 2 .. Len(s) + 1 /\ (i + 1) - 1 = i
    BY <1>1
  <2> QED
    BY <1>5, <2>1
<1> QED
  BY <1>3, <1>4, <1>5, <1>6 DEF r, a

(* A free block put in front.                                              *)
Pushed(c, d, p, u, size) ==
  /\ d \in Cache
  /\ d.head = p /\ d.tail = (IF c.tail = NULL THEN p ELSE c.tail)
  /\ d.total_size = c.total_size + size
  /\ d.block[p] = [uri |-> u, size |-> size, prev |-> NULL, next |-> c.head]
  /\ \A x \in Blocks : x # p =>
       /\ d.block[x].uri = c.block[x].uri
       /\ d.block[x].size = c.block[x].size
       /\ d.block[x].next = c.block[x].next
       /\ d.block[x].prev = IF x = c.head THEN p ELSE c.block[x].prev
       /\ x # c.head => d.block[x] = c.block[x]

(* PushFront does so with a block that is not at the head.                 *)
LEMMA PushFrontIs ==
  ASSUME NEW c \in Cache, NEW p \in Blocks, p # c.head,
         NEW u \in Uris, NEW size \in Cacheable
  PROVE  Pushed(c, PushFront(c, p, u, size), p, u, size)
<1> DEFINE b == [uri |-> u, size |-> size, prev |-> NULL, next |-> c.head]
           e == [c EXCEPT !.head = p,
                          !.tail = IF @ = NULL THEN p ELSE @,
                          !.total_size = @ + size,
                          !.block[p] = b]
           d == SetPrev(e, c.head, p)
<1>1. PushFront(c, p, u, size) = d
  BY DEF PushFront
<1>2. b \in Block /\ size \in Nat
  BY CacheableFacts DEF Block, Cache
<1> HIDE DEF b
<1>3. /\ e.head = p /\ e.tail = (IF c.tail = NULL THEN p ELSE c.tail)
      /\ e.total_size = c.total_size + size
      /\ e.block = [c.block EXCEPT ![p] = b]
      /\ e \in Cache
  <2>1. /\ e.head = p /\ e.tail = (IF c.tail = NULL THEN p ELSE c.tail)
        /\ e.total_size = c.total_size + size
        /\ e.block = [c.block EXCEPT ![p] = b]
    BY DEF Cache
  <2>2. [c.block EXCEPT ![p] = b] \in [Blocks -> Block]
    BY <1>2 DEF Cache
  <2>3. c.total_size + size \in Nat /\ c.tail \in Blocks \cup {NULL}
    BY <1>2 DEF Cache
  <2>4. e \in Cache
    BY <2>1, <2>2, <2>3 DEF Cache
  <2> QED
    BY <2>1, <2>4
<1> HIDE DEF e
<1>4. c.head \in Blocks \cup {NULL} /\ c.block \in [Blocks -> Block]
  BY DEF Cache
<1>5. PrevSet(e, d, c.head, p)
  BY <1>3, <1>4, SetPrevIs
<1> HIDE DEF d
<1>6. d.block[p] = b
  BY <1>3, <1>4, <1>5 DEF PrevSet
<1>7. ASSUME NEW x \in Blocks, x # p
      PROVE  /\ d.block[x].uri = c.block[x].uri
             /\ d.block[x].size = c.block[x].size
             /\ d.block[x].next = c.block[x].next
             /\ d.block[x].prev = IF x = c.head THEN p ELSE c.block[x].prev
             /\ x # c.head => d.block[x] = c.block[x]
  <2>1. e.block[x] = c.block[x]
    BY <1>3, <1>4, <1>7
  <2> QED
    BY <1>5, <2>1 DEF PrevSet
<1>8. /\ d \in Cache
      /\ d.head = p /\ d.tail = (IF c.tail = NULL THEN p ELSE c.tail)
      /\ d.total_size = c.total_size + size
  BY <1>3, <1>5 DEF PrevSet
<1> QED
  BY <1>1, <1>6, <1>7, <1>8 DEF Pushed, b

(* An insertion keeps the list well linked, and puts the object first in   *)
(* the contents.                                                           *)
LEMMA PushFrontChain ==
  ASSUME NEW c \in Cache, NEW s, Strung(c, s),
         NEW p \in Blocks, c.block[p] = Freed,
         NEW u \in Uris, NEW size \in Cacheable
  PROVE  LET d == PushFront(c, p, u, size)
             r == <<p>> \o s
         IN  /\ d \in Cache /\ Strung(d, r)
             /\ d.total_size = c.total_size + size
             /\ Contents(d, r) = <<[uri |-> u, size |-> size]>>
                                   \o Contents(c, s)
<1> DEFINE d == PushFront(c, p, u, size)
           r == <<p>> \o s
           o == [uri |-> u, size |-> size]
           e == Contents(c, s)
<1>1. s \in Seq(Blocks) /\ Distinct(s) /\ Len(s) \in Nat
  BY DEF Strung
<1>2. /\ r \in Seq(Blocks) /\ Len(r) = Len(s) + 1 /\ r[1] = p
      /\ \A i \in 1 .. Len(s) : r[i + 1] = s[i]
      /\ \A j \in 2 .. Len(s) + 1 : r[j] = s[j - 1]
  BY <1>1, ConsIs
<1> HIDE DEF r
<1>3. \A i \in 1 .. Len(s) : s[i] # p /\ s[i] \in Blocks
  <2> SUFFICES ASSUME NEW i \in 1 .. Len(s)
               PROVE  s[i] # p /\ s[i] \in Blocks
    OBVIOUS
  <2>1. c.block[s[i]].uri \in Uris
    BY DEF Strung, LinkAt
  <2>2. c.block[p].uri \notin Uris
    BY ProxyCacheAssumption DEF Freed
  <2> QED
    BY <1>1, <2>1, <2>2
<1>4. c.head = At(s, 1) /\ c.tail = At(s, Len(s))
  BY DEF Strung
<1>5. NULL \notin Blocks
  BY ProxyCacheAssumption DEF NULL, Blocks
<1>6. Pushed(c, d, p, u, size)
  <2>1. p # c.head
    BY <1>3, <1>4, <1>5 DEF At
  <2> QED
    BY <2>1, PushFrontIs
<1> HIDE DEF d
<1>7. Distinct(r)
  <2> SUFFICES ASSUME NEW i \in 1 .. Len(r), NEW j \in 1 .. Len(r), r[i] = r[j]
               PROVE  i = j
    BY DEF Distinct
  <2>1. \A k \in 1 .. Len(r) : \/ k = 1
                               \/ /\ k \in 2 .. Len(s) + 1
                                  /\ k - 1 \in 1 .. Len(s)
    BY <1>1, <1>2
  <2>2. CASE i = 1
    BY <1>2, <1>3, <2>1, <2>2
  <2>3. CASE j = 1
    BY <1>2, <1>3, <2>1, <2>3
  <2>4. CASE i # 1 /\ j # 1
    <3>1. r[i] = s[i - 1] /\ r[j] = s[j - 1]
      BY <1>2, <2>1, <2>4
    <3>2. i - 1 = j - 1
      BY <1>1, <2>1, <2>4, <3>1 DEF Distinct
    <3> QED
      BY <1>1, <1>2, <3>2
  <2> QED
    BY <2>2, <2>3, <2>4
<1>8. d.head = At(r, 1)
  BY <1>1, <1>2, <1>6 DEF Pushed, At
<1>9. d.tail = At(r, Len(r))
  <2>1. At(r, Len(r)) = r[Len(s) + 1]
    BY <1>1, <1>2 DEF At
  <2>2. CASE Len(s) = 0
    <3>1. c.tail = NULL
      BY <1>4, <2>2 DEF At
    <3> QED
      BY <1>2, <1>6, <2>1, <2>2, <3>1 DEF Pushed
  <2>3. CASE Len(s) # 0
    <3>1. Len(s) \in 1 .. Len(s)
      BY <1>1, <2>3
    <3>2. c.tail = s[Len(s)] /\ s[Len(s)] # NULL
      BY <1>3, <1>4, <1>5, <3>1 DEF At
    <3> QED
      BY <1>2, <1>6, <2>1, <3>1, <3>2 DEF Pushed
  <2> QED
    BY <2>2, <2>3
<1>10. ASSUME NEW j \in 1 .. Len(r)
       PROVE  LinkAt(d, r, j)
  <2>1. CASE j = 1
    <3>1. d.block[r[j]].prev = NULL /\ d.block[r[j]].next = c.head
          /\ d.block[r[j]].uri \in Uris
      BY <1>2, <1>6, <2>1 DEF Pushed
    <3>2. At(r, j - 1) = NULL
      BY <2>1 DEF At
    <3>3. At(r, j + 1) = c.head
      <4>1. CASE Len(s) = 0
        BY <1>2, <1>4, <2>1, <4>1 DEF At
      <4>2. CASE Len(s) # 0
        <5>1. 1 \in 1 .. Len(s) /\ 2 \in 1 .. Len(r)
          BY <1>1, <1>2, <4>2
        <5>2. r[2] = s[1]
          BY <1>2, <5>1
        <5> QED
          BY <1>4, <2>1, <5>1, <5>2 DEF At
      <4> QED
        BY <4>1, <4>2
    <3> QED
      BY <3>1, <3>2, <3>3 DEF LinkAt
  <2>2. CASE j # 1
    <3> DEFINE i == j - 1
    <3>1. i \in 1 .. Len(s) /\ i + 1 = j /\ r[j] = s[i] /\ i \in Int
      BY <1>1, <1>2, <2>2
    <3> HIDE DEF i
    <3>2. /\ c.block[s[i]].prev = At(s, i - 1)
          /\ c.block[s[i]].next = At(s, i + 1)
          /\ c.block[s[i]].uri \in Uris
      BY <3>1 DEF Strung, LinkAt
    <3>3. At(r, j + 1) = At(s, i + 1)
      BY <1>1, <1>2, <3>1 DEF At
    <3>4. /\ d.block[s[i]].uri = c.block[s[i]].uri
          /\ d.block[s[i]].next = c.block[s[i]].next
          /\ d.block[s[i]].prev = IF s[i] = c.head THEN p
                                  ELSE c.block[s[i]].prev
      BY <1>3, <1>6, <3>1 DEF Pushed
    <3>5. d.block[s[i]].prev = At(r, j - 1)
      <4>1. s[i] = c.head <=> i = 1
        <5>1. 1 \in 1 .. Len(s)
          BY <1>1, <3>1
        <5> QED
          BY <1>1, <1>4, <3>1, <5>1 DEF Distinct, At
      <4>2. CASE i = 1
        <5>1. j - 1 = 1 /\ At(r, 1) = p
          BY <1>1, <1>2, <3>1, <4>2 DEF At
        <5> QED
          BY <3>4, <4>1, <4>2, <5>1
      <4>3. CASE i # 1
        <5>1. i \in 2 .. Len(s) + 1 /\ i - 1 \in 1 .. Len(s)
              /\ j - 1 = i /\ i \in 1 .. Len(r)
          BY <1>1, <1>2, <3>1, <4>3
        <5>2. At(r, j - 1) = s[i - 1] /\ At(s, i - 1) = s[i - 1]
          BY <1>2, <5>1 DEF At
        <5> QED
          BY <3>2, <3>4, <4>1, <4>3, <5>2
      <4> QED
        BY <4>2, <4>3
    <3> QED
      BY <3>1, <3>2, <3>3, <3>4, <3>5 DEF LinkAt
  <2> QED
    BY <2>1, <2>2
<1>11. ASSUME NEW x \in Blocks, \A j \in 1 .. Len(r) : r[j] # x
       PROVE  d.block[x] = Freed
  <2>1. x # p
    <3>1. 1 \in 1 .. Len(r)
      BY <1>1, <1>2
    <3> QED
      BY <1>2, <1>11, <3>1
  <2>2. ASSUME NEW i \in 1 .. Len(s)
        PROVE  s[i] # x
    <3>1. i + 1 \in 1 .. Len(r) /\ r[i + 1] = s[i]
      BY <1>1, <1>2
    <3> QED
      BY <1>11, <3>1
  <2>3. x # c.head /\ c.block[x] = Freed
    BY <1>4, <1>5, <2>2 DEF At, Strung
  <2> QED
    BY <1>6, <2>1, <2>3 DEF Pushed
<1>12. Strung(d, r)
  BY <1>2, <1>7, <1>8, <1>9, <1>10, <1>11 DEF Strung
<1>13. d \in Cache /\ d.total_size = c.total_size + size
  BY <1>6 DEF Pushed
<1>14. Contents(d, r) = <<o>> \o e
  <2> DEFINE x == <<o>> \o e
  <2>1. e \in Seq(LRU!Object) /\ Len(e) = Len(s)
        /\ \A i \in 1 .. Len(s) : e[i] = [uri |-> c.block[s[i]].uri,
                                          size |-> c.block[s[i]].size]
    BY ContentsType DEF Contents
  <2>2. o \in LRU!Object
    BY DEF LRU!Object
  <2> HIDE DEF e, o
  <2>3. /\ x \in Seq(LRU!Object) /\ Len(x) = Len(s) + 1 /\ x[1] = o
        /\ \A j \in 2 .. Len(s) + 1 : x[j] = e[j - 1]
    BY <2>1, <2>2, ConsIs
  <2> HIDE DEF x
  <2>4. ASSUME NEW j \in 1 .. Len(s) + 1
        PROVE  [uri |-> d.block[r[j]].uri, size |-> d.block[r[j]].size] = x[j]
    <3>1. CASE j = 1
      BY <1>2, <1>6, <2>3, <3>1 DEF Pushed, o
    <3>2. CASE j # 1
      <4>1. j \in 2 .. Len(s) + 1 /\ j - 1 \in 1 .. Len(s) /\ r[j] = s[j - 1]
        BY <1>1, <1>2, <3>2
      <4>2. /\ d.block[r[j]].uri = c.block[s[j - 1]].uri
            /\ d.block[r[j]].size = c.block[s[j - 1]].size
        BY <1>3, <1>6, <4>1 DEF Pushed
      <4> QED
        BY <2>1, <2>3, <4>1, <4>2
    <3> QED
      BY <3>1, <3>2
  <2>5. Contents(d, r) = [j \in 1 .. Len(s) + 1 |->
          [uri |-> d.block[r[j]].uri, size |-> d.block[r[j]].size]]
    BY <1>2 DEF Contents
  <2>6. x = [j \in 1 .. Len(s) + 1 |-> x[j]]
    BY <1>1, <2>3
  <2>7. Contents(d, r) = x
    BY <2>4, <2>5, <2>6
  <2> QED
    BY <2>7 DEF x
<1> QED
  BY <1>12, <1>13, <1>14 DEF d, r, o, e
-----------------------------------------------------------------------------
(* The list is well linked, and total_size is right and within the limit.  *)
Holds(c, s) ==
  /\ c \in Cache /\ Strung(c, s)
  /\ c.total_size = LRU!TotalSize(Contents(c, s))
  /\ c.total_size <= MAX_CACHE_SIZE

(* A hit keeps it so, and is a use of an object of LRUCache ...            *)
LEMMA HitHolds ==
  ASSUME NEW c, NEW s, Holds(c, s), NEW i \in 1 .. Len(s)
  PROVE  /\ Holds(ToFront(c, s[i]), MovedUp(s, i))
         /\ Contents(ToFront(c, s[i]), MovedUp(s, i))
              = <<Contents(c, s)[i]>> \o RemoveAt(Contents(c, s), i)
<1> DEFINE d == ToFront(c, s[i])
           r == MovedUp(s, i)
           e == Contents(c, s)
<1>1. /\ d \in Cache /\ Strung(d, r) /\ d.total_size = c.total_size
      /\ Contents(d, r) = MovedUp(e, i)
  BY ToFrontChain DEF Holds
<1>2. /\ e \in Seq(LRU!Object) /\ Len(e) = Len(s)
      /\ \A j \in 1 .. Len(e) : e[j].size \in Nat
  BY ContentsType DEF Holds
<1> HIDE DEF d, r, e
<1>3. PICK f : Sums(e, f)
  BY <1>2, SumsExist
<1>4. LRU!TotalSize(MovedUp(e, i)) = LRU!TotalSize(e)
  <2>1. LRU!TotalSize(MovedUp(e, i)) = f[Len(e)]
    BY <1>2, <1>3, TotalMoved
  <2>2. LRU!TotalSize(e) = f[Len(e)]
    BY <1>2, <1>3, TotalIsSum
  <2> QED
    BY <2>1, <2>2
<1>5. Holds(d, r)
  BY <1>1, <1>4 DEF Holds, e
<1>6. MovedUp(e, i) = <<e[i]>> \o RemoveAt(e, i)
  BY <1>2, MovedIs
<1> QED
  BY <1>1, <1>5, <1>6 DEF d, r, e

(* ... and so does an insertion, which is one of LRUCache.                 *)
LEMMA InsertHolds ==
  ASSUME NEW c, NEW s, Holds(c, s), NEW u \in Uris, NEW size \in Cacheable,
         Unused(EvictFor(c, size)) # {}
  PROVE  \E r : /\ Holds(cache_insert(c, u, size), r)
                /\ Contents(cache_insert(c, u, size), r)
                     = <<[uri |-> u, size |-> size]>>
                         \o LRU!Keep(Contents(c, s), size)
<1> DEFINE e == Contents(c, s)
           o == [uri |-> u, size |-> size]
           room == EvictFor(c, size)
           p == CHOOSE q \in Unused(room) : TRUE
           d == PushFront(room, p, u, size)
<1>1. /\ size \in Nat /\ size <= MAX_OBJECT_SIZE /\ size <= MAX_CACHE_SIZE
      /\ MAX_CACHE_SIZE \in Nat
  <2>1. /\ size \in Nat /\ size <= MAX_OBJECT_SIZE
    BY CacheableFacts
  <2> QED
    BY <2>1, ProxyCacheAssumption
<1>2. cache_insert(c, u, size) = d
  <2>1. ~ (size > MAX_OBJECT_SIZE)
    BY <1>1, ProxyCacheAssumption
  <2> QED
    BY <2>1 DEF cache_insert
<1>3. /\ c \in Cache /\ Strung(c, s) /\ s \in Seq(Blocks) /\ Len(s) \in Nat
  BY DEF Holds, Strung
<1>4. /\ e \in Seq(LRU!Object) /\ Len(e) = Len(s)
      /\ \A j \in 1 .. Len(e) : e[j].size \in Nat
  BY <1>3, ContentsType
<1>5. PICK f : Sums(e, f)
  <2> HIDE DEF e
  <2> QED
    BY <1>4, SumsExist
<1>6. f \in [0 .. Len(s) -> Nat] /\ f[0] = 0
  BY <1>4, <1>5 DEF Sums
<1>7. PICK k : Kept(Len(s), f, size, k)
  BY <1>1, <1>3, <1>6, KeptExists
<1>8. k \in 0 .. Len(s)
  BY <1>7 DEF Kept
<1>9. c.total_size = f[Len(s)]
  <2>1. LRU!TotalSize(e) = f[Len(e)]
    <3> HIDE DEF e
    <3> QED
      BY <1>4, <1>5, TotalIsSum
  <2> QED
    BY <1>4, <2>1 DEF Holds
<1>10. room = EvictTo(c, s, f, k)
  BY <1>1, <1>3, <1>5, <1>7, <1>9, EvictForIs
<1> DEFINE x == SubSeq(s, 1, k)
           y == SubSeq(e, 1, k)
<1>11. room \in Cache /\ Strung(room, x) /\ Contents(room, x) = y
       /\ room.total_size = f[k]
  <2>1. Evicted(c, s, f, k, EvictTo(c, s, f, k))
    BY <1>3, <1>5, <1>8, EvictToIs
  <2>2. /\ Strung(EvictTo(c, s, f, k), x)
        /\ Contents(EvictTo(c, s, f, k), x) = y
    BY <1>3, <1>5, <1>8, EvictToChain
  <2> QED
    BY <1>10, <2>1, <2>2 DEF Evicted
<1>12. p \in Blocks /\ room.block[p] = Freed
  <2> HIDE DEF room
  <2>1. p \in Unused(room)
    BY DEF room
  <2> QED
    BY <2>1 DEF Unused
<1> HIDE DEF room, p
<1> DEFINE r == <<p>> \o x
<1>13. /\ d \in Cache /\ Strung(d, r)
       /\ d.total_size = room.total_size + size
       /\ Contents(d, r) = <<o>> \o y
  <2> HIDE DEF x, y
  <2>1. /\ d \in Cache /\ Strung(d, r)
        /\ d.total_size = room.total_size + size
        /\ Contents(d, r) = <<o>> \o Contents(room, x)
    BY <1>11, <1>12, PushFrontChain
  <2> QED
    BY <1>11, <2>1
<1>14. LRU!Keep(e, size) = y
  <2> HIDE DEF e
  <2> QED
    BY <1>1, <1>4, <1>5, <1>7, KeepIs
<1>15. LRU!TotalSize(<<o>> \o y) = f[k] + size
  <2> HIDE DEF e
  <2>1. o \in LRU!Object /\ o.size = size
    BY DEF LRU!Object
  <2>2. y \in Seq(LRU!Object) /\ Len(y) = k /\ \A i \in 1 .. k : y[i] = e[i]
    BY <1>4, <1>8
  <2> HIDE DEF y, o
  <2> DEFINE z == <<o>> \o y
  <2>3. /\ z \in Seq(LRU!Object) /\ Len(z) = k + 1 /\ z[1] = o
        /\ \A i \in 1 .. k : z[i + 1] = e[i]
    BY <2>1, <2>2, ConsIs
  <2> HIDE DEF z
  <2>4. k \in 0 .. Len(e) /\ z[1].size \in Nat
    BY <1>1, <1>4, <1>8, <2>1, <2>3
  <2>5. LRU!TotalSize(z) = f[k] + z[1].size
    BY <1>4, <1>5, <2>3, <2>4, TotalWithFirst
  <2> QED
    BY <2>1, <2>3, <2>5 DEF z
<1>16. f[k] + size <= MAX_CACHE_SIZE
  BY <1>1, <1>6, <1>7 DEF Kept
<1> HIDE DEF d, r, e, o, x, y
<1>17. Holds(d, r)
  BY <1>11, <1>13, <1>15, <1>16 DEF Holds
<1> QED
  BY <1>2, <1>13, <1>14, <1>17 DEF e, o
-----------------------------------------------------------------------------
(* A thread that is serving a request knows its uri.                       *)
UriInv == \A t \in Threads : pc[t] # "idle" => uri[t] \in Uris

IInv == TypeOK /\ UriInv /\ \E s : Holds(cache, s)

(* The empty list.                                                         *)
LEMMA EmptyHolds ==
  ASSUME Init
  PROVE  Holds(cache, <<>>) /\ Contents(cache, <<>>) = <<>>
<1>1. <<>> \in Seq(Blocks) /\ Len(<<>>) = 0 /\ Distinct(<<>>)
  BY DEF Distinct
<1>2. cache \in Cache
  BY CacheableFacts DEF Init, Cache
<1>3. Strung(cache, <<>>)
  BY <1>1 DEF Init, Strung, At
<1>4. Contents(cache, <<>>) = <<>>
  BY DEF Contents
<1>5. LRU!TotalSize(<<>>) = 0
  <2> DEFINE f == [n \in 0 .. 0 |-> 0]
             z == <<>>
  <2>1. z \in Seq(LRU!Object) /\ Len(z) = 0 /\ f[0] = 0
    OBVIOUS
  <2>2. Sums(z, f)
    BY <2>1 DEF Sums
  <2> HIDE DEF f, z
  <2>3. LRU!TotalSize(z) = f[Len(z)]
    BY <2>1, <2>2, TotalIsSum
  <2> QED
    BY <2>1, <2>3 DEF z
<1>6. cache.total_size = 0 /\ 0 <= MAX_CACHE_SIZE
  BY ProxyCacheAssumption DEF Init
<1> QED
  BY <1>2, <1>3, <1>4, <1>5, <1>6 DEF Holds

(* The invariant holds when the proxy starts ...                           *)
LEMMA InitIInv ==
  Init => IInv
<1> SUFFICES ASSUME Init
             PROVE  IInv
  OBVIOUS
<1>1. Holds(cache, <<>>)
  BY EmptyHolds
<1>2. TypeOK
  BY <1>1, CacheableFacts DEF Init, TypeOK, Points, Holds
<1>3. UriInv
  BY DEF Init, UriInv
<1> QED
  BY <1>1, <1>2, <1>3 DEF IInv

(* What a hit does.                                                        *)
LEMMA HitStep ==
  ASSUME NEW s, Holds(cache, s), NEW u, Search(cache, u) # NULL,
         cache' = ToFront(cache, Search(cache, u))
  PROVE  \E r : \E i \in 1 .. Len(s) :
           /\ FirstAt(cache, s, i, u)
           /\ Holds(cache', r)
           /\ Contents(cache', r) = <<Contents(cache, s)[i]>>
                                      \o RemoveAt(Contents(cache, s), i)
<1>1. PICK i \in 1 .. Len(s) : /\ Search(cache, u) = s[i]
                               /\ FirstAt(cache, s, i, u)
  BY SearchIs DEF Holds
<1>2. /\ Holds(cache', MovedUp(s, i))
      /\ Contents(cache', MovedUp(s, i)) = <<Contents(cache, s)[i]>>
                                          \o RemoveAt(Contents(cache, s), i)
  BY <1>1, HitHolds
<1> QED
  BY <1>1, <1>2

(* ... and after every step of a connection ...                            *)
LEMMA NextIInv ==
  IInv /\ [Next]_vars => IInv'
<1> SUFFICES ASSUME IInv, [Next]_vars
             PROVE  IInv'
  OBVIOUS
<1>1. TypeOK /\ UriInv
  BY DEF IInv
<1>2. PICK s : Holds(cache, s)
  BY DEF IInv
<1>3. \A u : Search(cache, u) \in Blocks \cup {NULL}
  <2> SUFFICES ASSUME NEW u
               PROVE  Search(cache, u) \in Blocks \cup {NULL}
    OBVIOUS
  <2>1. \A i \in 1 .. Len(s) : s[i] \in Blocks
    BY <1>2 DEF Holds, Strung
  <2> QED
    BY <1>2, <2>1, SearchIs DEF Holds
<1>4. /\ NULL \in Blocks \cup {NULL} /\ NoUri \in Uris \cup {NoUri}
      /\ 0 \in Cacheable
  BY CacheableFacts
<1>5. ASSUME cache' = cache
      PROVE  cache' \in Cache /\ \E r : Holds(cache', r)
  BY <1>1, <1>2, <1>5 DEF TypeOK
<1>6. ASSUME NEW t \in Threads, NEW u \in Uris, Request(t, u)
      PROVE  IInv'
  <2>1. TypeOK'
    BY <1>1, <1>3, <1>5, <1>6 DEF Request, TypeOK, Goto, Points
  <2>2. UriInv'
    BY <1>1, <1>6 DEF Request, TypeOK, UriInv, Goto
  <2> QED
    BY <1>5, <1>6, <2>1, <2>2 DEF Request, IInv
<1>7. ASSUME NEW t \in Threads, NEW n \in Sizes, Fetch(t, n)
      PROVE  IInv'
  <2>1. n <= MAX_OBJECT_SIZE => n \in Cacheable
    BY DEF Cacheable
  <2>2. n <= MAX_OBJECT_SIZE \/ n > MAX_OBJECT_SIZE
    BY <1>7 DEF Fetch
  <2>3. TypeOK'
    BY <1>1, <1>4, <1>5, <1>7, <2>1 DEF Fetch, TypeOK, Goto, Points
  <2>4. UriInv'
    BY <1>1, <1>7 DEF Fetch, TypeOK, UriInv, Goto
  <2> QED
    BY <1>5, <1>7, <2>3, <2>4 DEF Fetch, IInv
<1>8. ASSUME NEW t \in Threads, Upgrade(t)
      PROVE  IInv'
  <2>1. cache' \in Cache /\ \E r : Holds(cache', r)
    <3>1. CASE cache' = cache
      BY <1>5, <3>1
    <3>2. CASE cache' # cache
      <4>1. /\ Search(cache, uri[t]) # NULL
            /\ cache' = ToFront(cache, Search(cache, uri[t]))
        BY <1>8, <3>2 DEF Upgrade
      <4>2. \E r : Holds(cache', r)
        BY <1>2, <4>1, HitStep
      <4> QED
        BY <4>2 DEF Holds
    <3> QED
      BY <3>1, <3>2
  <2>2. TypeOK'
    BY <1>1, <1>4, <1>8, <2>1 DEF Upgrade, TypeOK, Goto, Points
  <2>3. UriInv'
    BY <1>1, <1>8 DEF Upgrade, TypeOK, UriInv, Goto
  <2> QED
    BY <2>1, <2>2, <2>3 DEF IInv
<1>9. ASSUME NEW t \in Threads, Refuse(t)
      PROVE  IInv'
  <2>1. TypeOK'
    BY <1>1, <1>4, <1>5, <1>9 DEF Refuse, TypeOK, Goto, Points
  <2>2. UriInv'
    BY <1>1, <1>9 DEF Refuse, TypeOK, UriInv, Goto
  <2> QED
    BY <1>5, <1>9, <2>1, <2>2 DEF Refuse, IInv
<1>10. ASSUME NEW t \in Threads, Insert(t)
       PROVE  IInv'
  <2>1. uri[t] \in Uris /\ total[t] \in Cacheable
    BY <1>1, <1>10 DEF Insert, TypeOK, UriInv
  <2>2. /\ Unused(EvictFor(cache, total[t])) # {}
        /\ cache' = cache_insert(cache, uri[t], total[t])
    BY <1>10 DEF Insert
  <2>3. \E r : Holds(cache', r)
    BY <1>2, <2>1, <2>2, InsertHolds
  <2>4. cache' \in Cache
    BY <2>3 DEF Holds
  <2>5. TypeOK'
    BY <1>1, <1>4, <1>10, <2>4 DEF Insert, TypeOK, Goto, Points
  <2>6. UriInv'
    BY <1>1, <1>10 DEF Insert, TypeOK, UriInv, Goto
  <2> QED
    BY <2>3, <2>5, <2>6 DEF IInv
<1>11. ASSUME UNCHANGED vars
       PROVE  IInv'
  <2>1. TypeOK' /\ UriInv'
    BY <1>1, <1>11 DEF vars, TypeOK, UriInv
  <2> QED
    BY <1>5, <1>11, <2>1 DEF vars, IInv
<1> QED
  BY <1>6, <1>7, <1>8, <1>9, <1>10, <1>11 DEF Next

(* ... and so always: the list is well linked in every state, and each thread*)
(* that looks for an object or inserts one has a uri.                      *)
THEOREM Invariance ==
  Spec => []IInv
<1> QED
  BY InitIInv, NextIInv, PTL DEF Spec

(* Whatever the threads do, the state has its types, and nothing is kept   *)
(* that is larger than an object may be.                                   *)
THEOREM TypeCorrect ==
  Spec => []TypeOK
<1>1. IInv => TypeOK
  BY DEF IInv
<1> QED
  BY <1>1, Invariance, PTL

(* The list can be read in both directions, holds every block not freed,   *)
(* and total_size is the size of what is on it, within the limit: no       *)
(* interleaving of lookups, hits and insertions loses or duplicates a      *)
(* block.                                                                  *)
THEOREM LinksCorrect ==
  Spec => []LinksAgree
<1>1. ASSUME IInv
      PROVE  LinksAgree
  <2>1. PICK s : Holds(cache, s)
    BY <1>1 DEF IInv
  <2>2. Strung(cache, s) /\ s \in Seq(Blocks) /\ Distinct(s) /\ Len(s) \in Nat
    BY <2>1 DEF Holds, Strung
  <2>3. Listed(cache) = {s[i] : i \in 1 .. Len(s)}
    BY <2>2, ListedAre
  <2>4. NULL \notin Blocks
    BY ProxyCacheAssumption DEF NULL, Blocks
  <2>5. ASSUME NEW i \in 1 .. Len(s)
        PROVE  LET p == s[i]
                   b == cache.block[p]
               IN  /\ b.uri # NoUri
                   /\ IF b.prev = NULL THEN cache.head = p
                      ELSE /\ b.prev \in Listed(cache)
                           /\ cache.block[b.prev].next = p
                   /\ IF b.next = NULL THEN cache.tail = p
                      ELSE /\ b.next \in Listed(cache)
                           /\ cache.block[b.next].prev = p
    <3>1. /\ cache.block[s[i]].prev = At(s, i - 1)
          /\ cache.block[s[i]].next = At(s, i + 1)
          /\ cache.block[s[i]].uri \in Uris
      BY <2>2 DEF Strung, LinkAt
    <3>2. IF At(s, i - 1) = NULL THEN cache.head = s[i]
          ELSE /\ At(s, i - 1) \in Listed(cache)
               /\ cache.block[At(s, i - 1)].next = s[i]
      <4>1. CASE i = 1
        BY <2>2, <4>1 DEF Strung, At
      <4>2. CASE i # 1
        <5>1. i - 1 \in 1 .. Len(s) /\ (i - 1) + 1 = i
          BY <2>2, <4>2
        <5>2. At(s, i - 1) = s[i - 1] /\ At(s, i) = s[i] /\ s[i - 1] \in Blocks
          BY <2>2, <5>1 DEF At
        <5>3. cache.block[s[i - 1]].next = At(s, i)
          BY <2>2, <5>1 DEF Strung, LinkAt
        <5> QED
          BY <2>3, <2>4, <5>1, <5>2, <5>3
      <4> QED
        BY <4>1, <4>2
    <3>3. IF At(s, i + 1) = NULL THEN cache.tail = s[i]
          ELSE /\ At(s, i + 1) \in Listed(cache)
               /\ cache.block[At(s, i + 1)].prev = s[i]
      <4>1. CASE i = Len(s)
        BY <2>2, <4>1 DEF Strung, At
      <4>2. CASE i # Len(s)
        <5>1. i + 1 \in 1 .. Len(s) /\ (i + 1) - 1 = i
          BY <2>2, <4>2
        <5>2. At(s, i + 1) = s[i + 1] /\ At(s, i) = s[i] /\ s[i + 1] \in Blocks
          BY <2>2, <5>1 DEF At
        <5>3. cache.block[s[i + 1]].prev = At(s, i)
          BY <2>2, <5>1 DEF Strung, LinkAt
        <5> QED
          BY <2>3, <2>4, <5>1, <5>2, <5>3
      <4> QED
        BY <4>1, <4>2
    <3> QED
      BY <3>1, <3>2, <3>3, ProxyCacheAssumption
  <2>6. cache.tail = NULL <=> cache.head = NULL
    <3>1. /\ cache.head = At(s, 1) /\ cache.tail = At(s, Len(s))
      BY <2>2 DEF Strung
    <3>2. At(s, 1) = NULL <=> 1 \notin 1 .. Len(s)
      BY <2>2, AtFacts
    <3>3. At(s, Len(s)) = NULL <=> Len(s) \notin 1 .. Len(s)
      BY <2>2, AtFacts
    <3> QED
      BY <2>2, <3>1, <3>2, <3>3
  <2>7. Unused(cache) = Blocks \ Listed(cache)
    <3>1. ASSUME NEW p \in Blocks, p \notin Listed(cache)
          PROVE  cache.block[p] = Freed
      BY <2>2, <2>3, <3>1 DEF Strung
    <3>2. ASSUME NEW p \in Blocks, p \in Listed(cache)
          PROVE  cache.block[p] # Freed
      <4>1. cache.block[p].uri \in Uris
        BY <2>2, <2>3, <3>2 DEF Strung, LinkAt
      <4> QED
        BY <4>1, ProxyCacheAssumption DEF Freed
    <3> QED
      BY <3>1, <3>2 DEF Unused
  <2>8. /\ cache.total_size = LRU!TotalSize(Entries(cache))
        /\ cache.total_size <= MAX_CACHE_SIZE
    BY <2>1, <2>2, EntriesAre DEF Holds
  <2>9. ASSUME NEW p \in Listed(cache)
        PROVE  LET b == cache.block[p]
               IN  /\ b.uri # NoUri
                   /\ IF b.prev = NULL THEN cache.head = p
                      ELSE /\ b.prev \in Listed(cache)
                           /\ cache.block[b.prev].next = p
                   /\ IF b.next = NULL THEN cache.tail = p
                      ELSE /\ b.next \in Listed(cache)
                           /\ cache.block[b.next].prev = p
    <3>1. PICK i \in 1 .. Len(s) : s[i] = p
      BY <2>3
    <3> QED
      BY <2>5, <3>1
  <2> QED
    BY <2>6, <2>7, <2>8, <2>9 DEF LinksAgree
<1> QED
  BY <1>1, Invariance, PTL
-----------------------------------------------------------------------------
(* The initial cache is the abstract one ...                               *)
LEMMA InitMapped ==
  Init => LRU!Init
<1> SUFFICES ASSUME Init
             PROVE  LRU!Init
  OBVIOUS
<1>1. Holds(cache, <<>>) /\ Contents(cache, <<>>) = <<>>
  BY EmptyHolds
<1>2. Entries(cache) = <<>>
  BY <1>1, EntriesAre DEF Holds
<1>3. State = [t \in Threads |-> "idle"]
  BY DEF Init, State
<1> QED
  BY <1>2, <1>3 DEF Init, LRU!Init

(* The abstract cache has an object of a uri exactly when a search for it  *)
(* finds one.                                                              *)
LEMMA HasIs ==
  ASSUME NEW s, Holds(cache, s), NEW u
  PROVE  LRU!Has(u) <=> Search(cache, u) # NULL
<1>1. Entries(cache) = Contents(cache, s)
  BY EntriesAre DEF Holds
<1> DEFINE e == Entries(cache)
<1>a. /\ DOMAIN e = 1 .. Len(s)
      /\ \A i \in 1 .. Len(s) : e[i].uri = cache.block[s[i]].uri
  BY <1>1 DEF Contents
<1>b. LRU!Has(u) <=> \E i \in DOMAIN e : e[i].uri = u
  BY DEF LRU!Has
<1>2. LRU!Has(u) <=> \E i \in 1 .. Len(s) : cache.block[s[i]].uri = u
  <2> HIDE DEF e
  <2> QED
    BY <1>a, <1>b
<1>3. \/ /\ Search(cache, u) = NULL
         /\ \A i \in 1 .. Len(s) : cache.block[s[i]].uri # u
      \/ \E i \in 1 .. Len(s) :
           /\ Search(cache, u) = s[i] /\ s[i] # NULL
           /\ FirstAt(cache, s, i, u)
  BY SearchIs DEF Holds
<1> QED
  BY <1>2, <1>3 DEF FirstAt

(* What a step of a thread means to the abstract client.                   *)
LEMMA StateIs ==
  ASSUME TypeOK, NEW t \in Threads, NEW x, Goto(t, x)
  PROVE  State' = [State EXCEPT ![t] = IF x = "idle" THEN "idle"
                                       ELSE IF x = "upgrade" THEN "hit"
                                       ELSE "miss"]
<1>1. pc \in [Threads -> Points] /\ pc' = [pc EXCEPT ![t] = x]
  BY DEF TypeOK, Goto
<1> QED
  BY <1>1 DEF State

(* ... and every step is one of the abstract cache or does not touch it.   *)
LEMMA NextMapped ==
  IInv /\ [Next]_vars => [LRU!Next]_<<Entries(cache), uri, State>>
<1> SUFFICES ASSUME IInv, [Next]_vars
             PROVE  \/ LRU!Next
                    \/ /\ Entries(cache)' = Entries(cache) /\ uri' = uri
                       /\ State' = State
  OBVIOUS
<1>1. TypeOK /\ UriInv
  BY DEF IInv
<1>2. PICK s : Holds(cache, s)
  BY DEF IInv
<1>3. Entries(cache) = Contents(cache, s)
  BY <1>2, EntriesAre DEF Holds
<1>4. \A r : Holds(cache', r) => Entries(cache') = Contents(cache', r)
  BY EntriesAre DEF Holds
<1>5. ASSUME cache' = cache
      PROVE  Entries(cache)' = Entries(cache)
  BY <1>5
<1>6. /\ pc \in [Threads -> Points]
      /\ \A t \in Threads :
           State[t] = IF pc[t] = "idle" THEN "idle"
                      ELSE IF pc[t] = "upgrade" THEN "hit" ELSE "miss"
  BY <1>1 DEF TypeOK, State
<1>7. ASSUME NEW t \in Threads, NEW u \in Uris, Request(t, u)
      PROVE  LRU!Request(t, u)
  <2>1. LRU!Has(u) <=> Search(cache, u) # NULL
    BY <1>2, HasIs
  <2>2. State' = [State EXCEPT ![t] = IF LRU!Has(u) THEN "hit" ELSE "miss"]
    <3> DEFINE x == IF Search(cache, u) = NULL THEN "fetch" ELSE "upgrade"
    <3>1. Goto(t, x)
      BY <1>7 DEF Request
    <3>2. State' = [State EXCEPT ![t] = IF x = "idle" THEN "idle"
                                        ELSE IF x = "upgrade" THEN "hit"
                                        ELSE "miss"]
      <4> HIDE DEF x
      <4> QED
        BY <1>1, <3>1, StateIs
    <3> QED
      BY <2>1, <3>2
  <2>3. State[t] = "idle"
    BY <1>6, <1>7 DEF Request
  <2>4. Entries(cache)' = Entries(cache)
    BY <1>5, <1>7 DEF Request
  <2>5. uri' = [uri EXCEPT ![t] = u]
    BY <1>7 DEF Request
  <2> QED
    BY <2>2, <2>3, <2>4, <2>5 DEF LRU!Request
<1>8. ASSUME NEW t \in Threads, Upgrade(t), Search(cache, uri[t]) # NULL
      PROVE  LRU!Use(t)
  <2>1. /\ cache' = ToFront(cache, Search(cache, uri[t]))
        /\ uri' = [uri EXCEPT ![t] = NoUri] /\ Goto(t, "idle")
    BY <1>8 DEF Upgrade
  <2>2. PICK r : \E i \in 1 .. Len(s) :
           /\ FirstAt(cache, s, i, uri[t])
           /\ Holds(cache', r)
           /\ Contents(cache', r) = <<Contents(cache, s)[i]>>
                                      \o RemoveAt(Contents(cache, s), i)
    BY <1>2, <1>8, <2>1, HitStep
  <2>3. PICK i \in 1 .. Len(s) :
           /\ FirstAt(cache, s, i, uri[t])
           /\ Holds(cache', r)
           /\ Contents(cache', r) = <<Contents(cache, s)[i]>>
                                      \o RemoveAt(Contents(cache, s), i)
    BY <2>2
  <2>4. Entries(cache') = <<Entries(cache)[i]>> \o RemoveAt(Entries(cache), i)
    BY <1>3, <1>4, <2>3
  <2>5. i \in DOMAIN Entries(cache)
    BY <1>3 DEF Contents
  <2>6. LRU!FoundAt(i, uri[t])
    <3>1. i \in Nat /\ i <= Len(s) /\ Len(s) \in Nat
      BY <1>2 DEF Holds, Strung
    <3>2. \A j \in 1 .. (i - 1) : j \in 1 .. Len(s)
      BY <3>1
    <3> QED
      BY <1>3, <2>3, <3>2 DEF LRU!FoundAt, FirstAt, Contents
  <2>7. State[t] = "hit"
    BY <1>6, <1>8 DEF Upgrade
  <2>8. State' = [State EXCEPT ![t] = "idle"]
    BY <1>1, <2>1, StateIs
  <2>9. LRU!Done(t)
    BY <2>1, <2>8 DEF LRU!Done
  <2>10. Entries(cache)' = <<Entries(cache)[i]>> \o RemoveAt(Entries(cache), i)
    BY <2>4
  <2> QED
    BY <2>5, <2>6, <2>7, <2>9, <2>10 DEF LRU!Use, LRU!RemoveAt, RemoveAt
<1>9. ASSUME NEW t \in Threads, Upgrade(t), Search(cache, uri[t]) = NULL
      PROVE  LRU!Gone(t)
  <2>1. Goto(t, "fetch") /\ cache' = cache /\ uri' = uri
    BY <1>9 DEF Upgrade
  <2>2. State' = [State EXCEPT ![t] = "miss"]
    BY <1>1, <2>1, StateIs
  <2>3. State[t] = "hit"
    BY <1>6, <1>9 DEF Upgrade
  <2>4. ~LRU!Has(uri[t])
    BY <1>2, <1>9, HasIs
  <2> QED
    BY <1>5, <2>1, <2>2, <2>3, <2>4 DEF LRU!Gone
<1>10. ASSUME NEW t \in Threads, Insert(t)
       PROVE  total[t] \in Cacheable /\ LRU!Insert(t, total[t])
  <2> DEFINE o == [uri |-> uri[t], size |-> total[t]]
  <2>1. uri[t] \in Uris /\ total[t] \in Cacheable
    BY <1>1, <1>10 DEF Insert, TypeOK, UriInv
  <2>2. /\ Unused(EvictFor(cache, total[t])) # {}
        /\ cache' = cache_insert(cache, uri[t], total[t])
        /\ uri' = [uri EXCEPT ![t] = NoUri] /\ Goto(t, "idle")
    BY <1>10 DEF Insert
  <2>3. PICK r : /\ Holds(cache', r)
                 /\ Contents(cache', r)
                      = <<o>> \o LRU!Keep(Contents(cache, s), total[t])
    <3> DEFINE d == cache_insert(cache, uri[t], total[t])
    <3>1. \E r : /\ Holds(d, r)
                 /\ Contents(d, r)
                      = <<o>> \o LRU!Keep(Contents(cache, s), total[t])
      BY <1>2, <2>1, <2>2, InsertHolds
    <3>2. cache' = d
      BY <2>2
    <3> HIDE DEF d, o
    <3> QED
      BY <3>1, <3>2
  <2>4. Entries(cache)' = <<o>> \o LRU!Keep(Entries(cache), total[t])
    <3>1. Entries(cache') = <<o>> \o LRU!Keep(Entries(cache), total[t])
      <4> HIDE DEF o
      <4> QED
        BY <1>3, <1>4, <2>3
    <3> QED
      BY <3>1
  <2>5. State' = [State EXCEPT ![t] = "idle"]
    BY <1>1, <2>2, StateIs
  <2>6. State[t] = "miss"
    BY <1>6, <1>10 DEF Insert
  <2> QED
    BY <2>1, <2>2, <2>4, <2>5, <2>6 DEF LRU!Insert, LRU!Done
<1>11. ASSUME NEW t \in Threads, pc[t] = "fetch", cache' = cache,
              uri' = [uri EXCEPT ![t] = NoUri], Goto(t, "idle")
       PROVE  LRU!Abandon(t)
  <2>1. State' = [State EXCEPT ![t] = "idle"]
    BY <1>1, <1>11, StateIs
  <2>2. State[t] = "miss"
    BY <1>6, <1>11
  <2> QED
    BY <1>5, <1>11, <2>1, <2>2 DEF LRU!Abandon, LRU!Done
<1>12. ASSUME NEW t \in Threads, pc[t] = "fetch", cache' = cache, uri' = uri,
              Goto(t, "insert")
       PROVE  /\ Entries(cache)' = Entries(cache) /\ uri' = uri
              /\ State' = State
  <2>1. State' = [State EXCEPT ![t] = "miss"]
    BY <1>1, <1>12, StateIs
  <2>2. State[t] = "miss" /\ State = [u \in Threads |-> State[u]]
    BY <1>6, <1>12 DEF State
  <2>3. State' = State
    BY <2>1, <2>2
  <2> QED
    BY <1>5, <1>12, <2>3
<1>13. ASSUME UNCHANGED vars
       PROVE  /\ Entries(cache)' = Entries(cache) /\ uri' = uri
              /\ State' = State
  BY <1>5, <1>13 DEF vars, State
<1>14. ASSUME NEW t \in Threads, NEW n \in Sizes, Fetch(t, n)
       PROVE  \/ LRU!Abandon(t)
              \/ /\ Entries(cache)' = Entries(cache) /\ uri' = uri
                 /\ State' = State
  BY <1>11, <1>12, <1>14 DEF Fetch
<1>15. ASSUME NEW t \in Threads, Refuse(t)
       PROVE  LRU!Abandon(t)
  BY <1>11, <1>15 DEF Refuse
<1> QED
  BY <1>7, <1>8, <1>9, <1>10, <1>13, <1>14, <1>15 DEF Next, LRU!Next

(* Connections that look up, fetch and insert in any order are clients of  *)
(* one cache: a hit that is still there under the write lock makes its     *)
(* object the most recent one, and an insertion evicts the least recently  *)
(* used ones, only as many as it must.                                     *)
THEOREM ImplementsLRUCache ==
  Spec => ImplementsLRU
<1> QED
  BY InitMapped, NextMapped, Invariance, PTL
     DEF Spec, ImplementsLRU, LRU!Spec, LRU!vars

-----------------------------------------------------------------------------
(* The heap of mm.c.                                                       *)

-----------------------------------------------------------------------------
(* States of the allocator, also those in the middle of a call.            *)
Heaps == [mem : [Addr -> Int], brk : 0 .. MaxHeap, free_listp : Addr,
          ret : Int]

(* What is written into the header and the footer of the block at b, when  *)
(* the blocks U are allocated and sz are the sizes.                        *)
Word(sz, U, b) == sz[b] + (IF b \in U THEN 1 ELSE 0)

(* What the memory says of the block at b: tags that agree, and a          *)
(* neighbour on the right.                                                 *)
BlockOK(h, B, sz, U, b) ==
  /\ b % 2 = 0 /\ b >= 4
  /\ sz[b] % 2 = 0 /\ sz[b] >= 4
  /\ b + sz[b] \in B \cup {h.brk} /\ b + sz[b] <= h.brk
  /\ h.mem[b - 1] = Word(sz, U, b)
  /\ h.mem[b + sz[b] - 2] = Word(sz, U, b)

(* What lies on the left of b: the prologue, or a block.                   *)
LeftOK(B, sz, b) == b = 4 \/ \E c \in B : c + sz[c] = b

(* Between the prologue and the epilogue lie the blocks B, of which U are  *)
(* allocated, one behind the other.                                        *)
Shape(h, B, sz, U) ==
  /\ h \in Heaps
  /\ h.brk % 2 = 0 /\ h.brk >= 4
  /\ h.mem[1] = 3 /\ h.mem[2] = 3 /\ h.mem[h.brk - 1] = 1
  /\ B \subseteq Addr /\ U \subseteq B /\ sz \in [B -> Nat]
  /\ 4 \in B \cup {h.brk}
  /\ \A b \in B : BlockOK(h, B, sz, U, b)
  /\ \A b \in B \cup {h.brk} : LeftOK(B, sz, b)
  /\ \A b, c \in B : b < c => b + sz[b] <= c

(* Blocks are not near each other.                                         *)
LEMMA ShapeFacts ==
  ASSUME NEW h, NEW B, NEW sz, NEW U, Shape(h, B, sz, U), NEW b \in B
  PROVE  /\ b \in Nat /\ b % 2 = 0 /\ b >= 4 /\ b # NoBlock
         /\ sz[b] \in Nat /\ sz[b] % 2 = 0 /\ sz[b] >= 4
         /\ b + sz[b] \in B \cup {h.brk} /\ b + sz[b] <= h.brk
         /\ b < h.brk /\ h.brk <= MaxHeap /\ h.brk \in Nat
         /\ b - 1 \in Addr /\ b \in Addr /\ b + 1 \in Addr
         /\ b + sz[b] - 2 \in Addr
         /\ h.mem[b - 1] = Word(sz, U, b)
         /\ h.mem[b + sz[b] - 2] = Word(sz, U, b)
         /\ \A c \in B : /\ c \in Nat /\ sz[c] \in Nat /\ sz[c] >= 4
                         /\ c < b => c + sz[c] <= b
                         /\ b < c => b + sz[b] <= c
<1>1. /\ b \in Addr /\ sz \in [B -> Nat] /\ h.brk \in 0 .. MaxHeap
      /\ MaxHeap \in Nat
  BY MallocAssumption DEF Shape, Heaps
<1>2. BlockOK(h, B, sz, U, b)
  BY DEF Shape
<1>3. \A c \in B : c \in Nat /\ sz[c] \in Nat /\ sz[c] >= 4
  BY <1>1 DEF Shape, Addr, BlockOK
<1>4. \A c \in B : /\ c < b => c + sz[c] <= b
                   /\ b < c => b + sz[b] <= c
  BY DEF Shape
<1>5. /\ b % 2 = 0 /\ b >= 4 /\ sz[b] % 2 = 0 /\ sz[b] >= 4
      /\ b + sz[b] \in B \cup {h.brk} /\ b + sz[b] <= h.brk
      /\ h.mem[b - 1] = Word(sz, U, b)
      /\ h.mem[b + sz[b] - 2] = Word(sz, U, b)
  BY <1>2 DEF BlockOK
<1>6. b \in Nat /\ sz[b] \in Nat
  BY <1>1, <1>3
<1>7. /\ b - 1 \in Addr /\ b + 1 \in Addr /\ b + sz[b] - 2 \in Addr
      /\ b < h.brk /\ h.brk <= MaxHeap /\ h.brk \in Nat
  BY <1>1, <1>5, <1>6 DEF Addr
<1> QED
  BY <1>1, <1>3, <1>4, <1>5, <1>6, <1>7 DEF NoBlock

(* A size with its bit reads back as both.                                 *)
LEMMA Tagged ==
  ASSUME NEW n \in Nat, n % 2 = 0, NEW a \in {0, 1}
  PROVE  (n + a) - ((n + a) % 2) = n /\ (n + a) % 2 = a
<1>1. (n + a) % 2 = a
  OBVIOUS
<1> QED
  BY <1>1

(* The macros read a block as it is ...                                    *)
LEMMA BlockReads ==
  ASSUME NEW h, NEW B, NEW sz, NEW U, Shape(h, B, sz, U), NEW b \in B
  PROVE  /\ GET_SIZE(h, HDRP(b)) = sz[b]
         /\ FTRP(h, b) = b + sz[b] - 2
         /\ NEXT_BLKP(h, b) = b + sz[b]
         /\ GET_ALLOC(h, HDRP(b)) = IF b \in U THEN 1 ELSE 0
         /\ GET_ALLOC(h, FTRP(h, b)) = IF b \in U THEN 1 ELSE 0
<1> DEFINE a == IF b \in U THEN 1 ELSE 0
<1>1. sz[b] \in Nat /\ sz[b] % 2 = 0 /\ a \in {0, 1}
  BY ShapeFacts
<1>2. h.mem[b - 1] = sz[b] + a /\ h.mem[b + sz[b] - 2] = sz[b] + a
  BY ShapeFacts DEF Word
<1> HIDE DEF a
<1>3. (sz[b] + a) - ((sz[b] + a) % 2) = sz[b] /\ (sz[b] + a) % 2 = a
  BY <1>1, Tagged
<1>4. GET_SIZE(h, HDRP(b)) = sz[b]
  BY <1>2, <1>3 DEF GET_SIZE, HDRP
<1>5. FTRP(h, b) = b + sz[b] - 2 /\ NEXT_BLKP(h, b) = b + sz[b]
  BY <1>4 DEF FTRP, NEXT_BLKP
<1>6. GET_ALLOC(h, HDRP(b)) = a /\ GET_ALLOC(h, FTRP(h, b)) = a
  BY <1>2, <1>3, <1>5 DEF GET_ALLOC, HDRP
<1> QED
  BY <1>4, <1>5, <1>6 DEF a

(* ... what is on its right ...                                            *)
LEMMA RightReads ==
  ASSUME NEW h, NEW B, NEW sz, NEW U, Shape(h, B, sz, U), NEW b \in B
  PROVE  LET n == NEXT_BLKP(h, b)
         IN  /\ n = b + sz[b] /\ n \in B \cup {h.brk}
             /\ GET_ALLOC(h, HDRP(n)) = 0 <=> n \in B \ U
             /\ n \in B => GET_SIZE(h, HDRP(n)) = sz[n]
             /\ n = h.brk => n \notin B /\ GET_SIZE(h, HDRP(n)) = 0
<1> DEFINE n == b + sz[b]
<1>1. NEXT_BLKP(h, b) = n /\ n \in B \cup {h.brk}
  BY BlockReads, ShapeFacts
<1>2. h.brk \notin B
  <2>1. \A c \in B : c < h.brk /\ h.brk \in Nat /\ c \in Nat
    BY ShapeFacts
  <2> QED
    BY <2>1
<1> HIDE DEF n
<1>3. CASE n \in B
  BY <1>1, <1>2, <1>3, BlockReads DEF n
<1>4. CASE n = h.brk
  <2>1. h.mem[n - 1] = 1
    BY <1>4 DEF Shape
  <2>2. 1 % 2 = 1 /\ 1 - 1 = 0
    OBVIOUS
  <2>3. GET_ALLOC(h, HDRP(n)) = 1 /\ GET_SIZE(h, HDRP(n)) = 0
    BY <2>1, <2>2 DEF GET_ALLOC, GET_SIZE, HDRP
  <2> QED
    BY <1>1, <1>2, <1>4, <2>3 DEF n
<1> QED
  BY <1>1, <1>3, <1>4

(* ... and what is on its left.                                            *)
LEMMA LeftReads ==
  ASSUME NEW h, NEW B, NEW sz, NEW U, Shape(h, B, sz, U), NEW b \in B
  PROVE  LET p == PREV_BLKP(h, b)
         IN  /\ GET_ALLOC(h, FTRP(h, p)) = 0 =>
                  /\ p \in B \ U /\ p + sz[p] = b
                  /\ GET_SIZE(h, HDRP(p)) = sz[p]
             /\ GET_ALLOC(h, FTRP(h, p)) # 0 =>
                  \A c \in B : c + sz[c] = b => c \in U
<1> DEFINE p == PREV_BLKP(h, b)
<1>1. \A c \in B : c \in Nat /\ sz[c] \in Nat /\ sz[c] % 2 = 0 /\ sz[c] >= 4
                   /\ c >= 4
  BY ShapeFacts
<1>2. CASE b = 4
  <2>1. h.mem[1] = 3 /\ h.mem[2] = 3
    BY DEF Shape
  <2>2. 3 % 2 = 1 /\ 3 - 1 = 2 /\ 4 - 2 = 2 /\ 2 - 1 = 1 /\ 2 + 2 - 2 = 2
    OBVIOUS
  <2>3. p = 2
    BY <1>2, <2>1, <2>2 DEF PREV_BLKP, GET_SIZE
  <2>4. GET_ALLOC(h, FTRP(h, p)) = 1
    BY <2>1, <2>2, <2>3 DEF FTRP, GET_SIZE, GET_ALLOC, HDRP
  <2>5. \A c \in B : c + sz[c] # b
    BY <1>1, <1>2
  <2> QED
    BY <2>4, <2>5
<1>3. CASE b # 4
  <2>1. PICK c \in B : c + sz[c] = b
    BY <1>3 DEF Shape, LeftOK
  <2> DEFINE a == IF c \in U THEN 1 ELSE 0
  <2>2. h.mem[b - 2] = sz[c] + a
    <3>1. h.mem[c + sz[c] - 2] = Word(sz, U, c)
      BY ShapeFacts
    <3>2. c + sz[c] - 2 = b - 2
      BY <1>1, <2>1
    <3> QED
      BY <3>1, <3>2 DEF Word
  <2>3. sz[c] \in Nat /\ sz[c] % 2 = 0 /\ a \in {0, 1} /\ c \in Nat
    BY <1>1
  <2> HIDE DEF a
  <2>4. (sz[c] + a) - ((sz[c] + a) % 2) = sz[c]
    BY <2>3, Tagged
  <2>5. p = b - sz[c]
    BY <2>2, <2>4 DEF PREV_BLKP, GET_SIZE
  <2>6. p = c
    BY <2>1, <2>3, <2>5
  <2>7. /\ GET_ALLOC(h, FTRP(h, c)) = IF c \in U THEN 1 ELSE 0
        /\ GET_SIZE(h, HDRP(c)) = sz[c]
    BY BlockReads
  <2>8. \A d \in B : d + sz[d] = b => d = c
    <3> SUFFICES ASSUME NEW d \in B, d + sz[d] = b, d # c
                 PROVE  FALSE
      OBVIOUS
    <3>1. d \in Nat /\ c \in Nat /\ sz[d] \in Nat /\ sz[c] \in Nat
          /\ sz[c] >= 4 /\ sz[d] >= 4
      BY <1>1
    <3>2. d < c => d + sz[d] <= c
      BY DEF Shape
    <3>3. c < d => c + sz[c] <= d
      BY DEF Shape
    <3> QED
      BY <2>1, <3>1, <3>2, <3>3
  <2> QED
    BY <2>1, <2>6, <2>7, <2>8
<1> QED
  BY <1>2, <1>3
-----------------------------------------------------------------------------
(* The words that may differ between h and d: those inside the blocks W.   *)
Within(h, d, sz, W) ==
  /\ d.brk = h.brk
  /\ \A a \in Addr : d.mem[a] # h.mem[a] =>
                       \E b \in W : b <= a /\ a <= b + sz[b] - 3

(* What keeps the tags keeps the blocks.                                   *)
LEMMA ShapeFrame ==
  ASSUME NEW h, NEW B, NEW sz, NEW U, Shape(h, B, sz, U),
         NEW d \in Heaps, Within(h, d, sz, B)
  PROVE  Shape(d, B, sz, U)
<1>1. \A c \in B : c \in Nat /\ sz[c] \in Nat /\ sz[c] >= 4 /\ c >= 4
                   /\ c + sz[c] <= h.brk /\ h.brk \in Nat /\ h.brk <= MaxHeap
  BY ShapeFacts
<1>2. ASSUME NEW b \in B
      PROVE  d.mem[b - 1] = h.mem[b - 1]
             /\ d.mem[b + sz[b] - 2] = h.mem[b + sz[b] - 2]
  <2>1. b - 1 \in Addr /\ b + sz[b] - 2 \in Addr
    BY ShapeFacts
  <2>2. \A c \in B : /\ c < b => c + sz[c] <= b
                     /\ b < c => b + sz[b] <= c
    BY ShapeFacts
  <2>3. ASSUME NEW c \in B
        PROVE  /\ ~ (c <= b - 1 /\ b - 1 <= c + sz[c] - 3)
               /\ ~ (c <= b + sz[b] - 2 /\ b + sz[b] - 2 <= c + sz[c] - 3)
    <3>1. c < b \/ b < c \/ c = b
      BY <1>1
    <3> QED
      BY <1>1, <2>2, <3>1
  <2> QED
    BY <2>1, <2>3 DEF Within
<1>3. ASSUME NEW b \in B
      PROVE  BlockOK(d, B, sz, U, b)
  BY <1>2 DEF Shape, BlockOK, Within
<1>4. h.brk \in 0 .. MaxHeap /\ h.brk >= 4 /\ MaxHeap \in Nat
  BY MallocAssumption DEF Shape, Heaps
<1>5. 1 \in Addr /\ 2 \in Addr /\ h.brk - 1 \in Addr
  BY <1>4 DEF Addr
<1>6. \A c \in B : ~ (c <= 1) /\ ~ (c <= 2) /\ ~ (h.brk - 1 <= c + sz[c] - 3)
  BY <1>1
<1>7. d.brk = h.brk /\ d.mem[1] = 3 /\ d.mem[2] = 3 /\ d.mem[d.brk - 1] = 1
  BY <1>5, <1>6 DEF Within, Shape
<1> QED
  BY <1>3, <1>7 DEF Shape

(* Header and footer of a block, written.                                  *)
LEMMA MarkIs ==
  ASSUME NEW h \in Heaps, NEW b \in Int, NEW size \in Int,
         b - 1 \in Addr, b + size - 2 \in Addr, NEW a \in {0, 1}
  PROVE  LET d == Mark(h, b, size, a)
         IN  /\ d \in Heaps /\ d.brk = h.brk /\ d.free_listp = h.free_listp
             /\ d.ret = h.ret
             /\ \A x \in Addr : d.mem[x] = IF x = b - 1 \/ x = b + size - 2
                                           THEN size + a ELSE h.mem[x]
<1> DEFINE v == size + a
           d == [h EXCEPT !.mem[b - 1] = v, !.mem[b + size - 2] = v]
<1>1. Mark(h, b, size, a) = d
  BY DEF Mark, PACK
<1>2. v \in Int
  OBVIOUS
<1> HIDE DEF v
<1>3. /\ d.mem = [h.mem EXCEPT ![b - 1] = v, ![b + size - 2] = v]
      /\ d.brk = h.brk /\ d.free_listp = h.free_listp /\ d.ret = h.ret
  BY DEF Heaps
<1>4. h.mem \in [Addr -> Int]
  BY DEF Heaps
<1>5. [h.mem EXCEPT ![b - 1] = v, ![b + size - 2] = v] \in [Addr -> Int]
  BY <1>2, <1>4
<1>6. d \in Heaps
  BY <1>5 DEF Heaps
<1> HIDE DEF d
<1>7. \A x \in Addr : d.mem[x] = IF x = b - 1 \/ x = b + size - 2
                                THEN v ELSE h.mem[x]
  BY <1>3, <1>4
<1> QED
  BY <1>1, <1>3, <1>6, <1>7 DEF v

(* The blocks from b up to e become one, or the one block there is gets    *)
(* another bit.                                                            *)
Outside(B, b, e) == {c \in B : c <= b \/ c >= e}
Joined(B, sz, b, e) ==
  [c \in Outside(B, b, e) |-> IF c = b THEN e - b ELSE sz[c]]

(* A run of blocks from b to e, and where its tags lie.                    *)
LEMMA RunFacts ==
  ASSUME NEW h, NEW B, NEW sz, NEW U, Shape(h, B, sz, U), NEW b \in B,
         NEW e \in B \cup {h.brk}, e > b
  PROVE  /\ e \in Nat /\ e % 2 = 0 /\ e <= h.brk /\ b + sz[b] <= e
         /\ (e - b) \in Nat /\ (e - b) % 2 = 0 /\ e - b >= 4
         /\ b - 1 \in Addr /\ e - 2 \in Addr /\ b \in Outside(B, b, e)
         /\ \A c \in B : c < e => c + sz[c] <= e
<1>1. /\ b \in Nat /\ b % 2 = 0 /\ b >= 4 /\ b # NoBlock /\ b - 1 \in Addr
      /\ sz[b] \in Nat /\ sz[b] >= 4 /\ b + sz[b] <= h.brk
      /\ h.brk \in Nat /\ h.brk <= MaxHeap
  BY ShapeFacts
<1>2. e \in Nat /\ e % 2 = 0 /\ e <= h.brk
  <2>1. CASE e \in B
    BY <2>1, ShapeFacts
  <2>2. CASE e = h.brk
    BY <1>1, <2>2 DEF Shape
  <2> QED
    BY <2>1, <2>2
<1>3. \A c \in B : c < e => c + sz[c] <= e
  <2>1. CASE e \in B
    BY <2>1 DEF Shape
  <2>2. CASE e = h.brk
    BY <2>2, ShapeFacts
  <2> QED
    BY <2>1, <2>2
<1>4. b + sz[b] <= e
  BY <1>3
<1>5. (e - b) % 2 = 0
  BY <1>1, <1>2
<1>6. e - 2 \in Addr
  BY <1>1, <1>2, <1>4, MallocAssumption DEF Addr
<1>7. (e - b) \in Nat /\ e - b >= 4
  BY <1>1, <1>2, <1>4
<1> QED
  BY <1>1, <1>2, <1>3, <1>4, <1>5, <1>6, <1>7 DEF Outside

(* Tagging the run as one block makes it one block.                        *)
LEMMA RunShape ==
  ASSUME NEW h, NEW B, NEW sz, NEW U, Shape(h, B, sz, U), NEW b \in B,
         NEW e \in B \cup {h.brk}, e > b, NEW a \in {0, 1},
         NEW V, V = {c \in Outside(B, b, e) : IF c = b THEN a = 1
                                              ELSE c \in U}
  PROVE  Shape(Mark(h, b, e - b, a), Outside(B, b, e), Joined(B, sz, b, e), V)
<1> DEFINE d == Mark(h, b, e - b, a)
           C == Outside(B, b, e)
           n == Joined(B, sz, b, e)
<1>1. /\ e \in Nat /\ e % 2 = 0 /\ e <= h.brk /\ b + sz[b] <= e
      /\ (e - b) \in Nat /\ (e - b) % 2 = 0 /\ e - b >= 4
      /\ b - 1 \in Addr /\ e - 2 \in Addr /\ b \in C
      /\ \A c \in B : c < e => c + sz[c] <= e
  BY RunFacts
<1>2. \A c \in B : /\ c \in Nat /\ c % 2 = 0 /\ c >= 4
                   /\ sz[c] \in Nat /\ sz[c] % 2 = 0 /\ sz[c] >= 4
                   /\ c + sz[c] <= h.brk /\ c < h.brk
                   /\ c + sz[c] \in B \cup {h.brk}
                   /\ c - 1 \in Addr /\ c + sz[c] - 2 \in Addr
                   /\ h.mem[c - 1] = Word(sz, U, c)
                   /\ h.mem[c + sz[c] - 2] = Word(sz, U, c)
  BY ShapeFacts
<1>3. \A c \in B : /\ c < b => c + sz[c] <= b
                   /\ b < c => b + sz[b] <= c
  BY ShapeFacts
<1>4. h \in Heaps /\ h.brk \in Nat /\ h.brk <= MaxHeap
      /\ h.brk % 2 = 0 /\ h.brk >= 4
  BY MallocAssumption DEF Shape, Heaps
<1>5. b + (e - b) - 2 = e - 2
  BY <1>1, <1>2
<1>6. /\ d \in Heaps /\ d.brk = h.brk
      /\ \A x \in Addr : d.mem[x] = IF x = b - 1 \/ x = e - 2
                                    THEN (e - b) + a ELSE h.mem[x]
  BY <1>1, <1>2, <1>4, <1>5, MarkIs
<1> HIDE DEF d
<1>7. C \subseteq B /\ \A c \in C : c <= b \/ c >= e
  BY DEF Outside
<1>8. n \in [C -> Nat] /\ n[b] = e - b /\ \A c \in C : c # b => n[c] = sz[c]
  BY <1>1, <1>2, <1>7 DEF Joined
<1>9. V \subseteq C
  OBVIOUS
<1> HIDE DEF C, n
<1>10. ASSUME NEW c \in C
       PROVE  BlockOK(d, C, n, V, c)
  <2>1. CASE c = b
    <3>1. Word(n, V, b) = (e - b) + a
      <4>1. b \in V <=> a = 1
        BY <1>1 DEF C
      <4> QED
        BY <1>8, <4>1 DEF Word
    <3>2. e \in C \cup {d.brk}
      BY <1>1, <1>6 DEF C, Outside
    <3>3. b + n[b] = e
      BY <1>1, <1>2, <1>8
    <3>4. d.mem[b - 1] = (e - b) + a /\ d.mem[e - 2] = (e - b) + a
      BY <1>1, <1>6
    <3> QED
      BY <1>1, <1>2, <1>6, <1>8, <2>1, <3>1, <3>2, <3>3, <3>4 DEF BlockOK
  <2>2. CASE c # b
    <3>1. c \in B /\ (c < b \/ c >= e) /\ n[c] = sz[c]
      BY <1>1, <1>2, <1>7, <1>8, <2>2
    <3>2. c - 1 # b - 1 /\ c - 1 # e - 2
          /\ c + sz[c] - 2 # b - 1 /\ c + sz[c] - 2 # e - 2
      BY <1>1, <1>2, <1>3, <3>1
    <3>3. d.mem[c - 1] = h.mem[c - 1]
          /\ d.mem[c + sz[c] - 2] = h.mem[c + sz[c] - 2]
      BY <1>2, <1>6, <3>1, <3>2
    <3>4. c \in V <=> c \in U
      BY <2>2 DEF C
    <3>5. Word(n, V, c) = Word(sz, U, c)
      BY <3>1, <3>4 DEF Word
    <3>6. c + sz[c] \in C \cup {d.brk}
      <4>1. c + sz[c] <= b \/ c + sz[c] >= e
        BY <1>1, <1>2, <1>3, <3>1
      <4> QED
        BY <1>2, <1>6, <3>1, <4>1 DEF C, Outside
    <3> QED
      BY <1>2, <1>6, <3>1, <3>3, <3>5, <3>6 DEF BlockOK
  <2> QED
    BY <2>1, <2>2
<1>11. ASSUME NEW c \in C \cup {d.brk}
       PROVE  LeftOK(C, n, c)
  <2>1. c \in B \cup {h.brk} /\ c \in Nat
    <3>1. c \in B \cup {h.brk}
      BY <1>6, <1>7
    <3>2. \A x \in B : x \in Nat
      BY <1>2
    <3> QED
      BY <1>4, <3>1, <3>2
  <2>2. c = 4 \/ \E x \in B : x + sz[x] = c
    BY <2>1 DEF Shape, LeftOK
  <2>3. ASSUME NEW x \in B, x + sz[x] = c
        PROVE  LeftOK(C, n, c)
    <3>1. c <= b \/ c >= e
      BY <1>1, <1>6, <1>7
    <3>2. CASE x \in C /\ x # b
      BY <1>8, <2>3, <3>2 DEF LeftOK
    <3>3. CASE x = b
      <4>1. c = e
        BY <1>1, <1>2, <2>3, <3>1, <3>3
      <4>2. b + n[b] = c
        BY <1>1, <1>2, <1>8, <4>1
      <4> QED
        BY <1>1, <4>2 DEF LeftOK
    <3>4. CASE x \notin C
      <4>1. b < x /\ x < e
        BY <1>1, <1>2, <3>4 DEF C, Outside
      <4>2. c = e
        BY <1>1, <1>2, <2>3, <3>1, <4>1
      <4>3. b + n[b] = c
        BY <1>1, <1>2, <1>8, <4>2
      <4> QED
        BY <1>1, <4>3 DEF LeftOK
    <3> QED
      BY <3>2, <3>3, <3>4
  <2> QED
    BY <2>2, <2>3 DEF LeftOK
<1>12. ASSUME NEW x \in C, NEW y \in C, x < y
       PROVE  x + n[x] <= y
  <2>1. x \in B /\ y \in B /\ x \in Nat /\ y \in Nat
    BY <1>2, <1>7
  <2>2. x + sz[x] <= y
    BY <1>12, <2>1 DEF Shape
  <2>3. CASE x = b
    <3>1. y >= e
      BY <1>2, <1>7, <1>12, <2>1, <2>3
    <3>2. x + n[x] = e
      BY <1>1, <1>2, <1>8, <2>3
    <3> QED
      BY <3>1, <3>2
  <2> QED
    BY <1>8, <2>2, <2>3
<1>13. d.mem[1] = 3 /\ d.mem[2] = 3 /\ d.mem[d.brk - 1] = 1
  <2>1. 1 \in Addr /\ 2 \in Addr /\ h.brk - 1 \in Addr
    BY <1>4, MallocAssumption DEF Addr
  <2>2. /\ 1 # b - 1 /\ 1 # e - 2 /\ 2 # b - 1 /\ 2 # e - 2
        /\ h.brk - 1 # b - 1 /\ h.brk - 1 # e - 2
    BY <1>1, <1>2, <1>4
  <2>3. h.mem[1] = 3 /\ h.mem[2] = 3 /\ h.mem[h.brk - 1] = 1
    BY DEF Shape
  <2> QED
    BY <1>6, <2>1, <2>2, <2>3
<1>14. 4 \in C \cup {d.brk}
  <2>1. 4 \in B \cup {h.brk}
    BY DEF Shape
  <2> QED
    BY <1>2, <1>6, <2>1 DEF C, Outside
<1>15. C \subseteq Addr
  BY <1>7 DEF Shape
<1> QED
  BY <1>4, <1>6, <1>8, <1>9, <1>10, <1>11, <1>12, <1>13, <1>14, <1>15
     DEF Shape, d, C, n

(* The block at b in two, the first s words allocated.                     *)
Parted(B, sz, b, s) ==
  [c \in B \cup {b + s} |-> IF c = b THEN s
                            ELSE IF c = b + s THEN sz[b] - s ELSE sz[c]]

(* Tagging a block as two makes it two, the first of them allocated.       *)
LEMMA SplitShape ==
  ASSUME NEW h, NEW B, NEW sz, NEW U, Shape(h, B, sz, U), NEW b \in B,
         NEW s \in Nat, s % 2 = 0, s >= 4, sz[b] - s >= 4,
         NEW d \in Heaps, d.brk = h.brk,
         \A x \in Addr : d.mem[x] =
            IF x = b + s - 1 \/ x = b + sz[b] - 2 THEN sz[b] - s
            ELSE IF x = b - 1 \/ x = b + s - 2 THEN s + 1
            ELSE h.mem[x],
         b + s \notin U
  PROVE  /\ Shape(d, B \cup {b + s}, Parted(B, sz, b, s), U \cup {b})
         /\ b + s \notin B
<1> DEFINE rest == b + s
           C == B \cup {rest}
           n == Parted(B, sz, b, s)
           V == U \cup {b}
<1>1. \A c \in B : /\ c \in Nat /\ c % 2 = 0 /\ c >= 4
                   /\ sz[c] \in Nat /\ sz[c] % 2 = 0 /\ sz[c] >= 4
                   /\ c + sz[c] <= h.brk /\ c < h.brk
                   /\ c + sz[c] \in B \cup {h.brk}
                   /\ c - 1 \in Addr /\ c + sz[c] - 2 \in Addr
                   /\ h.mem[c - 1] = Word(sz, U, c)
                   /\ h.mem[c + sz[c] - 2] = Word(sz, U, c)
  BY ShapeFacts
<1>2. \A c \in B : /\ c < b => c + sz[c] <= b
                   /\ b < c => b + sz[b] <= c
  BY ShapeFacts
<1>3. h \in Heaps /\ h.brk \in Nat /\ h.brk <= MaxHeap
      /\ h.brk % 2 = 0 /\ h.brk >= 4
  BY MallocAssumption DEF Shape, Heaps
<1>4. /\ rest \in Nat /\ rest % 2 = 0 /\ rest >= 8
      /\ b + sz[b] \in Nat /\ rest + 4 <= b + sz[b]
      /\ b < rest /\ b + 4 <= rest
      /\ sz[b] - s \in Nat /\ (sz[b] - s) % 2 = 0
  BY <1>1
<1>5. rest \notin B
  BY <1>1, <1>2, <1>4
<1>6. rest - 1 \in Addr /\ rest - 2 \in Addr /\ rest \in Addr
  BY <1>1, <1>3, <1>4, MallocAssumption DEF Addr
<1>7. /\ n \in [C -> Nat] /\ n[b] = s /\ n[rest] = sz[b] - s
      /\ \A c \in B : c # b => n[c] = sz[c]
  <2>1. \A c \in C : (IF c = b THEN s ELSE IF c = b + s THEN sz[b] - s
                      ELSE sz[c]) \in Nat
    BY <1>1, <1>4
  <2>2. n \in [C -> Nat]
    BY <2>1 DEF Parted
  <2>3. b # rest /\ \A c \in B : c # rest
    BY <1>4, <1>5
  <2> QED
    BY <2>2, <2>3 DEF Parted
<1>8. /\ d.mem[b - 1] = s + 1 /\ d.mem[rest - 2] = s + 1
      /\ d.mem[rest - 1] = sz[b] - s /\ d.mem[b + sz[b] - 2] = sz[b] - s
  <2>1. /\ b - 1 # rest - 1 /\ b - 1 # b + sz[b] - 2
        /\ rest - 2 # rest - 1 /\ rest - 2 # b + sz[b] - 2
        /\ rest - 2 = b + s - 2 /\ rest - 1 = b + s - 1
    BY <1>1, <1>4
  <2> QED
    BY <1>1, <1>6, <2>1
<1>9. ASSUME NEW c \in B, c # b
      PROVE  /\ d.mem[c - 1] = h.mem[c - 1]
             /\ d.mem[c + sz[c] - 2] = h.mem[c + sz[c] - 2]
             /\ c + sz[c] <= b \/ c >= b + sz[b]
  <2>1. c + sz[c] <= b \/ c >= b + sz[b]
    BY <1>1, <1>2, <1>9
  <2>2. /\ c - 1 # rest - 1 /\ c - 1 # b + sz[b] - 2
        /\ c - 1 # b - 1 /\ c - 1 # rest - 2
        /\ c + sz[c] - 2 # rest - 1 /\ c + sz[c] - 2 # b + sz[b] - 2
        /\ c + sz[c] - 2 # b - 1 /\ c + sz[c] - 2 # rest - 2
        /\ rest - 2 = b + s - 2 /\ rest - 1 = b + s - 1
    BY <1>1, <1>4, <1>9, <2>1
  <2> QED
    BY <1>1, <2>1, <2>2
<1> HIDE DEF n, rest
<1>10. ASSUME NEW c \in C
       PROVE  BlockOK(d, C, n, V, c)
  <2>1. CASE c = b
    <3>1. Word(n, V, b) = s + 1
      BY <1>7 DEF Word
    <3>2. b + n[b] = rest
      BY <1>7 DEF rest
    <3> QED
      BY <1>1, <1>3, <1>4, <1>7, <1>8, <2>1, <3>1, <3>2 DEF BlockOK
  <2>2. CASE c = rest
    <3>1. rest \notin V
      BY <1>4 DEF rest
    <3>2. Word(n, V, rest) = sz[b] - s
      BY <1>1, <1>4, <1>7, <3>1 DEF Word
    <3>3. rest + n[rest] = b + sz[b]
      BY <1>1, <1>4, <1>7 DEF rest
    <3>4. rest % 2 = 0 /\ rest >= 4
      BY <1>4
    <3>5. n[rest] % 2 = 0 /\ n[rest] >= 4
      BY <1>1, <1>4, <1>7
    <3>6. /\ rest + n[rest] \in C \cup {d.brk}
          /\ rest + n[rest] <= d.brk
      BY <1>1, <3>3
    <3>7. d.mem[rest - 1] = Word(n, V, rest)
      BY <1>8, <3>2
    <3>8. rest + n[rest] - 2 = b + sz[b] - 2
      BY <1>1, <1>4, <1>7, <3>3
    <3>9. d.mem[rest + n[rest] - 2] = Word(n, V, rest)
      BY <1>8, <3>2, <3>8
    <3> QED
      BY <2>2, <3>4, <3>5, <3>6, <3>7, <3>9 DEF BlockOK
  <2>3. CASE c \in B /\ c # b
    <3>1. n[c] = sz[c] /\ Word(n, V, c) = Word(sz, U, c)
      BY <1>7, <2>3 DEF Word
    <3> QED
      BY <1>1, <1>9, <2>3, <3>1 DEF BlockOK
  <2> QED
    BY <2>1, <2>2, <2>3
<1>11. ASSUME NEW c \in C \cup {d.brk}
       PROVE  LeftOK(C, n, c)
  <2>1. CASE c = rest
    BY <1>7, <2>1 DEF LeftOK, rest
  <2>2. CASE c # rest
    <3>1. c \in B \cup {h.brk}
      BY <2>2
    <3>2. c = 4 \/ \E x \in B : x + sz[x] = c
      BY <3>1 DEF Shape, LeftOK
    <3>3. ASSUME NEW x \in B, x + sz[x] = c
          PROVE  LeftOK(C, n, c)
      <4>1. CASE x = b
        <5>1. rest + n[rest] = c
          BY <1>1, <1>4, <1>7, <3>3, <4>1 DEF rest
        <5> QED
          BY <5>1 DEF LeftOK
      <4>2. CASE x # b
        BY <1>7, <3>3, <4>2 DEF LeftOK
      <4> QED
        BY <4>1, <4>2
    <3> QED
      BY <3>2, <3>3 DEF LeftOK
  <2> QED
    BY <2>1, <2>2
<1>12. ASSUME NEW x \in C, NEW y \in C, x < y
       PROVE  x + n[x] <= y
  <2>1. CASE x \in B /\ y \in B
    <3>1. x + sz[x] <= y
      BY <1>12, <2>1 DEF Shape
    <3> QED
      BY <1>1, <1>4, <1>7, <2>1, <3>1
  <2>2. CASE x = rest /\ y \in B
    <3>1. rest < y /\ y \in Nat /\ b \in Nat
      BY <1>1, <1>12, <2>2
    <3>2. b < y
      BY <1>4, <3>1
    <3>3. b + sz[b] <= y
      BY <1>2, <2>2, <3>2
    <3>4. rest + n[rest] = b + sz[b]
      BY <1>1, <1>4, <1>7 DEF rest
    <3> QED
      BY <2>2, <3>3, <3>4
  <2>3. CASE x \in B /\ y = rest
    <3>1. CASE x = b
      BY <1>1, <1>7, <2>3, <3>1 DEF rest
    <3>2. CASE x # b
      <4>1. x + sz[x] <= b
        BY <1>1, <1>4, <1>9, <1>12, <2>3, <3>2
      <4> QED
        BY <1>1, <1>4, <1>7, <2>3, <3>2, <4>1
    <3> QED
      BY <3>1, <3>2
  <2>4. CASE x = rest /\ y = rest
    BY <1>4, <1>12, <2>4
  <2> QED
    BY <2>1, <2>2, <2>3, <2>4
<1>13. d.mem[1] = 3 /\ d.mem[2] = 3 /\ d.mem[d.brk - 1] = 1
  <2>1. 1 \in Addr /\ 2 \in Addr /\ h.brk - 1 \in Addr
    BY <1>3, MallocAssumption DEF Addr
  <2>2. /\ \A x \in {1, 2, h.brk - 1} :
             x # rest - 1 /\ x # b + sz[b] - 2 /\ x # b - 1 /\ x # rest - 2
        /\ rest - 2 = b + s - 2 /\ rest - 1 = b + s - 1
    BY <1>1, <1>3, <1>4 DEF rest
  <2>3. h.mem[1] = 3 /\ h.mem[2] = 3 /\ h.mem[h.brk - 1] = 1
    BY DEF Shape
  <2> QED
    BY <2>1, <2>2, <2>3
<1>14. 4 \in C \cup {d.brk} /\ C \subseteq Addr /\ V \subseteq C
  BY <1>6 DEF Shape
<1> QED
  BY <1>3, <1>5, <1>7, <1>10, <1>11, <1>12, <1>13, <1>14
     DEF Shape, rest, n

(* The heap with a block more at its end, and the epilogue moved.          *)
Longer(B, sz, b, s) == [c \in B \cup {b} |-> IF c = b THEN s ELSE sz[c]]

(* Tagging what mem_sbrk() added makes it a block, the last one.           *)
LEMMA ExtendShape ==
  ASSUME NEW h, NEW B, NEW sz, NEW U, Shape(h, B, sz, U),
         NEW s \in Nat, s % 2 = 0, s >= 4,
         NEW d \in Heaps, d.brk = h.brk + s,
         \A x \in Addr : d.mem[x] =
            IF x = h.brk + s - 1 THEN 1
            ELSE IF x = h.brk - 1 \/ x = h.brk + s - 2 THEN s
            ELSE h.mem[x]
  PROVE  /\ Shape(d, B \cup {h.brk}, Longer(B, sz, h.brk, s), U)
         /\ h.brk \notin B
<1> DEFINE b == h.brk
           C == B \cup {b}
           n == Longer(B, sz, b, s)
<1>1. \A c \in B : /\ c \in Nat /\ c % 2 = 0 /\ c >= 4
                   /\ sz[c] \in Nat /\ sz[c] % 2 = 0 /\ sz[c] >= 4
                   /\ c + sz[c] <= b /\ c < b
                   /\ c + sz[c] \in B \cup {b}
                   /\ c - 1 \in Addr /\ c + sz[c] - 2 \in Addr
                   /\ h.mem[c - 1] = Word(sz, U, c)
                   /\ h.mem[c + sz[c] - 2] = Word(sz, U, c)
  BY ShapeFacts
<1>2. /\ b \in Nat /\ b + s <= MaxHeap /\ b % 2 = 0 /\ b >= 4
      /\ MaxHeap \in Nat
  BY MallocAssumption DEF Shape, Heaps
<1>3. /\ b - 1 \in Addr /\ b \in Addr /\ b + s - 2 \in Addr
      /\ b + s - 1 \in Addr /\ 1 \in Addr /\ 2 \in Addr
  BY <1>2 DEF Addr
<1>4. b \notin B
  BY <1>1, <1>2
<1>5. d.mem[b - 1] = s /\ d.mem[b + s - 2] = s /\ d.mem[b + s - 1] = 1
      /\ d.mem[1] = h.mem[1] /\ d.mem[2] = h.mem[2]
  <2>1. /\ b - 1 # b + s - 1 /\ b + s - 2 # b + s - 1
        /\ 1 # b + s - 1 /\ 1 # b - 1 /\ 1 # b + s - 2
        /\ 2 # b + s - 1 /\ 2 # b - 1 /\ 2 # b + s - 2
    BY <1>2
  <2> QED
    BY <1>3, <2>1
<1>6. /\ n \in [C -> Nat] /\ n[b] = s /\ \A c \in B : n[c] = sz[c]
  <2>1. \A c \in C : (IF c = b THEN s ELSE sz[c]) \in Nat
    BY <1>1
  <2>2. \A c \in B : c # b
    BY <1>4
  <2> QED
    BY <2>1, <2>2 DEF Longer
<1>7. ASSUME NEW c \in B
      PROVE  /\ d.mem[c - 1] = h.mem[c - 1]
             /\ d.mem[c + sz[c] - 2] = h.mem[c + sz[c] - 2]
  <2>1. /\ c - 1 # b + s - 1 /\ c - 1 # b - 1 /\ c - 1 # b + s - 2
        /\ c + sz[c] - 2 # b + s - 1 /\ c + sz[c] - 2 # b - 1
        /\ c + sz[c] - 2 # b + s - 2
    BY <1>1, <1>2
  <2> QED
    BY <1>1, <2>1
<1>8. U \subseteq B
  BY DEF Shape
<1>9. d.brk = b + s
  OBVIOUS
<1>10. /\ h.mem[1] = 3 /\ h.mem[2] = 3 /\ C \subseteq Addr
       /\ \A x \in B \cup {b} : LeftOK(B, sz, x)
       /\ \A x, y \in B : x < y => x + sz[x] <= y
       /\ 4 \in B \cup {b}
  BY <1>3 DEF Shape
<1> HIDE DEF n, b
<1>11. ASSUME NEW c \in C
       PROVE  BlockOK(d, C, n, U, c)
  <2>1. CASE c = b
    <3>1. Word(n, U, b) = s
      BY <1>4, <1>6, <1>8 DEF Word
    <3> QED
      BY <1>2, <1>5, <1>6, <1>9, <2>1, <3>1 DEF BlockOK
  <2>2. CASE c \in B
    <3>1. n[c] = sz[c] /\ Word(n, U, c) = Word(sz, U, c)
      BY <1>6, <2>2 DEF Word
    <3>2. c + sz[c] <= d.brk
      BY <1>1, <1>2, <1>9, <2>2
    <3> QED
      BY <1>1, <1>7, <2>2, <3>1, <3>2 DEF BlockOK
  <2> QED
    BY <2>1, <2>2
<1>12. ASSUME NEW c \in C \cup {d.brk}
       PROVE  LeftOK(C, n, c)
  <2>1. CASE c \in C
    BY <1>6, <1>10, <2>1 DEF LeftOK
  <2>2. CASE c = b + s
    BY <1>6, <2>2 DEF LeftOK
  <2> QED
    BY <1>9, <2>1, <2>2
<1>13. ASSUME NEW x \in C, NEW y \in C, x < y
       PROVE  x + n[x] <= y
  <2>1. CASE x \in B /\ y \in B
    BY <1>6, <1>10, <1>13, <2>1
  <2>2. CASE x \in B /\ y = b
    BY <1>1, <1>6, <2>2
  <2>3. x # b
    <3>1. y \in Nat /\ y <= b
      BY <1>1, <1>2
    <3> QED
      BY <1>2, <1>13, <3>1
  <2> QED
    BY <2>1, <2>2, <2>3
<1>14. d.brk % 2 = 0 /\ d.brk >= 4 /\ d.mem[d.brk - 1] = 1 /\ U \subseteq C
  <2>1. (b + s) % 2 = 0 /\ b + s >= 4 /\ b + s \in Nat
    BY <1>2
  <2>2. d.brk - 1 = b + s - 1
    BY <1>2, <1>9
  <2>3. d.mem[d.brk - 1] = 1
    BY <1>5, <2>2
  <2>4. d.brk % 2 = 0 /\ d.brk >= 4
    BY <1>9, <2>1
  <2> QED
    BY <1>8, <2>3, <2>4
<1>15. Shape(d, C, n, U)
  BY <1>5, <1>6, <1>10, <1>11, <1>12, <1>13, <1>14 DEF Shape
<1> QED
  BY <1>4, <1>15 DEF b, n
-----------------------------------------------------------------------------
(* The links of x, one of the listed blocks L.  r grows along the list, so *)
(* that it has no cycles.                                                  *)
LinkOK(h, L, r, x) ==
  /\ PRED(h, x) \in L \cup {NoBlock} /\ SUCC(h, x) \in L \cup {NoBlock}
  /\ PRED(h, x) = NoBlock <=> x = h.free_listp
  /\ PRED(h, x) # NoBlock => SUCC(h, PRED(h, x)) = x
  /\ SUCC(h, x) # NoBlock => /\ PRED(h, SUCC(h, x)) = x
                             /\ r[x] < r[SUCC(h, x)]

(* Two words for the links, that no other block has.                       *)
Apart(L) ==
  /\ \A x \in L : x \in Addr /\ x + 1 \in Addr /\ x # NoBlock
  /\ \A x, y \in L : x # y => x + 1 < y \/ y + 1 < x

(* free_listp is the head of a doubly linked list of the blocks L.         *)
Links(h, L, r) ==
  /\ Apart(L)
  /\ r \in [L -> Nat]
  /\ h.free_listp \in L \cup {NoBlock}
  /\ \A x \in L : LinkOK(h, L, r, x)

(* Only the links of the blocks L differ, and the head of the list.        *)
Relinked(h, d, L) ==
  /\ d \in Heaps /\ d.brk = h.brk /\ d.ret = h.ret
  /\ \A a \in Addr : d.mem[a] # h.mem[a] => \E x \in L : a = x \/ a = x + 1

(* A list whose links nobody wrote is still that list.                     *)
LEMMA LinksFrame ==
  ASSUME NEW h, NEW L, NEW r, Links(h, L, r),
         NEW d, d.free_listp = h.free_listp,
         \A x \in L : d.mem[x] = h.mem[x] /\ d.mem[x + 1] = h.mem[x + 1]
  PROVE  Links(d, L, r)
<1>1. ASSUME NEW x \in L
      PROVE  LinkOK(d, L, r, x)
  <2>1. LinkOK(h, L, r, x)
    BY DEF Links
  <2>2. \A y \in L : PRED(d, y) = PRED(h, y) /\ SUCC(d, y) = SUCC(h, y)
    BY DEF PRED, SUCC
  <2> QED
    BY <2>1, <2>2 DEF LinkOK
<1> QED
  BY <1>1 DEF Links

(* PUT() writes one word.                                                  *)
LEMMA PutIs ==
  ASSUME NEW h \in Heaps, NEW p \in Addr, NEW v \in Int
  PROVE  LET d == PUT(h, p, v)
         IN  /\ d \in Heaps /\ d.brk = h.brk /\ d.free_listp = h.free_listp
             /\ d.ret = h.ret
             /\ \A x \in Addr : d.mem[x] = IF x = p THEN v ELSE h.mem[x]
<1> DEFINE d == [h EXCEPT !.mem[p] = v]
<1>1. PUT(h, p, v) = d
  BY DEF PUT
<1>2. /\ d.mem = [h.mem EXCEPT ![p] = v]
      /\ d.brk = h.brk /\ d.free_listp = h.free_listp /\ d.ret = h.ret
  BY DEF Heaps
<1>3. h.mem \in [Addr -> Int]
  BY DEF Heaps
<1>4. [h.mem EXCEPT ![p] = v] \in [Addr -> Int]
  BY <1>3
<1>5. d \in Heaps
  BY <1>4 DEF Heaps
<1> HIDE DEF d
<1>6. \A x \in Addr : d.mem[x] = IF x = p THEN v ELSE h.mem[x]
  BY <1>2, <1>3
<1> QED
  BY <1>1, <1>2, <1>5, <1>6

(* Setting free_listp writes nothing else.                                 *)
LEMMA HeadIs ==
  ASSUME NEW h \in Heaps, NEW v \in Addr, NEW d,
         d = [h EXCEPT !.free_listp = v]
  PROVE  /\ d \in Heaps /\ d.brk = h.brk /\ d.free_listp = v
         /\ d.ret = h.ret /\ d.mem = h.mem
  BY DEF Heaps

(* Returning a value writes nothing else.                                  *)
LEMMA ReturnIs ==
  ASSUME NEW h \in Heaps, NEW v \in Int
  PROVE  LET d == Return(h, v)
         IN  /\ d \in Heaps /\ d.brk = h.brk /\ d.free_listp = h.free_listp
             /\ d.ret = v /\ d.mem = h.mem
  BY DEF Heaps, Return

(* A block is in nobody's place on the list but its own.                   *)
LEMMA LinkFacts ==
  ASSUME NEW h, NEW L, NEW r, Links(h, L, r), NEW x \in L
  PROVE  /\ x \in Addr /\ x + 1 \in Addr /\ x # NoBlock /\ x \in Nat
         /\ PRED(h, x) \in L \cup {NoBlock} /\ PRED(h, x) # x
         /\ SUCC(h, x) \in L \cup {NoBlock} /\ SUCC(h, x) # x
         /\ PRED(h, x) = NoBlock <=> x = h.free_listp
         /\ PRED(h, x) # NoBlock => SUCC(h, PRED(h, x)) = x
         /\ SUCC(h, x) # NoBlock => /\ PRED(h, SUCC(h, x)) = x
                                    /\ r[x] < r[SUCC(h, x)]
         /\ PRED(h, x) # NoBlock => PRED(h, x) # SUCC(h, x)
         /\ \A y \in L : /\ x # y + 1 /\ (x + 1 = y + 1 => x = y)
                         /\ y \in Nat /\ y + 1 # NoBlock
<1> DEFINE p == PRED(h, x)
           q == SUCC(h, x)
<1>1. LinkOK(h, L, r, x) /\ r \in [L -> Nat]
  BY DEF Links
<1>2. Apart(L)
  BY DEF Links
<1>3. /\ \A y \in L : y \in Nat /\ y \in Addr /\ y + 1 \in Addr
                      /\ y # NoBlock
  BY <1>2 DEF Apart, Addr
<1>4. q # x
  <2>1. q # NoBlock => r[x] < r[q]
    BY <1>1 DEF LinkOK
  <2>2. r[x] \in Nat
    BY <1>1
  <2> QED
    BY <1>3, <2>1, <2>2
<1>5. p # x
  <2>1. p # NoBlock => SUCC(h, p) = x
    BY <1>1 DEF LinkOK
  <2> QED
    BY <1>3, <1>4, <2>1
<1>6. p # NoBlock => p # q
  <2> SUFFICES ASSUME p # NoBlock, p = q
               PROVE  FALSE
    OBVIOUS
  <2>1. p \in L /\ SUCC(h, p) = x
    BY <1>1 DEF LinkOK
  <2>2. r[x] < r[q]
    BY <1>1 DEF LinkOK
  <2>3. LinkOK(h, L, r, p)
    BY <2>1 DEF Links
  <2>4. r[p] < r[x]
    BY <1>3, <2>1, <2>3 DEF LinkOK
  <2>5. r[x] \in Nat /\ r[p] \in Nat
    BY <1>1, <2>1
  <2> QED
    BY <2>2, <2>4, <2>5
<1>7. \A y \in L : x # y + 1 /\ (x + 1 = y + 1 => x = y) /\ y + 1 # NoBlock
  <2> SUFFICES ASSUME NEW y \in L
               PROVE  x # y + 1 /\ (x + 1 = y + 1 => x = y)
                      /\ y + 1 # NoBlock
    OBVIOUS
  <2>1. x \in Nat /\ y \in Nat
    BY <1>3
  <2>2. x # y => x + 1 < y \/ y + 1 < x
    BY <1>2 DEF Apart
  <2> QED
    BY <2>1, <2>2 DEF NoBlock
<1> QED
  BY <1>1, <1>3, <1>4, <1>5, <1>6, <1>7 DEF LinkOK

(* remove_free_block() takes a block out of the list ...                   *)
LEMMA RemoveIs ==
  ASSUME NEW h \in Heaps, NEW L, NEW r, Links(h, L, r), NEW x \in L
  PROVE  LET d == remove_free_block(h, x)
             p == PRED(h, x)
             q == SUCC(h, x)
         IN  /\ d \in Heaps /\ d.brk = h.brk /\ d.ret = h.ret
             /\ d.free_listp = IF p # NoBlock THEN h.free_listp ELSE q
             /\ \A a \in Addr :
                  d.mem[a] = IF p # NoBlock /\ a = p + 1 THEN q
                             ELSE IF q # NoBlock /\ a = q THEN p
                             ELSE h.mem[a]
<1> DEFINE p == PRED(h, x)
           q == SUCC(h, x)
           h1 == IF p # NoBlock THEN PUT(h, p + 1, q)
                 ELSE [h EXCEPT !.free_listp = q]
           d == IF SUCC(h1, x) # NoBlock
                  THEN PUT(h1, SUCC(h1, x), PRED(h1, x)) ELSE h1
<1>1. remove_free_block(h, x) = d
  BY DEF remove_free_block
<1>2. /\ x \in Addr /\ x + 1 \in Addr /\ p # x /\ q # x
      /\ p \in L \cup {NoBlock} /\ q \in L \cup {NoBlock}
      /\ \A y \in L : x # y + 1 /\ (x + 1 = y + 1 => x = y)
  BY LinkFacts
<1>3. /\ \A y \in L : y \in Addr /\ y + 1 \in Addr /\ y \in Int
      /\ NoBlock \in Addr
  BY MallocAssumption DEF Links, Apart, Addr, NoBlock
<1>4. q \in Addr /\ p \in Int /\ q \in Int /\ (p # NoBlock => p + 1 \in Addr)
  BY <1>2, <1>3 DEF NoBlock
<1> HIDE DEF p, q
<1>5. /\ h1 \in Heaps /\ h1.brk = h.brk /\ h1.ret = h.ret
      /\ h1.free_listp = IF p # NoBlock THEN h.free_listp ELSE q
      /\ \A a \in Addr : h1.mem[a] = IF p # NoBlock /\ a = p + 1 THEN q
                                     ELSE h.mem[a]
  <2>1. CASE p # NoBlock
    <3>1. h1 = PUT(h, p + 1, q)
      BY <2>1
    <3>2. p + 1 \in Addr
      BY <1>4, <2>1
    <3>3. LET e == PUT(h, p + 1, q)
          IN  /\ e \in Heaps /\ e.brk = h.brk
              /\ e.free_listp = h.free_listp /\ e.ret = h.ret
              /\ \A a \in Addr : e.mem[a] = IF a = p + 1 THEN q ELSE h.mem[a]
      <4>1. q \in Int
        BY <1>4
      <4> DEFINE at == p + 1
      <4>2. at \in Addr
        BY <3>2
      <4> HIDE DEF at
      <4>3. LET e == PUT(h, at, q)
            IN  /\ e \in Heaps /\ e.brk = h.brk
                /\ e.free_listp = h.free_listp /\ e.ret = h.ret
                /\ \A a \in Addr : e.mem[a] = IF a = at THEN q ELSE h.mem[a]
        BY <4>1, <4>2, PutIs
      <4> QED
        BY <4>3 DEF at
    <3> HIDE DEF h1
    <3> QED
      BY <2>1, <3>1, <3>3
  <2>2. CASE p = NoBlock
    <3>1. h1 = [h EXCEPT !.free_listp = q]
      BY <2>2
    <3> HIDE DEF h1
    <3> QED
      BY <1>4, <2>2, <3>1, HeadIs
  <2> QED
    BY <2>1, <2>2
<1> HIDE DEF h1
<1>6. SUCC(h1, x) = q /\ PRED(h1, x) = p
  <2>1. p # NoBlock => x # p + 1 /\ x + 1 # p + 1
    BY <1>2, <1>3
  <2>2. h.mem[x] = p /\ h.mem[x + 1] = q
    BY DEF PRED, SUCC, p, q
  <2> QED
    BY <1>2, <1>5, <2>1, <2>2 DEF PRED, SUCC
<1>7. q # NoBlock /\ p # NoBlock => q # p + 1
  <2>1. q \in L /\ p \in L => q # p + 1
    BY LinkFacts
  <2> QED
    BY <1>2, <2>1
<1>8. /\ d \in Heaps /\ d.brk = h1.brk /\ d.ret = h1.ret
      /\ d.free_listp = h1.free_listp
      /\ \A a \in Addr : d.mem[a] = IF q # NoBlock /\ a = q THEN p
                                    ELSE h1.mem[a]
  BY <1>4, <1>5, <1>6, PutIs
<1> HIDE DEF d
<1>9. \A a \in Addr :
        d.mem[a] = IF p # NoBlock /\ a = p + 1 THEN q
                   ELSE IF q # NoBlock /\ a = q THEN p
                   ELSE h.mem[a]
  BY <1>5, <1>7, <1>8
<1> QED
  BY <1>1, <1>5, <1>8, <1>9 DEF p, q

(* remove_free_block() takes its block from the list and leaves the others *)
(* on it, in their order.                                                  *)
LEMMA RemoveLinks ==
  ASSUME NEW h \in Heaps, NEW L, NEW r, Links(h, L, r), NEW x \in L
  PROVE  LET d == remove_free_block(h, x)
         IN  /\ Relinked(h, d, L \ {x})
             /\ Links(d, L \ {x}, [y \in L \ {x} |-> r[y]])
<1> DEFINE d == remove_free_block(h, x)
           p == PRED(h, x)
           q == SUCC(h, x)
           K == L \ {x}
           s == [y \in K |-> r[y]]
<1>1. /\ d \in Heaps /\ d.brk = h.brk /\ d.ret = h.ret
      /\ d.free_listp = (IF p # NoBlock THEN h.free_listp ELSE q)
      /\ \A a \in Addr :
           d.mem[a] = IF p # NoBlock /\ a = p + 1 THEN q
                      ELSE IF q # NoBlock /\ a = q THEN p
                      ELSE h.mem[a]
  BY RemoveIs
<1>2. /\ p \in K \cup {NoBlock} /\ q \in K \cup {NoBlock}
      /\ p = NoBlock <=> x = h.free_listp
      /\ p # NoBlock => SUCC(h, p) = x
      /\ q # NoBlock => PRED(h, q) = x /\ r[x] < r[q]
      /\ p # NoBlock => p # q
      /\ x # NoBlock
  BY LinkFacts
<1>3. \A y \in L :
        /\ y \in Addr /\ y + 1 \in Addr /\ y # NoBlock
        /\ PRED(h, y) \in L \cup {NoBlock}
        /\ SUCC(h, y) \in L \cup {NoBlock}
        /\ PRED(h, y) = NoBlock <=> y = h.free_listp
        /\ PRED(h, y) # NoBlock => SUCC(h, PRED(h, y)) = y
        /\ SUCC(h, y) # NoBlock => /\ PRED(h, SUCC(h, y)) = y
                                   /\ r[y] < r[SUCC(h, y)]
        /\ r[y] \in Nat
  BY LinkFacts DEF Links
<1>4. \A y, z \in L : y # z + 1 /\ (y + 1 = z + 1 => y = z)
  BY LinkFacts
<1>5. Apart(K) /\ s \in [K -> Nat]
      /\ h.free_listp \in L \cup {NoBlock}
  BY <1>3 DEF Links, Apart
<1>6. \A y \in K : s[y] = r[y]
  OBVIOUS
<1> HIDE DEF d, p, q, s
<1>7. \A y \in K : /\ PRED(d, y) = IF y = q THEN p ELSE PRED(h, y)
                   /\ SUCC(d, y) = IF y = p THEN q ELSE SUCC(h, y)
  <2> SUFFICES ASSUME NEW y \in K
               PROVE  /\ PRED(d, y) = IF y = q THEN p ELSE PRED(h, y)
                      /\ SUCC(d, y) = IF y = p THEN q ELSE SUCC(h, y)
    OBVIOUS
  <2>1. y \in Addr /\ y + 1 \in Addr /\ y # NoBlock
    BY <1>3
  <2>2. PRED(d, y) = IF y = q THEN p ELSE PRED(h, y)
    <3>1. p # NoBlock => y # p + 1
      BY <1>2, <1>4
    <3> QED
      BY <1>1, <2>1, <3>1 DEF PRED
  <2>3. SUCC(d, y) = IF y = p THEN q ELSE SUCC(h, y)
    <3>1. q # NoBlock => y + 1 # q
      BY <1>2, <1>4
    <3>2. p # NoBlock => (y + 1 = p + 1 <=> y = p)
      BY <1>2, <1>4
    <3> QED
      BY <1>1, <2>1, <3>1, <3>2 DEF SUCC
  <2> QED
    BY <2>2, <2>3
<1>8. \A y \in K : /\ y # q => PRED(h, y) # x
                   /\ y # p => SUCC(h, y) # x
  <2> SUFFICES ASSUME NEW y \in K
               PROVE  /\ y # q => PRED(h, y) # x
                      /\ y # p => SUCC(h, y) # x
    OBVIOUS
  <2>1. PRED(h, y) = x => q = y
    BY <1>2, <1>3 DEF q
  <2>2. SUCC(h, y) = x => p = y
    BY <1>2, <1>3 DEF p
  <2> QED
    BY <2>1, <2>2
<1>9. d.free_listp \in K \cup {NoBlock}
  BY <1>1, <1>2, <1>5
<1>10. p # NoBlock /\ q # NoBlock => r[p] < r[q]
  <2> SUFFICES ASSUME p # NoBlock, q # NoBlock
               PROVE  r[p] < r[q]
    OBVIOUS
  <2>1. r[p] < r[x] /\ r[x] < r[q]
    BY <1>2, <1>3
  <2>2. r[p] \in Nat /\ r[x] \in Nat /\ r[q] \in Nat
    BY <1>2, <1>3
  <2> QED
    BY <2>1, <2>2
<1>11. ASSUME NEW y \in K
       PROVE  LinkOK(d, K, s, y)
  <2>1. PRED(d, y) \in K \cup {NoBlock} /\ SUCC(d, y) \in K \cup {NoBlock}
    BY <1>2, <1>3, <1>7, <1>8
  <2>2. PRED(d, y) = NoBlock <=> y = d.free_listp
    <3>1. CASE y = q
      <4>1. PRED(h, y) = x
        BY <1>2, <1>3, <3>1
      <4>2. y # h.free_listp
        BY <1>2, <1>3, <4>1
      <4> QED
        BY <1>1, <1>7, <3>1, <4>2
    <3>2. CASE y # q
      BY <1>1, <1>2, <1>3, <1>7, <3>2
    <3> QED
      BY <3>1, <3>2
  <2>3. PRED(d, y) # NoBlock => SUCC(d, PRED(d, y)) = y
    <3>1. CASE y = q
      BY <1>2, <1>7, <3>1
    <3>2. CASE y # q
      <4> SUFFICES ASSUME PRED(h, y) # NoBlock
                   PROVE  SUCC(d, PRED(h, y)) = y
        BY <1>7, <3>2
      <4>1. PRED(h, y) \in K /\ SUCC(h, PRED(h, y)) = y
        BY <1>3, <1>8, <3>2
      <4>2. PRED(h, y) # p
        BY <1>2, <4>1
      <4> QED
        BY <1>7, <4>1, <4>2
    <3> QED
      BY <3>1, <3>2
  <2>4. SUCC(d, y) # NoBlock => PRED(d, SUCC(d, y)) = y
                                /\ s[y] < s[SUCC(d, y)]
    <3>1. CASE y = p
      BY <1>2, <1>3, <1>6, <1>7, <1>10, <3>1
    <3>2. CASE y # p
      <4> SUFFICES ASSUME SUCC(h, y) # NoBlock
                   PROVE  PRED(d, SUCC(h, y)) = y /\ s[y] < s[SUCC(h, y)]
        BY <1>7, <3>2
      <4>1. /\ SUCC(h, y) \in K /\ PRED(h, SUCC(h, y)) = y
            /\ r[y] < r[SUCC(h, y)]
        BY <1>3, <1>8, <3>2
      <4>2. SUCC(h, y) # q
        BY <1>2, <4>1
      <4> QED
        BY <1>6, <1>7, <4>1, <4>2
    <3> QED
      BY <3>1, <3>2
  <2> QED
    BY <2>1, <2>2, <2>3, <2>4 DEF LinkOK
<1>12. \A a \in Addr : d.mem[a] # h.mem[a] => \E y \in K : a = y \/ a = y + 1
  BY <1>1, <1>2
<1> QED
  BY <1>1, <1>5, <1>9, <1>11, <1>12 DEF Links, Relinked, d, s

(* ... and insert_free_block() puts one in front of it.                    *)
LEMMA InsertLinks ==
  ASSUME NEW h \in Heaps, NEW L, NEW r, Links(h, L, r),
         NEW x, x \notin L, Apart(L \cup {x})
  PROVE  LET d == insert_free_block(h, x)
         IN  /\ Relinked(h, d, L \cup {x})
             /\ \E s : Links(d, L \cup {x}, s)
<1> DEFINE d == insert_free_block(h, x)
           q == h.free_listp
           K == L \cup {x}
           s == [y \in K |-> IF y = x THEN 0 ELSE r[y] + 1]
           m1 == [h.mem EXCEPT ![x + 1] = q, ![x] = NoBlock]
           h1 == [h EXCEPT !.mem[x + 1] = q, !.mem[x] = NoBlock]
           h2 == IF q # NoBlock THEN PUT(h1, q, x) ELSE h1
           h3 == [h2 EXCEPT !.free_listp = x]
<1>1. /\ x \in Addr /\ x + 1 \in Addr /\ x # NoBlock /\ x \in Int
      /\ q \in L \cup {NoBlock} /\ x # q
  BY DEF Links, Apart, Addr
<1>2. /\ \A y \in K : /\ y \in Addr /\ y + 1 \in Addr /\ y # NoBlock
                      /\ y \in Int
      /\ \A y, z \in K : y # z + 1 /\ (y + 1 = z + 1 => y = z)
  <2>1. /\ \A y \in K : /\ y \in Addr /\ y + 1 \in Addr /\ y # NoBlock
                        /\ y \in Int
    BY DEF Apart, Addr
  <2>2. \A y, z \in K : y # z + 1 /\ (y + 1 = z + 1 => y = z)
    <3> SUFFICES ASSUME NEW y \in K, NEW z \in K
                 PROVE  y # z + 1 /\ (y + 1 = z + 1 => y = z)
      OBVIOUS
    <3>1. y \in Int /\ z \in Int
      BY <2>1
    <3>2. y # z => y + 1 < z \/ z + 1 < y
      BY DEF Apart
    <3> QED
      BY <3>1, <3>2
  <2> QED
    BY <2>1, <2>2
<1>3. q \in Addr /\ q \in Int /\ NoBlock \in Int
  BY <1>1, <1>2 DEF NoBlock, Heaps, Addr
<1>4. insert_free_block(h, x) = h3
  BY <1>1 DEF insert_free_block
<1>5. /\ h1 \in Heaps /\ h1.brk = h.brk /\ h1.ret = h.ret
      /\ h1.mem = m1 /\ h.mem \in [Addr -> Int]
  <2>1. /\ h1.brk = h.brk /\ h1.ret = h.ret /\ h1.free_listp = h.free_listp
        /\ h1.mem = m1 /\ h.mem \in [Addr -> Int]
    BY DEF Heaps
  <2>2. m1 \in [Addr -> Int]
    BY <1>3, <2>1
  <2>3. h1 \in Heaps
    BY <2>2 DEF Heaps
  <2> QED
    BY <2>1, <2>3
<1>6. \A a \in Addr : h1.mem[a] = IF a = x THEN NoBlock
                                  ELSE IF a = x + 1 THEN q ELSE h.mem[a]
  BY <1>1, <1>5
<1> HIDE DEF h1, m1
<1>7. /\ h2 \in Heaps /\ h2.brk = h.brk /\ h2.ret = h.ret
      /\ \A a \in Addr : h2.mem[a] = IF q # NoBlock /\ a = q THEN x
                                     ELSE h1.mem[a]
  <2>1. CASE q # NoBlock
    <3>1. h2 = PUT(h1, q, x)
      BY <2>1
    <3> HIDE DEF q
    <3>3. q \in Addr
      BY <1>3
    <3>4. x \in Int /\ h1 \in Heaps
      BY <1>1, <1>5
    <3>2. LET e == PUT(h1, q, x)
          IN  /\ e \in Heaps /\ e.brk = h1.brk
              /\ e.free_listp = h1.free_listp /\ e.ret = h1.ret
              /\ \A a \in Addr : e.mem[a] = IF a = q THEN x ELSE h1.mem[a]
      BY <3>3, <3>4, PutIs
    <3> HIDE DEF h2
    <3> QED
      BY <1>5, <2>1, <3>1, <3>2
  <2>2. CASE q = NoBlock
    BY <1>5, <2>2
  <2> QED
    BY <2>1, <2>2
<1> HIDE DEF h2
<1>8. /\ h3 \in Heaps /\ h3.brk = h.brk /\ h3.ret = h.ret
      /\ h3.mem = h2.mem /\ h3.free_listp = x
  BY <1>1, <1>7, HeadIs
<1> HIDE DEF h3
<1>9. /\ d \in Heaps /\ d.brk = h.brk /\ d.ret = h.ret
      /\ d.free_listp = x
      /\ \A a \in Addr : d.mem[a] = IF q # NoBlock /\ a = q THEN x
                                    ELSE IF a = x THEN NoBlock
                                    ELSE IF a = x + 1 THEN q
                                    ELSE h.mem[a]
  BY <1>4, <1>6, <1>7, <1>8
<1> HIDE DEF d
<1>10. \A y \in L :
        /\ PRED(h, y) \in L \cup {NoBlock}
        /\ SUCC(h, y) \in L \cup {NoBlock}
        /\ PRED(h, y) = NoBlock <=> y = q
        /\ PRED(h, y) # NoBlock => SUCC(h, PRED(h, y)) = y
        /\ SUCC(h, y) # NoBlock => /\ PRED(h, SUCC(h, y)) = y
                                   /\ r[y] < r[SUCC(h, y)]
        /\ r[y] \in Nat
  BY LinkFacts DEF Links
<1>11. /\ \A y \in K : s[y] \in Nat
       /\ s[x] = 0 /\ \A y \in L : s[y] = r[y] + 1
       /\ s \in [K -> Nat]
  BY <1>10
<1> HIDE DEF s, q
<1>12. \A y \in L : /\ PRED(d, y) = IF y = q THEN x ELSE PRED(h, y)
                    /\ SUCC(d, y) = SUCC(h, y)
  <2> SUFFICES ASSUME NEW y \in L
               PROVE  /\ PRED(d, y) = IF y = q THEN x ELSE PRED(h, y)
                      /\ SUCC(d, y) = SUCC(h, y)
    OBVIOUS
  <2>1. y \in Addr /\ y + 1 \in Addr /\ y # x /\ y # x + 1 /\ y # NoBlock
        /\ y + 1 # x /\ y + 1 # x + 1
    BY <1>2
  <2>2. q # NoBlock => y + 1 # q
    BY <1>1, <1>2
  <2> QED
    BY <1>9, <2>1, <2>2 DEF PRED, SUCC
<1>13. PRED(d, x) = NoBlock /\ SUCC(d, x) = q
  <2>1. q # NoBlock => x + 1 # q
    BY <1>1, <1>2
  <2>2. x + 1 # x
    BY <1>1
  <2> QED
    BY <1>1, <1>9, <2>1, <2>2 DEF PRED, SUCC
<1>14. ASSUME NEW y \in K
       PROVE  LinkOK(d, K, s, y)
  <2>1. CASE y = x
    <3>1. q # NoBlock => PRED(d, q) = x /\ s[x] < s[q]
      BY <1>1, <1>10, <1>11, <1>12
    <3> QED
      BY <1>1, <1>9, <1>13, <2>1, <3>1 DEF LinkOK
  <2>2. CASE y = q /\ y # x
    <3>1. y \in L /\ PRED(d, y) = x /\ SUCC(d, y) = SUCC(h, y)
      BY <1>12, <2>2
    <3>2. SUCC(h, y) # NoBlock => /\ SUCC(h, y) \in L
                                  /\ PRED(h, SUCC(h, y)) = y
                                  /\ r[y] < r[SUCC(h, y)]
      BY <1>10, <3>1
    <3>3. SUCC(h, y) # NoBlock => SUCC(h, y) # q
      BY <1>2, <1>10, <2>2, <3>1, <3>2
    <3>4. SUCC(h, y) # NoBlock => s[y] < s[SUCC(h, y)]
      BY <1>10, <1>11, <3>1, <3>2
    <3> QED
      BY <1>1, <1>9, <1>10, <1>12, <1>13, <2>2, <3>1, <3>2, <3>3, <3>4
         DEF LinkOK
  <2>3. CASE y # q /\ y # x
    <3>1. y \in L /\ PRED(d, y) = PRED(h, y) /\ SUCC(d, y) = SUCC(h, y)
      BY <1>12, <2>3
    <3>2. /\ PRED(h, y) \in L /\ SUCC(d, PRED(h, y)) = y
      BY <1>10, <1>12, <2>3, <3>1
    <3>3. SUCC(h, y) # NoBlock => /\ SUCC(h, y) \in L
                                  /\ PRED(h, SUCC(h, y)) = y
                                  /\ r[y] < r[SUCC(h, y)]
      BY <1>10, <3>1
    <3>4. SUCC(h, y) # NoBlock => SUCC(h, y) # q
      BY <1>2, <1>10, <3>1, <3>3
    <3>5. SUCC(h, y) # NoBlock => s[y] < s[SUCC(h, y)]
      BY <1>10, <1>11, <3>1, <3>3
    <3>6. PRED(h, y) # NoBlock
      BY <1>2, <3>2
    <3> QED
      BY <1>9, <1>10, <1>12, <2>3, <3>1, <3>2, <3>3, <3>4, <3>5, <3>6
         DEF LinkOK
  <2> QED
    BY <2>1, <2>2, <2>3
<1>15. \A a \in Addr : d.mem[a] # h.mem[a] => \E y \in K : a = y \/ a = y + 1
  BY <1>1, <1>9
<1>16. Links(d, K, s)
  BY <1>9, <1>11, <1>14 DEF Links
<1> QED
  BY <1>9, <1>15, <1>16 DEF Relinked, d

-----------------------------------------------------------------------------
(* What is allocated keeps its words, and its size or more.                *)
Keeps(h, sz, d, n, U) ==
  \A u \in U : /\ n[u] >= sz[u]
               /\ \A a \in Addr : u <= a /\ a <= u + sz[u] - 3 =>
                                    d.mem[a] = h.mem[a]

Chain(h, L) == \E r : Links(h, L, r)

(* Where two free blocks are neighbours, p is one of them.                 *)
Separate(B, sz, U, p) ==
  \A b \in B \ U : b + sz[b] \in B \ U => b = p \/ b + sz[b] = p

(* The heap between two calls.  It is never empty.                         *)
Good(h, B, sz, U) ==
  /\ Shape(h, B, sz, U) /\ B # {}
  /\ Chain(h, B \ U)
  /\ Separate(B, sz, U, NoBlock)

(* A block has room for its links.                                         *)
LEMMA BlocksApart ==
  ASSUME NEW h, NEW B, NEW sz, NEW U, Shape(h, B, sz, U),
         NEW L, L \subseteq B
  PROVE  Apart(L)
<1>1. \A x \in B : /\ x \in Addr /\ x + 1 \in Addr /\ x # NoBlock
                   /\ x \in Nat /\ sz[x] \in Nat /\ sz[x] >= 4
  BY ShapeFacts
<1>2. ASSUME NEW x \in L, NEW y \in L, x # y
      PROVE  x + 1 < y \/ y + 1 < x
  <2>1. /\ x < y => x + sz[x] <= y
        /\ y < x => y + sz[y] <= x
    BY ShapeFacts
  <2>2. x \in Nat /\ y \in Nat /\ sz[x] \in Nat /\ sz[y] \in Nat
        /\ sz[x] >= 4 /\ sz[y] >= 4
    BY <1>1
  <2> QED
    BY <1>2, <2>1, <2>2
<1> QED
  BY <1>1, <1>2 DEF Apart

(* Changes to links only are within the payloads of the free blocks.       *)
LEMMA RelinkedWithin ==
  ASSUME NEW h, NEW B, NEW sz, NEW U, Shape(h, B, sz, U),
         NEW L, L \subseteq B, NEW d, Relinked(h, d, L)
  PROVE  Within(h, d, sz, L)
<1>1. \A x \in B : x \in Nat /\ sz[x] \in Nat /\ sz[x] >= 4
  BY ShapeFacts
<1>3. d.brk = h.brk
  BY DEF Relinked
<1>2. ASSUME NEW a \in Addr, d.mem[a] # h.mem[a]
      PROVE  \E b \in L : b <= a /\ a <= b + sz[b] - 3
  <2>1. PICK x \in L : a = x \/ a = x + 1
    BY <1>2 DEF Relinked
  <2>2. x <= a /\ a <= x + sz[x] - 3
    BY <1>1, <2>1
  <2> QED
    BY <2>2
<1> QED
  BY <1>2, <1>3 DEF Within

(* No word is inside two blocks.                                           *)
LEMMA WithinKeeps ==
  ASSUME NEW h, NEW B, NEW sz, NEW U, Shape(h, B, sz, U),
         NEW V, V \subseteq B, NEW d, Within(h, d, sz, B \ V)
  PROVE  Keeps(h, sz, d, sz, V)
<1>1. \A x \in B : x \in Nat /\ sz[x] \in Nat /\ sz[x] >= 4
  BY ShapeFacts
<1>2. ASSUME NEW u \in V, NEW a \in Addr, u <= a, a <= u + sz[u] - 3
      PROVE  d.mem[a] = h.mem[a]
  <2> SUFFICES ASSUME d.mem[a] # h.mem[a]
               PROVE  FALSE
    OBVIOUS
  <2>1. PICK b \in B \ V : b <= a /\ a <= b + sz[b] - 3
    BY DEF Within
  <2>2. u \in B /\ u # b
    OBVIOUS
  <2>3. /\ u < b => u + sz[u] <= b
        /\ b < u => b + sz[b] <= u
    BY <2>2, ShapeFacts
  <2>4. a \in Nat /\ u \in Nat /\ b \in Nat /\ sz[u] \in Nat /\ sz[b] \in Nat
    BY <1>1, <2>2 DEF Addr
  <2> QED
    BY <1>2, <2>1, <2>2, <2>3, <2>4
<1>3. \A u \in V : sz[u] >= sz[u]
  BY <1>1
<1> QED
  BY <1>2, <1>3 DEF Keeps

(* What two steps keep, both together keep.                                *)
LEMMA KeepsTwice ==
  ASSUME NEW U, NEW h, NEW sz, NEW d, NEW n, NEW e, NEW m,
         Keeps(h, sz, d, n, U), Keeps(d, n, e, m, U),
         \A u \in U : /\ u \in Nat
                      /\ sz[u] \in Nat /\ n[u] \in Nat /\ m[u] \in Nat
  PROVE  Keeps(h, sz, e, m, U)
<1> SUFFICES ASSUME NEW u \in U
             PROVE  /\ m[u] >= sz[u]
                    /\ \A a \in Addr : u <= a /\ a <= u + sz[u] - 3 =>
                                         e.mem[a] = h.mem[a]
  BY DEF Keeps
<1>1. m[u] >= n[u] /\ n[u] >= sz[u] /\ m[u] \in Nat /\ n[u] \in Nat
      /\ sz[u] \in Nat /\ u \in Nat
  BY DEF Keeps
<1>2. ASSUME NEW a \in Addr, u <= a, a <= u + sz[u] - 3
      PROVE  e.mem[a] = h.mem[a]
  <2>1. a \in Nat /\ a <= u + n[u] - 3
    BY <1>1, <1>2 DEF Addr
  <2>2. d.mem[a] = h.mem[a]
    BY <1>2 DEF Keeps
  <2>3. e.mem[a] = d.mem[a]
    BY <1>2, <2>1 DEF Keeps
  <2> QED
    BY <2>2, <2>3
<1> QED
  BY <1>1, <1>2

(* Taking a block off the list, where there is one to take.                *)
LEMMA RemoveIf ==
  ASSUME NEW h, NEW B, NEW sz, NEW U, Shape(h, B, sz, U),
         NEW L, L \subseteq B \ U, Chain(h, L),
         NEW x, NEW c \in BOOLEAN, c => x \in L
  PROVE  LET d == IF c THEN remove_free_block(h, x) ELSE h
         IN  /\ Shape(d, B, sz, U)
             /\ Chain(d, IF c THEN L \ {x} ELSE L)
             /\ Within(h, d, sz, B \ U)
<1>1. CASE c
  <2> DEFINE d == remove_free_block(h, x)
  <2>1. h \in Heaps /\ x \in L
    BY <1>1 DEF Shape
  <2>2. PICK r : Links(h, L, r)
    BY DEF Chain
  <2>3. /\ Relinked(h, d, L \ {x})
        /\ Links(d, L \ {x}, [y \in L \ {x} |-> r[y]])
    BY <2>1, <2>2, RemoveLinks
  <2> HIDE DEF d
  <2>4. Within(h, d, sz, L \ {x})
    BY <2>3, RelinkedWithin
  <2>5. Within(h, d, sz, B \ U) /\ Within(h, d, sz, B)
    BY <2>4 DEF Within
  <2>6. d \in Heaps
    BY <2>3 DEF Relinked
  <2>7. Shape(d, B, sz, U)
    BY <2>5, <2>6, ShapeFrame
  <2> QED
    BY <1>1, <2>3, <2>5, <2>6, <2>7 DEF Chain, d
<1>2. CASE ~ c
  BY <1>2 DEF Within
<1> QED
  BY <1>1, <1>2

(* Putting a free block on the list.                                       *)
LEMMA InsertFree ==
  ASSUME NEW h, NEW B, NEW sz, NEW U, Shape(h, B, sz, U),
         NEW L, L \subseteq B \ U, Chain(h, L),
         NEW x \in B \ U, x \notin L
  PROVE  LET d == insert_free_block(h, x)
         IN  /\ Shape(d, B, sz, U)
             /\ Chain(d, L \cup {x})
             /\ Within(h, d, sz, B \ U)
<1> DEFINE d == insert_free_block(h, x)
<1>1. h \in Heaps
  BY DEF Shape
<1>2. PICK r : Links(h, L, r)
  BY DEF Chain
<1>3. L \cup {x} \subseteq B
  OBVIOUS
<1>4. Apart(L \cup {x})
  BY <1>3, BlocksApart
<1>5. Relinked(h, d, L \cup {x}) /\ \E s : Links(d, L \cup {x}, s)
  BY <1>1, <1>2, <1>4, InsertLinks
<1> HIDE DEF d
<1>6. Within(h, d, sz, L \cup {x})
  BY <1>3, <1>5, RelinkedWithin
<1>7. Within(h, d, sz, B \ U) /\ Within(h, d, sz, B)
  BY <1>6 DEF Within
<1>8. d \in Heaps
  BY <1>5 DEF Relinked
<1>9. Shape(d, B, sz, U)
  BY <1>7, <1>8, ShapeFrame
<1> QED
  BY <1>5, <1>7, <1>8, <1>9 DEF Chain, d

(* Free blocks from b up to e, none of them on the list, become one that   *)
(* is.                                                                     *)
LEMMA JoinFree ==
  ASSUME NEW h, NEW B, NEW sz, NEW U, Shape(h, B, sz, U), NEW b \in B,
         NEW e \in B \cup {h.brk}, e > b,
         \A c \in B : b <= c /\ c < e => c \notin U,
         NEW L, L = {c \in B \ U : c < b \/ c >= e}, Chain(h, L)
  PROVE  LET d == insert_free_block(Mark(h, b, e - b, 0), b)
             C == Outside(B, b, e)
             n == Joined(B, sz, b, e)
         IN  /\ Shape(d, C, n, U)
             /\ Chain(d, C \ U) /\ b \in C \ U
             /\ Keeps(h, sz, d, n, U)
<1> DEFINE k == Mark(h, b, e - b, 0)
           d == insert_free_block(k, b)
           C == Outside(B, b, e)
           n == Joined(B, sz, b, e)
<1>1. /\ e \in Nat /\ b + sz[b] <= e /\ (e - b) \in Nat /\ e - b >= 4
      /\ b - 1 \in Addr /\ e - 2 \in Addr /\ b \in C
  BY RunFacts
<1>2. \A c \in B : c \in Nat /\ c \in Addr /\ c + 1 \in Addr
                   /\ sz[c] \in Nat /\ sz[c] >= 4
  BY ShapeFacts
<1>3. U \subseteq B /\ h \in Heaps
  BY DEF Shape
<1>4. U = {c \in Outside(B, b, e) : IF c = b THEN 0 = 1 ELSE c \in U}
  <2>1. b \notin U
    BY <1>1, <1>2
  <2>2. \A u \in U : u <= b \/ u >= e
    BY <1>1, <1>2, <1>3
  <2> QED
    BY <1>3, <2>1, <2>2 DEF Outside
<1>5. Shape(k, C, n, U)
  <2>1. 0 \in {0, 1}
    OBVIOUS
  <2> QED
    BY <1>4, <2>1, RunShape
<1>6. /\ k.brk = h.brk /\ k.free_listp = h.free_listp
      /\ \A x \in Addr : k.mem[x] = IF x = b - 1 \/ x = e - 2
                                    THEN (e - b) + 0 ELSE h.mem[x]
  <2>1. b + (e - b) - 2 = e - 2 /\ b \in Int /\ (e - b) \in Int
    BY <1>1, <1>2
  <2> QED
    BY <1>1, <1>3, <2>1, MarkIs
<1> HIDE DEF k
<1>7. \A x \in B : /\ x < b => x + sz[x] <= b
                   /\ x < e => x + sz[x] <= e
  <2>1. \A x \in B : x < b => x + sz[x] <= b
    BY ShapeFacts
  <2> QED
    BY <2>1, RunFacts
<1>8. Chain(k, L)
  <2>1. PICK r : Links(h, L, r)
    BY DEF Chain
  <2>2. ASSUME NEW x \in L
        PROVE  k.mem[x] = h.mem[x] /\ k.mem[x + 1] = h.mem[x + 1]
    <3>1. x \in Nat /\ x \in Addr /\ x + 1 \in Addr /\ b \in Nat
          /\ sz[x] \in Nat /\ sz[x] >= 4
      BY <1>2
    <3>2. x # b - 1 /\ x # e - 2 /\ x + 1 # b - 1 /\ x + 1 # e - 2
      <4>1. x < b => x + sz[x] <= b
        BY <1>7
      <4>2. x < b \/ x >= e
        OBVIOUS
      <4> QED
        BY <1>1, <3>1, <4>1, <4>2
    <3> QED
      BY <1>6, <3>1, <3>2
  <2>3. Links(k, L, r)
    BY <1>6, <2>1, <2>2, LinksFrame
  <2> QED
    BY <2>3 DEF Chain
<1>9. b \in C \ U /\ b \notin L /\ L \cup {b} = C \ U
  <2>1. b \notin U /\ ~ (b < b) /\ ~ (b >= e) /\ b \in C
    BY <1>1, <1>2
  <2>2. \A c \in B : c <= b <=> c < b \/ c = b
    BY <1>2
  <2>3. L \cup {b} \subseteq C \ U
    BY <2>1, <2>2 DEF Outside
  <2>4. C \ U \subseteq L \cup {b}
    BY <2>1, <2>2 DEF Outside
  <2> QED
    BY <2>1, <2>3, <2>4
<1>10. /\ Shape(d, C, n, U) /\ Chain(d, C \ U)
       /\ Within(k, d, n, C \ U)
  <2>1. L \cup {b} = C \ U
    BY <1>9
  <2>3. b \in C \ U
    BY <1>9
  <2>4. b \notin L
    BY <1>9
  <2>5. L \subseteq C \ U
    BY <2>1
  <2> HIDE DEF C, n
  <2>2. /\ Shape(d, C, n, U) /\ Chain(d, L \cup {b})
        /\ Within(k, d, n, C \ U)
    BY <1>5, <1>8, <2>3, <2>4, <2>5, InsertFree
  <2> QED
    BY <2>1, <2>2
<1> HIDE DEF d
<1>11. Keeps(k, n, d, n, U)
  <2>1. U \subseteq C
    BY <1>5 DEF Shape
  <2> HIDE DEF C, n
  <2> QED
    BY <1>5, <1>10, <2>1, WithinKeeps
<1>12. Keeps(h, sz, k, n, U)
  <2> SUFFICES ASSUME NEW u \in U
               PROVE  /\ n[u] >= sz[u]
                      /\ \A a \in Addr : u <= a /\ a <= u + sz[u] - 3 =>
                                           k.mem[a] = h.mem[a]
    BY DEF Keeps
  <2>1. u \in B /\ (u < b \/ u >= e) /\ u # b
    BY <1>1, <1>2, <1>3
  <2>2. n[u] = sz[u] /\ u \in Nat /\ sz[u] \in Nat /\ sz[u] >= 4 /\ b \in Nat
    BY <1>1, <1>2, <2>1 DEF Joined, Outside
  <2>3. u < b => u + sz[u] <= b
    BY <1>7, <2>1
  <2>4. ASSUME NEW a \in Addr, u <= a, a <= u + sz[u] - 3
        PROVE  k.mem[a] = h.mem[a]
    <3>1. a \in Nat
      BY DEF Addr
    <3>2. a # b - 1 /\ a # e - 2
      BY <1>1, <2>1, <2>2, <2>3, <2>4, <3>1
    <3> QED
      BY <1>6, <3>2
  <2> QED
    BY <2>2, <2>4
<1>13. \A u \in U : u \in Nat /\ sz[u] \in Nat /\ n[u] \in Nat
  <2>1. U \subseteq C /\ n \in [C -> Nat]
    BY <1>5 DEF Shape
  <2> HIDE DEF C, n
  <2> QED
    BY <1>2, <1>3, <2>1
<1> HIDE DEF n
<1>14. Keeps(h, sz, d, n, U)
  BY <1>11, <1>12, <1>13, KeepsTwice
<1> QED
  BY <1>6, <1>9, <1>10, <1>14 DEF d, k, n

(* Tags written again.                                                     *)
LEMMA MarkAgain ==
  ASSUME NEW h, NEW B, NEW sz, NEW U, Shape(h, B, sz, U), NEW b \in B \ U
  PROVE  Mark(h, b, sz[b], 0) = h
<1> DEFINE v == sz[b] + 0
           p == b - 1
           q == b + sz[b] - 2
<1>1. h.mem[p] = v /\ h.mem[q] = v /\ p \in Addr /\ q \in Addr
  BY ShapeFacts DEF Word
<1>2. Mark(h, b, sz[b], 0) = [h EXCEPT !.mem[p] = v, !.mem[q] = v]
  BY DEF Mark, PACK
<1>3. h \in Heaps
  BY DEF Shape
<1> HIDE DEF v, p, q
<1>4. [h.mem EXCEPT ![p] = v, ![q] = v] = h.mem
  BY <1>1, <1>3 DEF Heaps
<1>5. [h EXCEPT !.mem[p] = v, !.mem[q] = v]
        = [h EXCEPT !.mem = [h.mem EXCEPT ![p] = v, ![q] = v]]
  BY <1>3 DEF Heaps
<1>6. [h EXCEPT !.mem = h.mem] = h
  BY <1>3 DEF Heaps
<1> QED
  BY <1>2, <1>4, <1>5, <1>6

(* What coalesce() joins: the free blocks around b, which are all that     *)
(* lies between the first and the end of the last.                         *)
LEMMA Around ==
  ASSUME NEW h, NEW B, NEW sz, NEW U, Shape(h, B, sz, U), NEW b \in B \ U,
         Separate(B, sz, U, b)
  PROVE  LET next == NEXT_BLKP(h, b)
             prev == PREV_BLKP(h, b)
             nextFree == GET_ALLOC(h, HDRP(next)) = 0
             prevFree == GET_ALLOC(h, FTRP(h, prev)) = 0
             size == GET_SIZE(h, HDRP(b))
                     + (IF nextFree THEN GET_SIZE(h, HDRP(next)) ELSE 0)
                     + (IF prevFree THEN GET_SIZE(h, HDRP(prev)) ELSE 0)
             at == IF prevFree THEN prev ELSE b
         IN  /\ nextFree => next \in B \ U /\ next # b
             /\ prevFree => prev \in B \ U /\ prev # b /\ prev # next
             /\ at \in B \ U /\ at + size \in B \cup {h.brk}
             /\ at <= b /\ b < at + size /\ size \in Nat /\ size >= sz[b]
             /\ \A c \in B : at <= c /\ c < at + size =>
                               \/ c = b
                               \/ nextFree /\ c = next
                               \/ prevFree /\ c = prev
             /\ nextFree => at <= next /\ next < at + size
             /\ ~ nextFree /\ ~ prevFree => size = sz[b]
             /\ at + size \notin B \ U
             /\ \A c \in B : c + sz[c] = at => c \in U
<1> DEFINE next == NEXT_BLKP(h, b)
           prev == PREV_BLKP(h, b)
           nextFree == GET_ALLOC(h, HDRP(next)) = 0
           prevFree == GET_ALLOC(h, FTRP(h, prev)) = 0
           size == GET_SIZE(h, HDRP(b))
                   + (IF nextFree THEN GET_SIZE(h, HDRP(next)) ELSE 0)
                   + (IF prevFree THEN GET_SIZE(h, HDRP(prev)) ELSE 0)
           at == IF prevFree THEN prev ELSE b
           e == IF nextFree THEN next + sz[next] ELSE next
<1>1. /\ next = b + sz[b] /\ next \in B \cup {h.brk}
      /\ nextFree <=> next \in B \ U
      /\ next \in B => GET_SIZE(h, HDRP(next)) = sz[next]
  BY RightReads
<1>2. /\ prevFree => /\ prev \in B \ U /\ prev + sz[prev] = b
                     /\ GET_SIZE(h, HDRP(prev)) = sz[prev]
      /\ ~ prevFree => \A c \in B : c + sz[c] = b => c \in U
  BY LeftReads
<1>3. GET_SIZE(h, HDRP(b)) = sz[b]
  BY BlockReads
<1>4. \A c \in B : /\ c \in Nat /\ sz[c] \in Nat /\ sz[c] >= 4
                   /\ c + sz[c] \in B \cup {h.brk} /\ c < h.brk
  BY ShapeFacts
<1>5. h.brk \in Nat
  BY DEF Shape, Heaps
<1>6. \A x, y \in B : x < y => x + sz[x] <= y
  BY DEF Shape
<1>7. b \in B /\ b \in Nat /\ next \in Nat /\ b < next
  BY <1>1, <1>4
<1> HIDE DEF next, prev, nextFree, prevFree
<1>8. prevFree => prev < b /\ prev \in Nat /\ sz[prev] \in Nat /\ prev \in B
  <2> SUFFICES ASSUME prevFree
               PROVE  prev < b /\ prev \in Nat /\ sz[prev] \in Nat
                      /\ prev \in B
    OBVIOUS
  <2>1. prev \in B /\ prev + sz[prev] = b
    BY <1>2
  <2>2. prev \in Nat /\ sz[prev] \in Nat /\ sz[prev] >= 4
    BY <1>4, <2>1
  <2> QED
    BY <1>7, <2>1, <2>2
<1>9. nextFree => /\ next \in B /\ sz[next] \in Nat /\ sz[next] >= 4
                  /\ next + sz[next] \in B \cup {h.brk}
  BY <1>1, <1>4
<1>10. at + size = e /\ size \in Nat /\ size >= sz[b]
  <2>1. CASE prevFree
    <3>1. at = prev
      BY <2>1
    <3>2. GET_SIZE(h, HDRP(prev)) = sz[prev] /\ prev + sz[prev] = b
      BY <1>2, <2>1
    <3>3. CASE nextFree
      <4>1. size = sz[b] + sz[next] + sz[prev] /\ e = next + sz[next]
        BY <1>1, <1>3, <1>9, <2>1, <3>2, <3>3
      <4> QED
        BY <1>1, <1>4, <1>7, <1>8, <1>9, <2>1, <3>1, <3>2, <3>3, <4>1
    <3>4. CASE ~ nextFree
      <4>1. size = sz[b] + 0 + sz[prev] /\ e = next
        BY <1>3, <2>1, <3>2, <3>4
      <4> QED
        BY <1>1, <1>4, <1>7, <1>8, <2>1, <3>1, <3>2, <4>1
    <3> QED
      BY <3>3, <3>4
  <2>2. CASE ~ prevFree
    <3>1. at = b
      BY <2>2
    <3>3. CASE nextFree
      <4>1. size = sz[b] + sz[next] + 0 /\ e = next + sz[next]
        BY <1>1, <1>3, <1>9, <2>2, <3>3
      <4> QED
        BY <1>1, <1>4, <1>7, <1>9, <3>1, <3>3, <4>1
    <3>4. CASE ~ nextFree
      <4>1. size = sz[b] + 0 + 0 /\ e = next
        BY <1>3, <2>2, <3>4
      <4> QED
        BY <1>1, <1>4, <1>7, <3>1, <4>1
    <3> QED
      BY <3>3, <3>4
  <2> QED
    BY <2>1, <2>2
<1>11. /\ at \in B \ U /\ at <= b /\ at \in Nat
       /\ e \in B \cup {h.brk} /\ b < e /\ e \in Nat /\ next <= e
  BY <1>1, <1>2, <1>4, <1>5, <1>7, <1>8, <1>9
<1>12. ~ nextFree /\ ~ prevFree => size = sz[b]
  BY <1>3, <1>4, <1>7
<1> HIDE DEF size
<1>13. ASSUME NEW c \in B, at <= c, c < e
       PROVE  c = b \/ (nextFree /\ c = next) \/ (prevFree /\ c = prev)
  <2>1. c \in Nat /\ sz[c] \in Nat
    BY <1>4
  <2>2. CASE c < b
    <3>1. prevFree
      BY <1>7, <1>13, <2>1, <2>2
    <3>2. prev < c => prev + sz[prev] <= c
      BY <1>6, <1>8, <3>1
    <3> QED
      BY <1>2, <1>7, <1>8, <1>13, <2>1, <2>2, <3>1, <3>2
  <2>3. CASE c > b
    <3>1. b + sz[b] <= c
      BY <1>6, <1>7, <2>1, <2>3
    <3>2. nextFree
      BY <1>1, <1>7, <1>13, <2>1, <3>1
    <3>3. next < c => next + sz[next] <= c
      BY <1>6, <1>9, <3>2
    <3> QED
      BY <1>1, <1>7, <1>9, <1>13, <2>1, <3>1, <3>2, <3>3
  <2> QED
    BY <1>7, <2>1, <2>2, <2>3
<1>14. e \notin B \ U
  <2>1. CASE nextFree
    <3> SUFFICES ASSUME e \in B \ U
                 PROVE  FALSE
      OBVIOUS
    <3>1. next = b \/ next + sz[next] = b
      BY <1>1, <2>1 DEF Separate
    <3> QED
      BY <1>7, <1>9, <2>1, <3>1
  <2>2. CASE ~ nextFree
    BY <1>1, <2>2
  <2> QED
    BY <2>1, <2>2
<1>15. \A c \in B : c + sz[c] = at => c \in U
  <2>1. CASE prevFree
    <3> SUFFICES ASSUME NEW c \in B, c + sz[c] = at, c \notin U
                 PROVE  FALSE
      OBVIOUS
    <3>1. c = b \/ prev = b
      BY <1>2, <2>1 DEF Separate
    <3> QED
      BY <1>4, <1>7, <1>8, <2>1, <3>1
  <2>2. CASE ~ prevFree
    BY <1>2, <2>2
  <2> QED
    BY <2>1, <2>2
<1>16. nextFree => next # b /\ next \in B \ U /\ at <= next /\ next < e
  BY <1>1, <1>7, <1>9, <1>11
<1>17. prevFree => prev \in B \ U /\ prev # b /\ prev # next
  BY <1>2, <1>7, <1>8
<1> HIDE DEF at, e
<1>18. /\ nextFree => next \in B \ U /\ next # b
       /\ prevFree => prev \in B \ U /\ prev # b /\ prev # next
       /\ at \in B \ U /\ at + size \in B \cup {h.brk}
       /\ at <= b /\ b < at + size /\ size \in Nat /\ size >= sz[b]
       /\ \A c \in B : at <= c /\ c < at + size =>
                         \/ c = b
                         \/ nextFree /\ c = next
                         \/ prevFree /\ c = prev
       /\ nextFree => at <= next /\ next < at + size
       /\ ~ nextFree /\ ~ prevFree => size = sz[b]
       /\ at + size \notin B \ U
       /\ \A c \in B : c + sz[c] = at => c \in U
  BY <1>10, <1>11, <1>12, <1>13, <1>14, <1>15, <1>16, <1>17
<1> QED
  BY <1>18 DEF at, size, next, prev, nextFree, prevFree

(* Nothing but the result changes.                                         *)
LEMMA ReturnGood ==
  ASSUME NEW h, NEW B, NEW sz, NEW U, Shape(h, B, sz, U), NEW v \in Int
  PROVE  /\ Shape(Return(h, v), B, sz, U)
         /\ \A L : Chain(h, L) => Chain(Return(h, v), L)
         /\ Within(h, Return(h, v), sz, {})
         /\ Return(h, v).ret = v
<1> DEFINE d == Return(h, v)
<1>1. h \in Heaps
  BY DEF Shape
<1>2. /\ d \in Heaps /\ d.brk = h.brk /\ d.free_listp = h.free_listp
      /\ d.ret = v /\ d.mem = h.mem
  BY <1>1, ReturnIs
<1> HIDE DEF d
<1>3. Within(h, d, sz, {}) /\ Within(h, d, sz, B)
  BY <1>2 DEF Within
<1>4. Shape(d, B, sz, U)
  BY <1>2, <1>3, ShapeFrame
<1>5. ASSUME NEW L, Chain(h, L)
      PROVE  Chain(d, L)
  <2>1. PICK r : Links(h, L, r)
    BY <1>5 DEF Chain
  <2>2. Links(d, L, r)
    BY <1>2, <2>1, LinksFrame
  <2> QED
    BY <2>2 DEF Chain
<1> QED
  BY <1>2, <1>3, <1>4, <1>5 DEF d

(* coalesce() lists a free block that is not on the list yet, and leaves   *)
(* no two free blocks side by side.                                        *)
LEMMA CoalesceGood ==
  ASSUME NEW h, NEW B, NEW sz, NEW U, Shape(h, B, sz, U),
         NEW bp \in B \ U, Chain(h, (B \ U) \ {bp}), Separate(B, sz, U, bp)
  PROVE  LET d == coalesce(h, bp)
         IN  \E C, n : /\ Good(d, C, n, U) /\ d.ret \in C \ U
                       /\ n[d.ret] >= sz[bp]
                       /\ Keeps(h, sz, d, n, U)
<1> DEFINE next == NEXT_BLKP(h, bp)
           prev == PREV_BLKP(h, bp)
           nextFree == GET_ALLOC(h, HDRP(next)) = 0
           prevFree == GET_ALLOC(h, FTRP(h, prev)) = 0
           h1 == IF nextFree THEN remove_free_block(h, next) ELSE h
           h2 == IF prevFree THEN remove_free_block(h1, prev) ELSE h1
           size == GET_SIZE(h, HDRP(bp))
                   + (IF nextFree THEN GET_SIZE(h, HDRP(next)) ELSE 0)
                   + (IF prevFree THEN GET_SIZE(h, HDRP(prev)) ELSE 0)
           at == IF prevFree THEN prev ELSE bp
           h3 == IF nextFree \/ prevFree THEN Mark(h2, at, size, 0) ELSE h2
           h4 == insert_free_block(h3, at)
           L0 == (B \ U) \ {bp}
           L1 == IF nextFree THEN L0 \ {next} ELSE L0
           L2 == IF prevFree THEN L1 \ {prev} ELSE L1
           e == at + size
           C == Outside(B, at, e)
           n == Joined(B, sz, at, e)
<1>1. coalesce(h, bp) = Return(h4, at)
  BY DEF coalesce
<1>2. /\ nextFree => next \in B \ U /\ next # bp
      /\ prevFree => prev \in B \ U /\ prev # bp /\ prev # next
      /\ at \in B \ U /\ at + size \in B \cup {h.brk}
      /\ at <= bp /\ bp < at + size /\ size \in Nat /\ size >= sz[bp]
      /\ \A c \in B : at <= c /\ c < at + size =>
                        \/ c = bp
                        \/ nextFree /\ c = next
                        \/ prevFree /\ c = prev
      /\ nextFree => at <= next /\ next < at + size
      /\ ~ nextFree /\ ~ prevFree => size = sz[bp]
      /\ at + size \notin B \ U
      /\ \A c \in B : c + sz[c] = at => c \in U
  BY Around
<1>3. nextFree \in BOOLEAN /\ prevFree \in BOOLEAN
  OBVIOUS
<1>4. prevFree => at = prev
  OBVIOUS
<1>5. ~ prevFree => at = bp
  OBVIOUS
<1> HIDE DEF next, prev, nextFree, prevFree, size, at
<1>6. Shape(h1, B, sz, U) /\ Chain(h1, L1) /\ Within(h, h1, sz, B \ U)
  <2>1. L0 \subseteq B \ U /\ (nextFree => next \in L0)
    BY <1>2
  <2> HIDE DEF L0
  <2> QED
    BY <1>3, <2>1, RemoveIf DEF L0
<1>7. Shape(h2, B, sz, U) /\ Chain(h2, L2) /\ Within(h1, h2, sz, B \ U)
  <2>1. L1 \subseteq B \ U /\ (prevFree => prev \in L1)
    BY <1>2
  <2> HIDE DEF L1, h1
  <2> QED
    BY <1>3, <1>6, <2>1, RemoveIf
<1> HIDE DEF h1, h2
<1>8. L2 = {c \in B \ U : c < at \/ c >= e}
  <2>1. \A c \in B : c \in Nat
    BY ShapeFacts
  <2>2. at \in Nat /\ e \in Nat /\ bp \in Nat
    BY <1>2, <2>1
  <2>3. \A c \in B : ~ (c < at \/ c >= e) <=> at <= c /\ c < e
    BY <2>1, <2>2
  <2> HIDE DEF e
  <2>4. \A c \in B \ U : (at <= c /\ c < e) <=> c \notin L2
    <3> SUFFICES ASSUME NEW c \in B \ U
                 PROVE  (at <= c /\ c < e) <=> c \notin L2
      OBVIOUS
    <3>1. ASSUME at <= c, c < e
          PROVE  c \notin L2
      <4>1. c = bp \/ (nextFree /\ c = next) \/ (prevFree /\ c = prev)
        BY <1>2, <3>1 DEF e
      <4> QED
        BY <1>3, <4>1
    <3>2. ASSUME c \notin L2
          PROVE  at <= c /\ c < e
      <4>1. c = bp \/ (nextFree /\ c = next) \/ (prevFree /\ c = prev)
        BY <1>3, <3>2
      <4>2. CASE c = bp
        BY <1>2, <4>2 DEF e
      <4>3. CASE nextFree /\ c = next
        BY <1>2, <4>3 DEF e
      <4>4. CASE prevFree /\ c = prev
        <5>1. at <= at /\ at < e
          BY <1>2, <2>2 DEF e
        <5> QED
          BY <1>4, <4>4, <5>1
      <4> QED
        BY <4>1, <4>2, <4>3, <4>4
    <3> QED
      BY <3>1, <3>2
  <2>5. L2 \subseteq B \ U
    OBVIOUS
  <2> HIDE DEF L2
  <2> QED
    BY <2>3, <2>4, <2>5
<1> HIDE DEF L2
<1>9. h2.brk = h.brk
  BY <1>6, <1>7 DEF Within
<1>10. e - at = size /\ e > at /\ e \in B \cup {h.brk}
  <2>1. at \in Nat /\ bp \in Nat
    BY <1>2, ShapeFacts
  <2> QED
    BY <1>2, <2>1
<1>11. h3 = Mark(h2, at, e - at, 0)
  <2>1. CASE nextFree \/ prevFree
    BY <1>10, <2>1
  <2>2. CASE ~ nextFree /\ ~ prevFree
    <3>1. at = bp /\ size = sz[bp]
      BY <1>2, <1>5, <2>2
    <3>2. Mark(h2, bp, sz[bp], 0) = h2
      BY <1>7, MarkAgain
    <3>3. h3 = h2
      BY <2>2
    <3> QED
      BY <1>10, <3>1, <3>2, <3>3
  <2> QED
    BY <1>3, <2>1, <2>2
<1> HIDE DEF h3, e
<1>12. /\ Shape(h4, C, n, U) /\ Chain(h4, C \ U) /\ at \in C \ U
       /\ Keeps(h2, sz, h4, n, U)
  <2>1. \A c \in B : at <= c /\ c < e => c \notin U
    BY <1>2 DEF e
  <2>2. Shape(h2, B, sz, U) /\ Chain(h2, L2)
    BY <1>7
  <2>3. at \in B /\ e \in B \cup {h2.brk} /\ e > at
    BY <1>2, <1>9, <1>10
  <2>4. h4 = insert_free_block(Mark(h2, at, e - at, 0), at)
    BY <1>11
  <2> DEFINE k == insert_free_block(Mark(h2, at, e - at, 0), at)
  <2> HIDE DEF h4
  <2>5. e \in B \cup {h2.brk}
    BY <2>3
  <2>6. e > at
    BY <2>3
  <2>7. at \in B
    BY <2>3
  <2>8. Shape(k, C, n, U)
    BY <1>8, <2>1, <2>2, <2>5, <2>6, <2>7, JoinFree
  <2>9. Chain(k, C \ U) /\ at \in C \ U
    BY <1>8, <2>1, <2>2, <2>5, <2>6, <2>7, JoinFree
  <2>10. Keeps(h2, sz, k, n, U)
    BY <1>8, <2>1, <2>2, <2>5, <2>6, <2>7, JoinFree
  <2> QED
    BY <2>4, <2>8, <2>9, <2>10
<1> HIDE DEF h4
<1>13. \A u \in U : /\ u \in Nat /\ sz[u] \in Nat /\ n[u] \in Nat
                    /\ u \in B /\ u \in C
  <2>1. U \subseteq B /\ sz \in [B -> Nat]
    BY DEF Shape
  <2>3. \A u \in B : u \in Nat
    BY ShapeFacts
  <2>2. U \subseteq C /\ n \in [C -> Nat]
    BY <1>12 DEF Shape
  <2> HIDE DEF C, n
  <2> QED
    BY <2>1, <2>2, <2>3
<1>14. Keeps(h, sz, h4, n, U)
  <2>1. U \subseteq B
    BY DEF Shape
  <2>2. B \ U = B \ U
    OBVIOUS
  <2>3. Keeps(h, sz, h1, sz, U) /\ Keeps(h1, sz, h2, sz, U)
    BY <1>6, <1>7, <2>1, WithinKeeps
  <2>4. Keeps(h, sz, h2, sz, U)
    BY <1>13, <2>3, KeepsTwice
  <2> HIDE DEF n
  <2> QED
    BY <1>12, <1>13, <2>4, KeepsTwice
<1>15. n[at] = size /\ \A c \in C : c # at => n[c] = sz[c]
  BY <1>10, <1>12 DEF Joined, Outside
<1>16. Separate(C, n, U, NoBlock)
  <2> SUFFICES ASSUME NEW b \in C \ U, b + n[b] \in C \ U
               PROVE  FALSE
    BY DEF Separate
  <2>1. b \in B \ U /\ b + n[b] \in B \ U
    BY DEF Outside
  <2>2. b # at
    BY <1>2, <1>15, <2>1
  <2>3. b + sz[b] = b + n[b]
    BY <1>15, <2>2
  <2>4. b = bp \/ b + sz[b] = bp
    BY <2>1, <2>3 DEF Separate
  <2>5. bp \in C => bp = at
    <3>1. bp \in Nat /\ at \in Nat /\ e \in Nat
      <4>1. \A c \in B : c \in Nat
        BY ShapeFacts
      <4> QED
        BY <1>2, <4>1 DEF e
    <3>2. at <= bp /\ bp < e
      BY <1>2 DEF e
    <3> QED
      BY <3>1, <3>2 DEF Outside
  <2>6. b + sz[b] = at => b \in U
    BY <1>2, <2>1
  <2> QED
    BY <2>2, <2>3, <2>4, <2>5, <2>6
<1> HIDE DEF n, C
<1>17. at \in Int
  <2>1. \A c \in B : c \in Nat
    BY ShapeFacts
  <2> QED
    BY <1>2, <2>1
<1> DEFINE d == Return(h4, at)
<1>18. /\ Shape(d, C, n, U) /\ Chain(d, C \ U) /\ Within(h4, d, n, {})
       /\ d.ret = at
  BY <1>12, <1>17, ReturnGood
<1> HIDE DEF d
<1>19. Keeps(h, sz, d, n, U)
  <2>1. Within(h4, d, n, C \ U)
    BY <1>18 DEF Within
  <2>2. U \subseteq C
    BY <1>12 DEF Shape
  <2>3. Keeps(h4, n, d, n, U)
    BY <1>12, <2>1, <2>2, WithinKeeps
  <2> QED
    BY <1>13, <1>14, <2>3, KeepsTwice
<1>20. C # {}
  BY <1>12
<1>21. Good(d, C, n, U)
  BY <1>16, <1>18, <1>20 DEF Good
<1>22. d.ret \in C \ U /\ n[d.ret] >= sz[bp]
  BY <1>2, <1>12, <1>15, <1>18
<1> QED
  BY <1>1, <1>19, <1>21, <1>22 DEF d

(* A size is rounded up to an even one.                                    *)
LEMMA Rounded ==
  ASSUME NEW n \in Nat
  PROVE  /\ (n + (n % 2)) \in Nat /\ (n + (n % 2)) % 2 = 0
         /\ n + (n % 2) >= n
  OBVIOUS

(* What extend_heap() hands to coalesce(): the heap with one more block.   *)
Extended(h, B, sz, U, size, e) ==
  /\ Shape(e, B \cup {h.brk}, Longer(B, sz, h.brk, size), U)
  /\ h.brk \notin B
  /\ e.free_listp = h.free_listp
  /\ \A x \in Addr : \/ x < h.brk - 1
                     \/ h.brk <= x /\ x < h.brk + size - 2
                     => e.mem[x] = h.mem[x]

(* extend_heap() coalesces such a heap.                                    *)
LEMMA ExtendIs ==
  ASSUME NEW h, NEW B, NEW sz, NEW U, Shape(h, B, sz, U),
         NEW words \in Nat, words >= 4,
         NEW size, size = words + (words % 2), h.brk + size <= MaxHeap
  PROVE  \E e : /\ extend_heap(h, words) = coalesce(e, h.brk)
                /\ Extended(h, B, sz, U, size, e)
<1> DEFINE b == h.brk
           g == [h EXCEPT !.brk = @ + size]
           h1 == mem_sbrk(h, size)
           h2 == Mark(h1, b, size, 0)
           e == PUT(h2, b + size - 1, PACK(0, 1))
<1>1. size \in Nat /\ size % 2 = 0 /\ size >= 4
  BY Rounded
<1>2. /\ h \in Heaps /\ b \in Nat /\ b >= 4 /\ MaxHeap \in Nat
      /\ b + size <= MaxHeap
  BY MallocAssumption DEF Shape, Heaps
<1>3. /\ h1.brk = b + size /\ h1.mem = h.mem /\ h1.ret = b
      /\ h1.free_listp = h.free_listp /\ h1 \in Heaps
  <2>1. h1 = Return(g, b)
    <3>1. ~ (b + size > MaxHeap)
      BY <1>1, <1>2
    <3> QED
      BY <3>1 DEF mem_sbrk
  <2>2. /\ g \in Heaps /\ g.brk = b + size /\ g.mem = h.mem
        /\ g.free_listp = h.free_listp
    <3>1. b + size \in 0 .. MaxHeap
      BY <1>1, <1>2
    <3> QED
      BY <1>2, <3>1 DEF Heaps
  <2>3. b \in Int /\ g \in Heaps
    BY <1>2, <2>2
  <2> HIDE DEF g, h1, b
  <2>4. LET k == Return(g, b)
        IN  /\ k \in Heaps /\ k.brk = g.brk
            /\ k.free_listp = g.free_listp /\ k.ret = b /\ k.mem = g.mem
    BY <2>3, ReturnIs
  <2> QED
    BY <2>1, <2>2, <2>4
<1> HIDE DEF h1
<1>4. /\ b - 1 \in Addr /\ b + size - 2 \in Addr /\ b + size - 1 \in Addr
  BY <1>1, <1>2 DEF Addr
<1>5. /\ h2 \in Heaps /\ h2.brk = h1.brk /\ h2.free_listp = h1.free_listp
      /\ \A x \in Addr : h2.mem[x] = IF x = b - 1 \/ x = b + size - 2
                                     THEN size + 0 ELSE h1.mem[x]
  <2>1. b \in Int /\ size \in Int /\ 0 \in {0, 1}
    BY <1>1, <1>2
  <2> HIDE DEF b
  <2> QED
    BY <1>3, <1>4, <2>1, MarkIs
<1> HIDE DEF h2
<1>6. /\ e \in Heaps /\ e.brk = h2.brk /\ e.free_listp = h2.free_listp
      /\ \A x \in Addr : e.mem[x] = IF x = b + size - 1 THEN 1
                                    ELSE h2.mem[x]
  <2>1. PACK(0, 1) = 1
    BY DEF PACK
  <2> QED
    BY <1>4, <1>5, <2>1, PutIs
<1> HIDE DEF e
<1>7. \A x \in Addr : e.mem[x] = IF x = b + size - 1 THEN 1
                                 ELSE IF x = b - 1 \/ x = b + size - 2
                                 THEN size ELSE h.mem[x]
  BY <1>1, <1>3, <1>5, <1>6
<1>8. /\ Shape(e, B \cup {h.brk}, Longer(B, sz, h.brk, size), U)
      /\ h.brk \notin B
  <2>1. e \in Heaps
    BY <1>6
  <2>2. e.brk = h.brk + size
    BY <1>3, <1>5, <1>6
  <2>3. \A x \in Addr : e.mem[x] = IF x = h.brk + size - 1 THEN 1
                        ELSE IF x = h.brk - 1 \/ x = h.brk + size - 2
                        THEN size ELSE h.mem[x]
    BY <1>7
  <2>4. size \in Nat /\ size % 2 = 0 /\ size >= 4
    BY <1>1
  <2> HIDE DEF b
  <2>5. Shape(e, B \cup {h.brk}, Longer(B, sz, h.brk, size), U)
    BY <2>1, <2>2, <2>3, <2>4, ExtendShape
  <2>6. h.brk \notin B
    <3>1. \A c \in B : c < h.brk /\ c \in Nat /\ h.brk \in Nat
      BY ShapeFacts
    <3> QED
      BY <3>1
  <2> QED
    BY <2>5, <2>6
<1>9. extend_heap(h, words) = coalesce(e, b)
  <2>1. b # -1
    BY <1>2
  <2> QED
    BY <1>3, <2>1 DEF extend_heap, h1, h2, e
<1>10. \A x \in Addr : x < b - 1 \/ (b <= x /\ x < b + size - 2)
                         => e.mem[x] = h.mem[x]
  <2> SUFFICES ASSUME NEW x \in Addr,
                      x < b - 1 \/ (b <= x /\ x < b + size - 2)
               PROVE  e.mem[x] = h.mem[x]
    OBVIOUS
  <2>1. x # b + size - 1 /\ x # b - 1 /\ x # b + size - 2
    BY <1>1, <1>2 DEF Addr
  <2> QED
    BY <1>7, <2>1
<1>11. Extended(h, B, sz, U, size, e)
  BY <1>3, <1>5, <1>6, <1>8, <1>10 DEF Extended
<1> QED
  BY <1>9, <1>11

(* ... and when there is no memory for it.                                 *)
LEMMA ExtendFails ==
  ASSUME NEW h, NEW B, NEW sz, NEW U, Shape(h, B, sz, U), NEW words \in Nat,
         ~ (h.brk + (words + (words % 2)) <= MaxHeap)
  PROVE  LET d == extend_heap(h, words)
         IN  /\ Shape(d, B, sz, U) /\ d.ret = NoBlock
             /\ Within(h, d, sz, {})
             /\ \A L : Chain(h, L) => Chain(d, L)
<1> DEFINE h1 == Return(h, -1)
           d == Return(h1, NoBlock)
<1>1. extend_heap(h, words) = d
  <2>1. h.brk + (words + (words % 2)) > MaxHeap
    <3>1. h.brk \in Nat /\ MaxHeap \in Nat /\ words + (words % 2) \in Nat
      BY Rounded, MallocAssumption DEF Shape, Heaps
    <3> QED
      BY <3>1
  <2>2. mem_sbrk(h, words + (words % 2)) = h1
    BY <2>1 DEF mem_sbrk
  <2>3. h1.ret = -1
    <3>1. h \in Heaps /\ -1 \in Int
      BY DEF Shape
    <3> QED
      BY <3>1, ReturnIs
  <2> QED
    BY <2>2, <2>3 DEF extend_heap
<1>2. /\ Shape(h1, B, sz, U) /\ \A L : Chain(h, L) => Chain(h1, L)
      /\ Within(h, h1, sz, {})
  BY ReturnGood
<1> HIDE DEF h1
<1>3. /\ Shape(d, B, sz, U) /\ \A L : Chain(h1, L) => Chain(d, L)
      /\ Within(h1, d, sz, {}) /\ d.ret = NoBlock
  BY <1>2, ReturnGood DEF NoBlock
<1> HIDE DEF d
<1>4. Within(h, d, sz, {})
  BY <1>2, <1>3 DEF Within
<1> QED
  BY <1>1, <1>2, <1>3, <1>4

(* extend_heap() adds a free block of the size asked for, or changes       *)
(* nothing.                                                                *)
LEMMA ExtendGood ==
  ASSUME NEW h, NEW B, NEW sz, NEW U, Shape(h, B, sz, U),
         Chain(h, B \ U), Separate(B, sz, U, NoBlock),
         NEW words \in Nat, words >= 4
  PROVE  LET d == extend_heap(h, words)
         IN  \/ /\ Shape(d, B, sz, U) /\ d.ret = NoBlock
                /\ Within(h, d, sz, {})
                /\ Chain(d, B \ U)
             \/ \E C, n : /\ Good(d, C, n, U) /\ d.ret \in C \ U
                          /\ n[d.ret] >= words
                          /\ Keeps(h, sz, d, n, U)
<1> DEFINE size == words + (words % 2)
           d == extend_heap(h, words)
           b == h.brk
           C == B \cup {b}
           n == Longer(B, sz, b, size)
<1>1. CASE ~ (h.brk + size <= MaxHeap)
  BY <1>1, ExtendFails
<1>2. CASE h.brk + size <= MaxHeap
  <2>1. PICK e : /\ d = coalesce(e, b)
                 /\ Shape(e, C, n, U)
                 /\ b \notin B
                 /\ e.free_listp = h.free_listp
                 /\ \A x \in Addr : \/ x < b - 1
                                    \/ b <= x /\ x < b + size - 2
                                    => e.mem[x] = h.mem[x]
    BY <1>2, ExtendIs DEF Extended
  <2>2. size \in Nat /\ size >= words
    BY Rounded
  <2>3. n[b] = size /\ \A c \in B : n[c] = sz[c]
    BY <2>1 DEF Longer
  <2>4. \A c \in B : /\ c \in Nat /\ c \in Addr /\ c + 1 \in Addr
                     /\ sz[c] \in Nat /\ sz[c] >= 4
                     /\ c + sz[c] <= b /\ b \in Nat /\ c < b
    BY ShapeFacts
  <2>5. U \subseteq B
    BY DEF Shape
  <2> HIDE DEF size, d
  <2>6. Chain(e, B \ U)
    <3>1. PICK r : Links(h, B \ U, r)
      BY DEF Chain
    <3>2. ASSUME NEW x \in B \ U
          PROVE  e.mem[x] = h.mem[x] /\ e.mem[x + 1] = h.mem[x + 1]
      <4>1. x < b - 1 /\ x + 1 < b - 1 /\ x \in Addr /\ x + 1 \in Addr
        BY <2>4
      <4> QED
        BY <2>1, <4>1
    <3>3. Links(e, B \ U, r)
      BY <2>1, <3>1, <3>2, LinksFrame
    <3> QED
      BY <3>3 DEF Chain
  <2>7. (C \ U) \ {b} = B \ U /\ b \in C \ U
    BY <2>1, <2>5
  <2>8. Separate(C, n, U, b)
    <3> SUFFICES ASSUME NEW c \in C \ U, c + n[c] \in C \ U,
                        c # b, c + n[c] # b
                 PROVE  FALSE
      BY DEF Separate
    <3>1. c \in B \ U /\ c + sz[c] \in B \ U
      BY <2>3
    <3>2. c = NoBlock \/ c + sz[c] = NoBlock
      BY <3>1 DEF Separate
    <3> QED
      BY <2>4, <3>1, <3>2, ShapeFacts
  <2>9. Keeps(h, sz, e, n, U)
    <3> SUFFICES ASSUME NEW u \in U
                 PROVE  /\ n[u] >= sz[u]
                        /\ \A a \in Addr : u <= a /\ a <= u + sz[u] - 3 =>
                                             e.mem[a] = h.mem[a]
      BY DEF Keeps
    <3>1. /\ u \in Nat /\ sz[u] \in Nat /\ u + sz[u] <= b /\ b \in Nat
          /\ n[u] = sz[u]
      BY <2>3, <2>4, <2>5
    <3>2. \A a \in Addr : a <= u + sz[u] - 3 => a < b - 1
      BY <3>1 DEF Addr
    <3> QED
      BY <2>1, <3>1, <3>2
  <2>10. \A u \in U : /\ u \in Nat /\ sz[u] \in Nat /\ n[u] \in Nat
                      /\ u \in B
    BY <2>3, <2>4, <2>5
  <2> HIDE DEF n, C
  <2>11. Chain(e, (C \ U) \ {b})
    BY <2>6, <2>7
  <2>12. b \in C \ U
    BY <2>7
  <2> HIDE DEF b
  <2>13. PICK D, m : /\ Good(coalesce(e, b), D, m, U)
                     /\ coalesce(e, b).ret \in D \ U
                     /\ m[coalesce(e, b).ret] >= n[b]
                     /\ Keeps(e, n, coalesce(e, b), m, U)
    BY <2>1, <2>8, <2>11, <2>12, CoalesceGood
  <2>14. Good(d, D, m, U) /\ d.ret \in D \ U /\ m[d.ret] >= n[b]
         /\ Keeps(e, n, d, m, U)
    BY <2>1, <2>13
  <2>15. \A u \in D : m[u] \in Nat
    <3>1. m \in [D -> Nat]
      BY <2>14 DEF Good, Shape
    <3> QED
      BY <3>1
  <2>16. U \subseteq D
    BY <2>14 DEF Good, Shape
  <2>17. Keeps(h, sz, d, m, U)
    BY <2>9, <2>10, <2>14, <2>15, <2>16, KeepsTwice
  <2>18. m[d.ret] >= words
    <3>1. m[d.ret] \in Nat
      BY <2>14, <2>15
    <3> QED
      BY <2>2, <2>3, <2>14, <3>1
  <2> QED
    BY <2>14, <2>17, <2>18 DEF d
<1> QED
  BY <1>1, <1>2

(* A block is marked as allocated, or as free.                             *)
LEMMA Retag ==
  ASSUME NEW h, NEW B, NEW sz, NEW U, Shape(h, B, sz, U), NEW b \in B,
         NEW a \in {0, 1},
         NEW V, V = IF a = 1 THEN U \cup {b} ELSE U \ {b}
  PROVE  LET d == Mark(h, b, sz[b], a)
         IN  /\ Shape(d, B, sz, V)
             /\ \A L : L \subseteq B /\ Chain(h, L) => Chain(d, L)
             /\ Keeps(h, sz, d, sz, B)
<1> DEFINE d == Mark(h, b, sz[b], a)
           e == b + sz[b]
<1>1. \A c \in B : /\ c \in Nat /\ c \in Addr /\ c + 1 \in Addr
                   /\ sz[c] \in Nat /\ sz[c] >= 4
                   /\ c - 1 \in Addr /\ c + sz[c] - 2 \in Addr
                   /\ c + sz[c] \in B \cup {h.brk}
  BY ShapeFacts
<1>2. \A c \in B : c < b => c + sz[c] <= b
  BY DEF Shape
<1>3. \A c \in B : b < c => b + sz[b] <= c
  BY DEF Shape
<1>4. /\ h \in Heaps /\ U \subseteq B /\ sz \in [B -> Nat]
  BY DEF Shape
<1>5. Outside(B, b, e) = B
  <2>1. \A c \in B : c <= b \/ c >= e
    <3> SUFFICES ASSUME NEW c \in B
                 PROVE  c <= b \/ c >= e
      OBVIOUS
    <3>1. b \in Nat /\ c \in Nat
      BY <1>1
    <3>2. b < c => c >= e
      <4>1. b < c => b + sz[b] <= c
        BY <1>3
      <4>2. sz[b] \in Nat
        BY <1>1
      <4> QED
        BY <3>1, <4>1, <4>2
    <3> QED
      BY <3>1, <3>2
  <2> QED
    BY <2>1 DEF Outside
<1>6. Joined(B, sz, b, e) = sz
  <2>1. e - b = sz[b]
    BY <1>1
  <2>2. Joined(B, sz, b, e) = [c \in B |-> sz[c]]
    BY <1>5, <2>1 DEF Joined
  <2> QED
    BY <1>4, <2>2
<1>7. V = {c \in Outside(B, b, e) : IF c = b THEN a = 1 ELSE c \in U}
  <2>1. V = {c \in B : IF c = b THEN a = 1 ELSE c \in U}
    BY <1>4
  <2> QED
    BY <1>5, <2>1
<1>8. e \in B \cup {h.brk} /\ e > b /\ e - b = sz[b]
  BY <1>1
<1>9. Shape(d, B, sz, V)
  <2>1. Shape(Mark(h, b, e - b, a), Outside(B, b, e), Joined(B, sz, b, e), V)
    <3>1. e \in B \cup {h.brk}
      BY <1>8
    <3>2. e > b
      BY <1>8
    <3> HIDE DEF e
    <3> QED
      BY <1>7, <3>1, <3>2, RunShape
  <2> QED
    BY <1>5, <1>6, <1>8, <2>1
<1>10. /\ d.free_listp = h.free_listp
       /\ \A x \in Addr : d.mem[x] = IF x = b - 1 \/ x = b + sz[b] - 2
                                     THEN sz[b] + a ELSE h.mem[x]
  BY <1>1, <1>4, MarkIs
<1> HIDE DEF d
<1>11. ASSUME NEW c \in B, NEW x \in Addr, c <= x, x <= c + sz[c] - 3
       PROVE  d.mem[x] = h.mem[x]
  <2>1. c \in Nat /\ b \in Nat /\ sz[c] \in Nat /\ sz[b] \in Nat
        /\ sz[c] >= 4 /\ sz[b] >= 4
    BY <1>1
  <2>2. x \in Nat
    BY DEF Addr
  <2>3. c < b => c + sz[c] <= b
    BY <1>2
  <2>4. b < c => b + sz[b] <= c
    BY <1>3
  <2>5. x # b - 1 /\ x # b + sz[b] - 2
    BY <1>11, <2>1, <2>2, <2>3, <2>4
  <2> QED
    BY <1>10, <2>5
<1>12. Keeps(h, sz, d, sz, B)
  <2>1. \A c \in B : sz[c] >= sz[c]
    BY <1>1
  <2> QED
    BY <1>11, <2>1 DEF Keeps
<1>13. ASSUME NEW L, L \subseteq B, Chain(h, L)
       PROVE  Chain(d, L)
  <2>1. PICK r : Links(h, L, r)
    BY <1>13 DEF Chain
  <2>2. ASSUME NEW x \in L
        PROVE  d.mem[x] = h.mem[x] /\ d.mem[x + 1] = h.mem[x + 1]
    <3>1. x \in B
      BY <1>13
    <3>2. /\ x \in Addr /\ x + 1 \in Addr /\ x <= x + sz[x] - 3
          /\ x <= x + 1 /\ x + 1 <= x + sz[x] - 3 /\ x <= x
      BY <1>1, <3>1
    <3>3. d.mem[x] = h.mem[x]
      BY <1>11, <3>1, <3>2
    <3>4. d.mem[x + 1] = h.mem[x + 1]
      BY <1>11, <3>1, <3>2
    <3> QED
      BY <3>3, <3>4
  <2>3. Links(d, L, r)
    BY <1>10, <2>1, <2>2, LinksFrame
  <2> QED
    BY <2>3 DEF Chain
<1> QED
  BY <1>9, <1>12, <1>13 DEF d

(* mm_free() makes a free block of an allocated one.                       *)
LEMMA FreeGood ==
  ASSUME NEW h, NEW B, NEW sz, NEW U, Good(h, B, sz, U), NEW bp \in U
  PROVE  LET d == mm_free(h, bp)
         IN  \E C, n : /\ Good(d, C, n, U \ {bp}) /\ d.ret \in Addr
                       /\ Keeps(h, sz, d, n, U \ {bp})
<1> DEFINE V == U \ {bp}
           k == Mark(h, bp, sz[bp], 0)
           d == coalesce(k, bp)
<1>1. Shape(h, B, sz, U) /\ Chain(h, B \ U) /\ Separate(B, sz, U, NoBlock)
  BY DEF Good
<1>2. U \subseteq B /\ bp \in B
  BY <1>1 DEF Shape
<1>3. mm_free(h, bp) = d
  BY <1>1, <1>2, BlockReads DEF mm_free
<1>4. /\ Shape(k, B, sz, V)
      /\ \A L : L \subseteq B /\ Chain(h, L) => Chain(k, L)
      /\ Keeps(h, sz, k, sz, B)
  <2>1. V = IF 0 = 1 THEN U \cup {bp} ELSE U \ {bp}
    OBVIOUS
  <2> HIDE DEF V
  <2> QED
    BY <1>1, <1>2, <2>1, Retag
<1>5. \A c \in B : c \in Nat /\ c >= 4 /\ sz[c] \in Nat
  BY <1>1, ShapeFacts
<1>6. Separate(B, sz, V, bp)
  <2> SUFFICES ASSUME NEW c \in B \ V, c + sz[c] \in B \ V,
                      c # bp, c + sz[c] # bp
               PROVE  FALSE
    BY DEF Separate
  <2>1. c \in B \ U /\ c + sz[c] \in B \ U
    OBVIOUS
  <2>2. c = NoBlock \/ c + sz[c] = NoBlock
    BY <1>1, <2>1 DEF Separate
  <2> QED
    BY <1>5, <2>1, <2>2 DEF NoBlock
<1>7. (B \ V) \ {bp} = B \ U /\ bp \in B \ V
  BY <1>2
<1>8. Chain(k, (B \ V) \ {bp})
  BY <1>1, <1>4, <1>7
<1> HIDE DEF V, k
<1>9. bp \in B \ V
  BY <1>7
<1>10. PICK C, n : /\ Good(coalesce(k, bp), C, n, V)
                   /\ coalesce(k, bp).ret \in C \ V
                   /\ Keeps(k, sz, coalesce(k, bp), n, V)
  BY <1>4, <1>6, <1>8, <1>9, CoalesceGood
<1>11. Keeps(h, sz, k, sz, V)
  BY <1>2, <1>4 DEF Keeps, V
<1>12. \A u \in V : u \in Nat /\ sz[u] \in Nat /\ n[u] \in Nat
  <2>1. n \in [C -> Nat] /\ V \subseteq C
    BY <1>10 DEF Good, Shape
  <2>2. V \subseteq B
    BY <1>2 DEF V
  <2> QED
    BY <1>5, <2>1, <2>2
<1>13. Keeps(h, sz, d, n, V)
  BY <1>10, <1>11, <1>12, KeepsTwice
<1>14. d.ret \in Addr
  BY <1>10 DEF Good, Shape
<1> QED
  BY <1>3, <1>10, <1>13, <1>14 DEF V

(* place() allocates a free block, or the first words of one.              *)
LEMMA PlaceGood ==
  ASSUME NEW h, NEW B, NEW sz, NEW U, Good(h, B, sz, U), NEW bp \in B \ U,
         NEW asize \in Nat, asize % 2 = 0, asize >= 4, asize <= sz[bp]
  PROVE  LET d == place(h, bp, asize)
         IN  \E C, n : /\ Good(d, C, n, U \cup {bp})
                       /\ n[bp] >= asize
                       /\ Keeps(h, sz, d, n, U)
<1> DEFINE V == U \cup {bp}
           size == sz[bp]
           rest == bp + asize
           L == (B \ U) \ {bp}
           k == remove_free_block(h, bp)
           k1 == Mark(k, bp, asize, 1)
           g == Mark(k1, rest, size - asize, 0)
           d == IF size - asize >= 4 THEN insert_free_block(g, rest)
                ELSE Mark(k, bp, size, 1)
<1>1. Shape(h, B, sz, U) /\ Chain(h, B \ U) /\ Separate(B, sz, U, NoBlock)
      /\ B # {}
  BY DEF Good
<1>2. U \subseteq B
  BY <1>1 DEF Shape
<1>3. place(h, bp, asize) = d
  <2>1. GET_SIZE(h, HDRP(bp)) = size
    BY <1>1, BlockReads
  <2> QED
    BY <2>1 DEF place
<1>4. Shape(k, B, sz, U) /\ Chain(k, L) /\ Within(h, k, sz, B \ U)
  <2>1. LET e == IF TRUE THEN remove_free_block(h, bp) ELSE h
        IN  /\ Shape(e, B, sz, U)
            /\ Chain(e, IF TRUE THEN (B \ U) \ {bp} ELSE B \ U)
            /\ Within(h, e, sz, B \ U)
    <3>1. B \ U \subseteq B \ U
      OBVIOUS
    <3> QED
      BY <1>1, <3>1, RemoveIf
  <2> QED
    BY <2>1
<1> HIDE DEF k
<1>5. \A c \in B : /\ c \in Nat /\ c \in Addr /\ c + 1 \in Addr
                   /\ sz[c] \in Nat /\ sz[c] >= 4 /\ c >= 4
                   /\ c - 1 \in Addr /\ c + sz[c] - 2 \in Addr
                   /\ c + sz[c] \in B \cup {h.brk}
                   /\ c + sz[c] <= h.brk /\ c < h.brk /\ h.brk \in Nat
  BY <1>1, ShapeFacts
<1>6. \A c \in B : c < bp => c + sz[c] <= bp
  BY <1>1 DEF Shape
<1>7. \A c \in B : bp < c => bp + sz[bp] <= c
  BY <1>1 DEF Shape
<1>8. ASSUME NEW c \in B \ U, c + sz[c] \in B \ U
      PROVE  FALSE
  <2>1. c = NoBlock \/ c + sz[c] = NoBlock
    BY <1>1, <1>8 DEF Separate
  <2>2. c \in Nat /\ sz[c] \in Nat /\ c >= 4
    BY <1>5
  <2> QED
    BY <2>1, <2>2 DEF NoBlock
<1>9. Keeps(h, sz, k, sz, U)
  BY <1>1, <1>2, <1>4, WithinKeeps
<1>10. CASE ~ (size - asize >= 4)
  <2>1. d = Mark(k, bp, sz[bp], 1)
    BY <1>10
  <2>2. /\ Shape(Mark(k, bp, sz[bp], 1), B, sz, V)
        /\ \A M : M \subseteq B /\ Chain(k, M)
                    => Chain(Mark(k, bp, sz[bp], 1), M)
        /\ Keeps(k, sz, Mark(k, bp, sz[bp], 1), sz, B)
    <3>1. V = IF 1 = 1 THEN U \cup {bp} ELSE U \ {bp}
      OBVIOUS
    <3> HIDE DEF V
    <3> QED
      BY <1>4, <3>1, Retag
  <2> HIDE DEF d
  <2>3. Chain(d, B \ V)
    <3>1. L \subseteq B /\ L = B \ V
      OBVIOUS
    <3> QED
      BY <1>4, <2>1, <2>2, <3>1
  <2>4. Separate(B, sz, V, NoBlock)
    BY <1>8 DEF Separate
  <2>5. Keeps(k, sz, d, sz, U)
    BY <1>2, <2>1, <2>2 DEF Keeps
  <2>6. \A u \in U : u \in Nat /\ sz[u] \in Nat
    BY <1>2, <1>5
  <2>7. Keeps(h, sz, d, sz, U)
    BY <1>9, <2>5, <2>6, KeepsTwice
  <2>8. Good(d, B, sz, V)
    BY <1>1, <2>1, <2>2, <2>3, <2>4 DEF Good
  <2> QED
    BY <1>3, <2>7, <2>8
<1>11. CASE size - asize >= 4
  <2> DEFINE C == B \cup {rest}
             n == Parted(B, sz, bp, asize)
  <2>1. /\ bp \in Nat /\ bp >= 4 /\ size \in Nat /\ rest \in Nat
        /\ rest >= bp + 4
        /\ rest + 4 <= bp + size /\ bp + size <= h.brk /\ h.brk <= MaxHeap
        /\ h.brk \in Nat /\ MaxHeap \in Nat
    <3>1. h.brk <= MaxHeap /\ MaxHeap \in Nat
      BY <1>1, ShapeFacts, MallocAssumption
    <3> QED
      BY <1>5, <1>11, <3>1
  <2>2. rest \notin B
    <3> SUFFICES ASSUME rest \in B
                 PROVE  FALSE
      OBVIOUS
    <3>1. bp < rest
      BY <2>1
    <3> HIDE DEF rest
    <3>2. bp + size <= rest
      BY <1>7, <3>1
    <3> QED
      BY <2>1, <3>2
  <2>3. /\ bp - 1 \in Addr /\ rest - 2 \in Addr /\ rest - 1 \in Addr
        /\ bp + size - 2 \in Addr /\ rest = bp + asize
    BY <2>1 DEF Addr
  <2>4. /\ k1 \in Heaps /\ k1.brk = k.brk /\ k1.free_listp = k.free_listp
        /\ \A x \in Addr : k1.mem[x] = IF x = bp - 1 \/ x = rest - 2
                                       THEN asize + 1 ELSE k.mem[x]
    <3>1. k \in Heaps
      BY <1>4 DEF Shape
    <3>2. bp \in Int /\ asize \in Int /\ 1 \in {0, 1}
      BY <2>1
    <3> QED
      BY <2>3, <3>1, <3>2, MarkIs
  <2> HIDE DEF k1
  <2>5. /\ g \in Heaps /\ g.brk = k1.brk /\ g.free_listp = k1.free_listp
        /\ \A x \in Addr : g.mem[x] = IF x = rest - 1 \/ x = bp + size - 2
                                      THEN size - asize ELSE k1.mem[x]
    <3>1. rest \in Int /\ (size - asize) \in Int /\ 0 \in {0, 1}
          /\ rest + (size - asize) - 2 = bp + size - 2
          /\ (size - asize) + 0 = size - asize
      BY <2>1
    <3> HIDE DEF size, rest
    <3> QED
      BY <2>3, <2>4, <3>1, MarkIs
  <2> HIDE DEF g
  <2>6. g.brk = k.brk /\ g.free_listp = k.free_listp
        /\ \A x \in Addr : g.mem[x] =
             IF x = bp + asize - 1 \/ x = bp + sz[bp] - 2 THEN sz[bp] - asize
             ELSE IF x = bp - 1 \/ x = bp + asize - 2 THEN asize + 1
             ELSE k.mem[x]
    <3>1. g.brk = k.brk /\ g.free_listp = k.free_listp
      BY <2>4, <2>5
    <3> SUFFICES ASSUME NEW x \in Addr
                 PROVE  g.mem[x] =
             IF x = bp + asize - 1 \/ x = bp + sz[bp] - 2 THEN sz[bp] - asize
             ELSE IF x = bp - 1 \/ x = bp + asize - 2 THEN asize + 1
             ELSE k.mem[x]
      BY <3>1
    <3>2. g.mem[x] = IF x = rest - 1 \/ x = bp + size - 2
                     THEN size - asize ELSE k1.mem[x]
      BY <2>5
    <3>3. k1.mem[x] = IF x = bp - 1 \/ x = rest - 2
                      THEN asize + 1 ELSE k.mem[x]
      BY <2>4
    <3>4. rest - 1 = bp + asize - 1 /\ rest - 2 = bp + asize - 2
      BY <2>1
    <3> HIDE DEF rest
    <3> QED
      BY <3>2, <3>3, <3>4
  <2>7. Shape(g, C, n, V)
    <3>1. bp + asize \notin U
      BY <1>2, <2>2
    <3>2. bp \in B /\ sz[bp] - asize >= 4 /\ g \in Heaps /\ g.brk = k.brk
      BY <1>11, <2>5, <2>6
    <3> QED
      BY <1>4, <2>6, <3>1, <3>2, SplitShape
  <2>8. /\ \A c \in B : c # bp => n[c] = sz[c]
        /\ n[bp] = asize /\ n[rest] = size - asize
    BY <2>1, <2>2 DEF Parted
  <2>9. ASSUME NEW c \in B, c # bp, NEW x \in Addr,
               c <= x, x <= c + sz[c] - 3
        PROVE  g.mem[x] = k.mem[x]
    <3>1. c \in Nat /\ sz[c] \in Nat /\ sz[c] >= 4 /\ x \in Nat
      BY <1>5 DEF Addr
    <3>2. c < bp => c + sz[c] <= bp
      BY <1>6
    <3>3. bp < c => bp + sz[bp] <= c
      BY <1>7
    <3>4. /\ x # bp + asize - 1 /\ x # bp + sz[bp] - 2
          /\ x # bp - 1 /\ x # bp + asize - 2
      BY <2>1, <2>9, <3>1, <3>2, <3>3
    <3> QED
      BY <2>6, <3>4
  <2>10. Chain(g, L)
    <3>1. PICK r : Links(k, L, r)
      BY <1>4 DEF Chain
    <3>2. ASSUME NEW x \in L
          PROVE  g.mem[x] = k.mem[x] /\ g.mem[x + 1] = k.mem[x + 1]
      <4>1. /\ x \in Addr /\ x + 1 \in Addr /\ x <= x + sz[x] - 3
            /\ x <= x + 1 /\ x + 1 <= x + sz[x] - 3 /\ x <= x
        BY <1>5
      <4> QED
        BY <2>9, <4>1
    <3>3. Links(g, L, r)
      BY <2>6, <3>1, <3>2, LinksFrame
    <3> QED
      BY <3>3 DEF Chain
  <2> DEFINE f == insert_free_block(g, rest)
  <2>11. L \cup {rest} = C \ V
    BY <1>2, <2>1, <2>2
  <2>12. rest \in C \ V
    BY <2>11
  <2>13. rest \notin L
    BY <2>2
  <2>14. L \subseteq C \ V
    BY <2>11
  <2> HIDE DEF C, n, rest, L, V
  <2>15. /\ Shape(f, C, n, V) /\ Chain(f, L \cup {rest})
         /\ Within(g, f, n, C \ V)
    BY <2>7, <2>10, <2>12, <2>13, <2>14, InsertFree
  <2> HIDE DEF f
  <2>16. V \subseteq C
    BY <2>7 DEF Shape
  <2>17. Keeps(g, n, f, n, V)
    BY <2>7, <2>15, <2>16, WithinKeeps
  <2>18. Keeps(g, n, f, n, U)
    BY <2>17 DEF Keeps, V
  <2>19. Keeps(k, sz, g, n, U)
    <3> SUFFICES ASSUME NEW u \in U
                 PROVE  /\ n[u] >= sz[u]
                        /\ \A a \in Addr : u <= a /\ a <= u + sz[u] - 3 =>
                                             g.mem[a] = k.mem[a]
      BY DEF Keeps
    <3>1. u \in B /\ u # bp
      BY <1>2
    <3>2. n[u] = sz[u] /\ sz[u] \in Nat
      BY <1>5, <2>8, <3>1
    <3> QED
      BY <2>9, <3>1, <3>2
  <2>20. \A u \in U : u \in Nat /\ sz[u] \in Nat /\ n[u] \in Nat
    <3>1. \A u \in U : u \in B /\ u # bp
      BY <1>2
    <3> QED
      BY <1>5, <2>8, <3>1
  <2>21. Keeps(h, sz, g, n, U)
    BY <1>9, <2>19, <2>20, KeepsTwice
  <2>22. Keeps(h, sz, f, n, U)
    BY <2>18, <2>20, <2>21, KeepsTwice
  <2>23. Separate(C, n, V, NoBlock)
    <3> SUFFICES ASSUME NEW c \in C \ V, c + n[c] \in C \ V
                 PROVE  FALSE
      BY DEF Separate
    <3>1. c \in L \cup {rest} /\ c + n[c] \in L \cup {rest}
      BY <2>11
    <3>2. \A x \in L : x \in B \ U /\ x # bp /\ n[x] = sz[x]
      BY <2>8 DEF L
    <3>3. CASE c = rest
      <4>1. c + n[c] = bp + sz[bp]
        BY <2>1, <2>8, <3>3 DEF rest
      <4>2. bp + sz[bp] # rest
        BY <2>1
      <4>3. bp + sz[bp] \in B \ U
        BY <3>1, <3>2, <4>1, <4>2
      <4> QED
        BY <1>8, <4>3
    <3>4. CASE c # rest
      <4>1. c \in B \ U /\ n[c] = sz[c]
        BY <3>1, <3>2, <3>4
      <4>2. c + sz[c] \in B \cup {h.brk}
        BY <1>5, <4>1
      <4>3. c + sz[c] # rest
        BY <2>1, <2>2, <4>2
      <4>4. c + sz[c] \in B \ U
        BY <3>1, <3>2, <4>1, <4>3
      <4> QED
        BY <1>8, <4>1, <4>4
    <3> QED
      BY <3>3, <3>4
  <2>24. C # {}
    BY <2>12
  <2>25. Good(f, C, n, V)
    BY <2>11, <2>15, <2>23, <2>24 DEF Good
  <2>26. d = f
    BY <1>11 DEF f
  <2>27. n[bp] >= asize
    BY <2>8
  <2> QED
    BY <1>3, <2>22, <2>25, <2>26, <2>27 DEF V
<1> QED
  BY <1>10, <1>11
-----------------------------------------------------------------------------
(* A walk of N steps from a, each step by G.                               *)
Walk(S, a, G, N, f) ==
  /\ f \in [0 .. N -> S] /\ f[0] = a
  /\ \A n \in 1 .. N : f[n] = G[f[n - 1]]

(* There is a walk of any length.                                          *)
LEMMA WalkExists ==
  ASSUME NEW S, NEW a \in S, NEW G \in [S -> S]
  PROVE  \A N \in Nat : \E f : Walk(S, a, G, N, f)
<1> DEFINE Far == {N \in Nat : \E f : Walk(S, a, G, N, f)}
<1>1. 0 \in Far
  <2>1. Walk(S, a, G, 0, [n \in 0 .. 0 |-> a])
    BY DEF Walk
  <2> QED
    BY <2>1
<1>2. ASSUME NEW N \in Nat, N \in Far
      PROVE  N + 1 \in Far
  <2>1. PICK f : Walk(S, a, G, N, f)
    BY <1>2
  <2> DEFINE g == [n \in 0 .. N + 1 |-> IF n = N + 1 THEN G[f[N]] ELSE f[n]]
  <2>2. f \in [0 .. N -> S] /\ f[0] = a /\ N \in 0 .. N
        /\ \A n \in 1 .. N : f[n] = G[f[n - 1]]
    BY <2>1 DEF Walk
  <2>3. f[N] \in S /\ G[f[N]] \in S
    BY <2>2
  <2>4. g \in [0 .. N + 1 -> S]
    <3>1. \A n \in 0 .. N + 1 : n = N + 1 \/ n \in 0 .. N
      OBVIOUS
    <3> QED
      BY <2>2, <2>3, <3>1
  <2>5. g[0] = a
    <3>1. 0 \in 0 .. N + 1 /\ 0 # N + 1
      OBVIOUS
    <3> QED
      BY <2>2, <3>1
  <2>6. ASSUME NEW n \in 1 .. N + 1
        PROVE  g[n] = G[g[n - 1]]
    <3>1. n \in 0 .. N + 1 /\ n - 1 \in 0 .. N + 1 /\ n - 1 # N + 1
      OBVIOUS
    <3>2. g[n - 1] = f[n - 1]
      BY <3>1
    <3>3. CASE n = N + 1
      <4>1. n - 1 = N /\ g[n] = G[f[N]]
        BY <3>1, <3>3
      <4> QED
        BY <3>2, <4>1
    <3>4. CASE n # N + 1
      <4>1. n \in 1 .. N /\ g[n] = f[n]
        BY <3>1, <3>4
      <4> QED
        BY <2>2, <3>2, <4>1
    <3> QED
      BY <3>3, <3>4
  <2> HIDE DEF g
  <2>7. Walk(S, a, G, N + 1, g)
    BY <2>4, <2>5, <2>6 DEF Walk
  <2> QED
    BY <2>7
<1> HIDE DEF Far
<1>3. \A N \in Nat : N \in Far
  BY <1>1, <1>2, Counting
<1> QED
  BY <1>3 DEF Far

(* The bound on the number of blocks is a number.                          *)
LEMMA MostIsNat == MostBlocks \in Nat
  BY MallocAssumption DEF MostBlocks

(* The recursion of FreeList() is such a walk, along the SUCC links.       *)
LEMMA FreeListWalks ==
  ASSUME NEW h, NEW L, Chain(h, L)
  PROVE  LET S == L \cup {NoBlock}
             next == [x \in S |-> IF x = NoBlock THEN NoBlock ELSE SUCC(h, x)]
         IN  Walk(S, h.free_listp, next, MostBlocks, FreeList(h))
<1> DEFINE S == L \cup {NoBlock}
           next == [x \in S |-> IF x = NoBlock THEN NoBlock ELSE SUCC(h, x)]
           N == MostBlocks
           Rec(g) == g = [n \in 0 .. N |->
                            IF n = 0 THEN h.free_listp
                            ELSE IF g[n - 1] = NoBlock THEN NoBlock
                            ELSE SUCC(h, g[n - 1])]
<1>1. FreeList(h) = CHOOSE g : Rec(g)
  BY DEF FreeList
<1>2. PICK r : Links(h, L, r)
  BY DEF Chain
<1>3. h.free_listp \in S /\ \A x \in L : SUCC(h, x) \in S
  BY <1>2, LinkFacts DEF Links
<1>4. next \in [S -> S]
  BY <1>3
<1>5. N \in Nat
  BY MostIsNat
<1> HIDE DEF N
<1>6. PICK f : Walk(S, h.free_listp, next, N, f)
  <2> HIDE DEF S, next
  <2> QED
    BY <1>3, <1>4, <1>5, WalkExists
<1>7. /\ f \in [0 .. N -> S] /\ f[0] = h.free_listp
      /\ \A n \in 1 .. N : f[n] = next[f[n - 1]]
  BY <1>6 DEF Walk
<1>8. Rec(f)
  <2>1. ASSUME NEW n \in 0 .. N
        PROVE  f[n] = IF n = 0 THEN h.free_listp
                      ELSE IF f[n - 1] = NoBlock THEN NoBlock
                      ELSE SUCC(h, f[n - 1])
    <3>1. CASE n = 0
      BY <1>7, <3>1
    <3>2. CASE n # 0
      <4>1. n \in 1 .. N /\ n - 1 \in 0 .. N
        BY <1>5, <3>2
      <4>2. f[n - 1] \in S /\ f[n] = next[f[n - 1]]
        BY <1>7, <4>1
      <4> QED
        BY <3>2, <4>2
    <3> QED
      BY <3>1, <3>2
  <2>2. f = [n \in 0 .. N |-> f[n]]
    BY <1>7
  <2> QED
    BY <2>1, <2>2
<1> DEFINE l == CHOOSE g : Rec(g)
<1>9. Rec(l)
  BY <1>8
<1>10. \A n \in 0 .. N : l[n] = IF n = 0 THEN h.free_listp
                                ELSE IF l[n - 1] = NoBlock THEN NoBlock
                                ELSE SUCC(h, l[n - 1])
  <2> HIDE DEF l
  <2> QED
    BY <1>9
<1>11. l = [n \in 0 .. N |-> l[n]]
  <2>1. DOMAIN l = 0 .. N
    <3> HIDE DEF l
    <3> QED
      BY <1>9
  <2> HIDE DEF l
  <2> QED
    BY <1>9, <2>1
<1> HIDE DEF l
<1>12. \A n \in 0 .. N : l[n] = f[n]
  <2>1. l[0] = f[0]
    BY <1>5, <1>7, <1>10
  <2>2. ASSUME NEW n \in 1 .. N, l[n - 1] = f[n - 1]
        PROVE  l[n] = f[n]
    <3>1. n \in 0 .. N /\ n # 0
      OBVIOUS
    <3>2. f[n] = IF f[n - 1] = NoBlock THEN NoBlock ELSE SUCC(h, f[n - 1])
      <4>1. n - 1 \in 0 .. N
        BY <1>5
      <4>2. f[n - 1] \in S
        BY <1>7, <4>1
      <4> QED
        BY <1>7, <4>2
    <3> QED
      BY <1>10, <2>2, <3>1, <3>2
  <2> QED
    BY <1>5, <2>1, <2>2, SameSteps
<1>13. l = f
  BY <1>7, <1>11, <1>12
<1> QED
  BY <1>1, <1>6, <1>13 DEF l, N

(* What it visits are listed blocks.                                       *)
LEMMA FreeListReads ==
  ASSUME NEW h, NEW L, Chain(h, L)
  PROVE  LET list == FreeList(h)
         IN  /\ DOMAIN list = 0 .. MostBlocks
             /\ list[0] = h.free_listp
             /\ \A n \in 0 .. MostBlocks : list[n] \in L \cup {NoBlock}
             /\ \A n \in 1 .. MostBlocks :
                  list[n] = IF list[n - 1] = NoBlock THEN NoBlock
                            ELSE SUCC(h, list[n - 1])
<1> DEFINE S == L \cup {NoBlock}
           next == [x \in S |-> IF x = NoBlock THEN NoBlock ELSE SUCC(h, x)]
           list == FreeList(h)
<1>1. Walk(S, h.free_listp, next, MostBlocks, list)
  BY FreeListWalks
<1> HIDE DEF list
<1>2. /\ list \in [0 .. MostBlocks -> S] /\ list[0] = h.free_listp
      /\ \A n \in 1 .. MostBlocks : list[n] = next[list[n - 1]]
  BY <1>1 DEF Walk
<1>3. \A n \in 1 .. MostBlocks : n - 1 \in 0 .. MostBlocks
  BY MostIsNat
<1>4. \A n \in 1 .. MostBlocks :
        list[n] = IF list[n - 1] = NoBlock THEN NoBlock
                  ELSE SUCC(h, list[n - 1])
  BY <1>2, <1>3
<1> QED
  BY <1>2, <1>4 DEF list

(* find_fit() finds a free block that is large enough, or none.            *)
LEMMA FitGood ==
  ASSUME NEW h, NEW B, NEW sz, NEW U, Good(h, B, sz, U), NEW asize \in Nat,
         find_fit(h, asize) # NoBlock
  PROVE  find_fit(h, asize) \in B \ U /\ asize <= sz[find_fit(h, asize)]
<1> DEFINE list == FreeList(h)
           size(n) == GET_SIZE(h, HDRP(list[n]))
           fits == {n \in DOMAIN list : list[n] # NoBlock /\ asize <= size(n)}
           best(n) == \A m \in fits :
                         size(n) < size(m) \/ (size(n) = size(m) /\ n <= m)
<1>1. find_fit(h, asize) = IF fits = {} THEN NoBlock
                           ELSE list[CHOOSE n \in fits : best(n)]
  BY DEF find_fit
<1>2. Shape(h, B, sz, U) /\ Chain(h, B \ U)
  BY DEF Good
<1>3. /\ DOMAIN list = 0 .. MostBlocks
      /\ \A n \in 0 .. MostBlocks : list[n] \in (B \ U) \cup {NoBlock}
  BY <1>2, FreeListReads
<1> HIDE DEF list
<1>4. ASSUME NEW n \in fits
      PROVE  /\ list[n] \in B \ U /\ size(n) = sz[list[n]]
             /\ asize <= sz[list[n]] /\ size(n) \in Nat
  <2>1. list[n] \in B \ U
    BY <1>3
  <2>2. size(n) = sz[list[n]] /\ sz[list[n]] \in Nat
    BY <1>2, <2>1, BlockReads, ShapeFacts
  <2> QED
    BY <2>1, <2>2
<1>5. fits \subseteq 0 .. MostBlocks /\ fits \subseteq Nat
  BY <1>3, MostIsNat
<1>6. fits # {}
  BY <1>1
<1> DEFINE F == fits
           z == [n \in F |-> sz[list[n]]]
           Z == {z[n] : n \in F}
           M == {n \in F : z[n] = Min(Z)}
<1>7. \A n \in F : size(n) = z[n] /\ z[n] \in Nat
  BY <1>4
<1>8. Min(Z) \in Z /\ \A v \in Z : Min(Z) <= v
  <2>1. Z \subseteq Nat /\ Z # {}
    BY <1>6, <1>7
  <2> HIDE DEF Z
  <2> QED
    BY <2>1, MinOfNats
<1>9. Min(M) \in M /\ \A v \in M : Min(M) <= v
  <2>1. M \subseteq Nat /\ M # {}
    BY <1>5, <1>8
  <2> HIDE DEF M
  <2> QED
    BY <2>1, MinOfNats
<1>10. \E n \in F : \A m \in F : z[n] < z[m] \/ (z[n] = z[m] /\ n <= m)
  <2> DEFINE k == Min(M)
  <2>1. k \in F /\ z[k] = Min(Z)
    BY <1>9
  <2>2. ASSUME NEW m \in F
        PROVE  z[k] < z[m] \/ (z[k] = z[m] /\ k <= m)
    <3>1. Min(Z) <= z[m]
      BY <1>8
    <3>2. z[m] = Min(Z) => k <= m
      BY <1>9
    <3>3. z[m] \in Nat /\ z[k] \in Nat
      BY <1>7, <2>1
    <3> HIDE DEF k, z, F, M, Z
    <3> QED
      BY <2>1, <3>1, <3>2, <3>3
  <2> HIDE DEF k, z, F
  <2> QED
    BY <2>1, <2>2
<1>11. \E n \in fits : best(n)
  <2> HIDE DEF z, size
  <2> QED
    BY <1>7, <1>10
<1> DEFINE c == CHOOSE n \in fits : best(n)
<1>12. c \in fits
  <2> HIDE DEF fits, best
  <2> QED
    BY <1>11
<1>13. find_fit(h, asize) = list[c]
  BY <1>1, <1>6
<1> HIDE DEF c
<1> QED
  BY <1>4, <1>12, <1>13

(* mm_malloc() asks for room for the request and the two tags.             *)
LEMMA AdjustFacts ==
  ASSUME NEW size \in Nat
  PROVE  /\ Adjust(size) \in Nat /\ Adjust(size) % 2 = 0
         /\ Adjust(size) >= 4 /\ Adjust(size) >= size + 2
<1>1. CASE size <= 2
  BY <1>1 DEF Adjust
<1>2. CASE ~ (size <= 2)
  <2> DEFINE m == (size + 3) \div 2
  <2>1. m \in Nat /\ 2 * m >= size + 2
    OBVIOUS
  <2>2. (2 * m) % 2 = 0
    <3> HIDE DEF m
    <3> QED
      BY <2>1
  <2>3. Adjust(size) = 2 * m
    BY <1>2 DEF Adjust
  <2>4. size >= 3
    BY <1>2
  <2> HIDE DEF m
  <2> QED
    BY <2>1, <2>2, <2>3, <2>4
<1> QED
  BY <1>1, <1>2

(* The sizes and places of allocated blocks.                               *)
LEMMA GoodTypes ==
  ASSUME NEW h, NEW B, NEW sz, NEW U, Good(h, B, sz, U)
  PROVE  \A u \in U : /\ u \in Nat /\ u >= 4 /\ u % 2 = 0 /\ u \in Addr
                      /\ sz[u] \in Nat /\ sz[u] >= 4
                      /\ u + sz[u] <= h.brk /\ h.brk \in Nat
                      /\ h.brk <= MaxHeap
<1>1. Shape(h, B, sz, U)
  BY DEF Good
<1>2. U \subseteq B
  BY <1>1 DEF Shape
<1> QED
  BY <1>1, <1>2, ShapeFacts

(* mm_malloc() allocates a block that was not, or none.                    *)
Allocated(h, sz, U, size, d) ==
  \/ d.ret = NoBlock /\ \E C, n : Good(d, C, n, U) /\ Keeps(h, sz, d, n, U)
  \/ \E C, n : /\ d.ret \notin U /\ Good(d, C, n, U \cup {d.ret})
               /\ n[d.ret] >= size + 2
               /\ Keeps(h, sz, d, n, U)

(* A free block that is large enough, placed and returned, is the block    *)
(* asked for.                                                              *)
LEMMA PlaceReturned ==
  ASSUME NEW h, NEW B, NEW sz, NEW U, Good(h, B, sz, U), NEW bp \in B \ U,
         NEW size \in Nat, Adjust(size) <= sz[bp]
  PROVE  LET d == Return(place(h, bp, Adjust(size)), bp)
         IN  \E C, n : /\ d.ret = bp /\ Good(d, C, n, U \cup {bp})
                       /\ n[bp] >= size + 2
                       /\ Keeps(h, sz, d, n, U)
<1> DEFINE k == place(h, bp, Adjust(size))
           d == Return(k, bp)
           V == U \cup {bp}
<1>1. /\ Adjust(size) \in Nat /\ Adjust(size) % 2 = 0
      /\ Adjust(size) >= 4 /\ Adjust(size) >= size + 2
  BY AdjustFacts
<1>2. PICK C, n : /\ Good(k, C, n, V) /\ n[bp] >= Adjust(size)
                  /\ Keeps(h, sz, k, n, U)
  BY <1>1, PlaceGood
<1>3. /\ bp \in Int /\ sz[bp] \in Nat /\ \A u \in U : sz[u] \in Nat
  <2>1. Shape(h, B, sz, U) /\ U \subseteq B
    BY DEF Good, Shape
  <2> QED
    BY <2>1, ShapeFacts
<1> HIDE DEF k, V
<1>4. Shape(k, C, n, V) /\ Chain(k, C \ V) /\ C # {}
      /\ Separate(C, n, V, NoBlock)
  BY <1>2 DEF Good
<1>5. /\ Shape(d, C, n, V) /\ \A L : Chain(k, L) => Chain(d, L)
      /\ Within(k, d, n, {}) /\ d.ret = bp
  BY <1>3, <1>4, ReturnGood
<1> HIDE DEF d
<1>6. Good(d, C, n, V)
  BY <1>4, <1>5 DEF Good
<1>7. \A u \in U : u \in Nat /\ sz[u] \in Nat /\ n[u] \in Nat
  BY <1>2, <1>3, GoodTypes DEF V
<1>8. Keeps(k, n, d, n, U)
  <2>1. U \subseteq C /\ Within(k, d, n, C \ U)
    BY <1>4, <1>5 DEF Shape, Within, V
  <2> QED
    BY <1>4, <2>1, WithinKeeps
<1>9. Keeps(h, sz, d, n, U)
  BY <1>2, <1>7, <1>8, KeepsTwice
<1>10. n[bp] >= size + 2
  <2>1. n[bp] \in Nat
    BY <1>2, GoodTypes DEF V
  <2> QED
    BY <1>1, <1>2, <2>1
<1> QED
  BY <1>5, <1>6, <1>9, <1>10 DEF d, k, V

(* mm_malloc() on a good heap, whichever way it finds its block.           *)
LEMMA MallocGood ==
  ASSUME NEW h, NEW B, NEW sz, NEW U, Good(h, B, sz, U), NEW size \in Nat
  PROVE  Allocated(h, sz, U, size, mm_malloc(h, size))
<1> DEFINE asize == Adjust(size)
           bp == find_fit(h, asize)
           words == MaxOf(asize, Chunk)
           more == extend_heap(h, words)
           d == mm_malloc(h, size)
<1>1. /\ asize \in Nat /\ words \in Nat /\ words >= 4 /\ words >= asize
  BY AdjustFacts, MallocAssumption DEF MaxOf
<1>2. Shape(h, B, sz, U) /\ Chain(h, B \ U) /\ Separate(B, sz, U, NoBlock)
      /\ B # {}
  BY DEF Good
<1>3. \A u \in U : u \in Nat /\ sz[u] \in Nat
  BY GoodTypes
<1>4. U \subseteq B
  BY <1>2 DEF Shape
<1>5. CASE size = 0
  <2>1. d = Return(h, NoBlock)
    BY <1>5 DEF mm_malloc
  <2>2. /\ Shape(d, B, sz, U) /\ \A L : Chain(h, L) => Chain(d, L)
        /\ Within(h, d, sz, {}) /\ d.ret = NoBlock
    <3>1. NoBlock \in Int
      BY DEF NoBlock
    <3> QED
      BY <1>2, <2>1, <3>1, ReturnGood
  <2> HIDE DEF d
  <2>3. Good(d, B, sz, U)
    BY <1>2, <2>2 DEF Good
  <2>4. Within(h, d, sz, B \ U)
    BY <2>2 DEF Within
  <2>5. Keeps(h, sz, d, sz, U)
    BY <1>2, <1>4, <2>4, WithinKeeps
  <2> QED
    BY <2>2, <2>3, <2>5 DEF Allocated, d
<1>6. CASE size # 0 /\ bp # NoBlock
  <2>1. d = Return(place(h, bp, asize), bp)
    BY <1>6 DEF mm_malloc
  <2>2. bp \in B \ U /\ asize <= sz[bp]
    BY <1>1, <1>6, FitGood
  <2> HIDE DEF bp, d
  <2>3. PICK C, n : /\ d.ret = bp /\ Good(d, C, n, U \cup {bp})
                    /\ n[bp] >= size + 2
                    /\ Keeps(h, sz, d, n, U)
    BY <2>1, <2>2, PlaceReturned
  <2> QED
    BY <2>2, <2>3 DEF Allocated, d
<1>7. CASE size # 0 /\ bp = NoBlock
  <2>1. \/ /\ Shape(more, B, sz, U) /\ more.ret = NoBlock
           /\ Within(h, more, sz, {})
           /\ Chain(more, B \ U)
        \/ \E C, n : /\ Good(more, C, n, U) /\ more.ret \in C \ U
                     /\ n[more.ret] >= words
                     /\ Keeps(h, sz, more, n, U)
    BY <1>1, <1>2, ExtendGood
  <2>2. d = IF more.ret = NoBlock THEN more
            ELSE Return(place(more, more.ret, asize), more.ret)
    BY <1>7 DEF mm_malloc
  <2> HIDE DEF more, words, d
  <2>3. CASE /\ Shape(more, B, sz, U) /\ more.ret = NoBlock
             /\ Within(h, more, sz, {})
             /\ Chain(more, B \ U)
    <3>1. d = more
      BY <2>2, <2>3
    <3>2. Good(d, B, sz, U)
      BY <1>2, <2>3, <3>1 DEF Good
    <3>3. Within(h, d, sz, B \ U)
      BY <2>3, <3>1 DEF Within
    <3>4. Keeps(h, sz, d, sz, U)
      BY <1>2, <1>4, <3>3, WithinKeeps
    <3> QED
      BY <2>3, <3>1, <3>2, <3>4 DEF Allocated, d
  <2>4. ASSUME NEW C, NEW n, Good(more, C, n, U), more.ret \in C \ U,
               n[more.ret] >= words, Keeps(h, sz, more, n, U)
        PROVE  Allocated(h, sz, U, size, d)
    <3> DEFINE q == more.ret
    <3>1. Shape(more, C, n, U)
      BY <2>4 DEF Good
    <3>2. q \in C \ U
      BY <2>4
    <3>3. q # NoBlock /\ n[q] \in Nat
      BY <3>1, <3>2, ShapeFacts
    <3>4. d = Return(place(more, q, asize), q)
      BY <2>2, <3>3
    <3>5. asize <= n[q]
      BY <1>1, <2>4, <3>3
    <3> HIDE DEF q
    <3>6. PICK D, m : /\ d.ret = q /\ Good(d, D, m, U \cup {q})
                      /\ m[q] >= size + 2
                      /\ Keeps(more, n, d, m, U)
      BY <2>4, <3>2, <3>4, <3>5, PlaceReturned
    <3>7. \A u \in U : n[u] \in Nat /\ m[u] \in Nat
      BY <2>4, <3>6, GoodTypes
    <3>8. Keeps(h, sz, d, m, U)
      BY <1>3, <2>4, <3>6, <3>7, KeepsTwice
    <3> QED
      BY <3>2, <3>6, <3>8 DEF Allocated
  <2> QED
    BY <2>1, <2>3, <2>4 DEF d
<1> QED
  BY <1>5, <1>6, <1>7
-----------------------------------------------------------------------------
(* With nothing allocated there is one block, the head of the list.        *)
LEMMA OneFree ==
  ASSUME NEW h, NEW B, NEW sz, Good(h, B, sz, {})
  PROVE  B = {4} /\ h.free_listp = 4 /\ h.mem[4] = 0 /\ h.mem[5] = 0
<1>1. Shape(h, B, sz, {}) /\ Chain(h, B) /\ Separate(B, sz, {}, NoBlock)
      /\ B # {}
  <2>1. B \ {} = B
    OBVIOUS
  <2> QED
    BY <2>1 DEF Good
<1>2. \A c \in B : c \in Nat /\ c >= 4 /\ sz[c] \in Nat /\ c < h.brk
                   /\ h.brk \in Nat
  BY <1>1, ShapeFacts
<1>3. 4 \in B
  <2>1. 4 \in B \cup {h.brk}
    BY <1>1 DEF Shape
  <2>2. PICK c \in B : TRUE
    BY <1>1
  <2> QED
    BY <1>2, <2>1, <2>2
<1>4. ASSUME NEW b \in B, b # 4
      PROVE  FALSE
  <2>1. PICK c \in B : c + sz[c] = b
    BY <1>1, <1>4 DEF Shape, LeftOK
  <2>2. c = NoBlock \/ b = NoBlock
    BY <1>1, <2>1 DEF Separate
  <2> QED
    BY <1>2, <2>2 DEF NoBlock
<1>5. B = {4}
  BY <1>3, <1>4
<1>6. PICK r : Links(h, {4}, r)
  BY <1>1, <1>5 DEF Chain
<1>7. PRED(h, 4) = NoBlock /\ SUCC(h, 4) = NoBlock /\ h.free_listp = 4
  BY <1>6, LinkFacts
<1>8. 4 + 1 = 5
  OBVIOUS
<1> QED
  BY <1>5, <1>7, <1>8 DEF PRED, SUCC, NoBlock

(* coalesce() of that block changes nothing.                               *)
LEMMA CoalesceListed ==
  ASSUME NEW h, NEW bp, NEW sz, Shape(h, {bp}, sz, {}), h.free_listp = bp
  PROVE  coalesce(h, bp) = Return(h, bp)
<1> DEFINE next == NEXT_BLKP(h, bp)
           prev == PREV_BLKP(h, bp)
<1>1. bp \in Nat /\ sz[bp] \in Nat /\ sz[bp] >= 4
  BY ShapeFacts
<1>2. GET_ALLOC(h, HDRP(next)) # 0
  <2>1. next = bp + sz[bp] /\ (GET_ALLOC(h, HDRP(next)) = 0 <=> next \in {bp})
    BY RightReads
  <2> HIDE DEF next
  <2> QED
    BY <1>1, <2>1
<1>3. GET_ALLOC(h, FTRP(h, prev)) # 0
  <2>1. GET_ALLOC(h, FTRP(h, prev)) = 0 => prev = bp /\ prev + sz[prev] = bp
    BY LeftReads
  <2> HIDE DEF prev
  <2> QED
    BY <1>1, <2>1
<1>4. insert_free_block(h, bp) = h
  BY DEF insert_free_block
<1> QED
  BY <1>2, <1>3, <1>4 DEF coalesce

(* mm_init() sets the heap up, also when the memory and free_listp are     *)
(* those of the trace before: then free_listp is the block it makes.       *)
LEMMA InitGood ==
  ASSUME NEW h \in Heaps, h.brk = 0,
         \/ h.free_listp = NoBlock
         \/ h.free_listp = 4 /\ h.mem[4] = 0 /\ h.mem[5] = 0
  PROVE  LET d == mm_init(h)
         IN  d.ret = 4 /\ \E sz : Good(d, {4}, sz, {})
<1> DEFINE start == mem_sbrk(h, 4).ret
           m1 == [h.mem EXCEPT ![0] = 0, ![1] = 3, ![2] = 3, ![3] = 1]
           h1 == [h EXCEPT !.brk = @ + 4,
                           !.mem[start] = 0,
                           !.mem[start + 1] = PACK(2, 1),
                           !.mem[start + 2] = PACK(2, 1),
                           !.mem[start + 3] = PACK(0, 1)]
           h2 == extend_heap(h1, Chunk)
           h3 == extend_heap(h2, 4)
           h4 == coalesce(h3, h2.ret)
           d == [h4 EXCEPT !.free_listp = h4.ret]
<1>1. mm_init(h) = d
  BY DEF mm_init
<1>2. /\ MaxHeap \in Nat /\ Chunk \in Nat /\ Chunk >= 4
      /\ MaxHeap >= Chunk + 8
  BY MallocAssumption
<1>3. start = 0
  <2>1. ~ (h.brk + 4 > MaxHeap)
    BY <1>2
  <2>2. mem_sbrk(h, 4) = Return([h EXCEPT !.brk = @ + 4], h.brk)
    BY <2>1 DEF mem_sbrk
  <2>3. [h EXCEPT !.brk = @ + 4] \in Heaps
    BY <1>2 DEF Heaps
  <2> QED
    BY <2>2, <2>3, ReturnIs
<1>4. /\ h1.brk = 4 /\ h1.mem = m1 /\ h1.free_listp = h.free_listp
      /\ h1 \in Heaps
  <2>1. PACK(2, 1) = 3 /\ PACK(0, 1) = 1 /\ 0 + 1 = 1 /\ 0 + 2 = 2
        /\ 0 + 3 = 3 /\ 0 + 4 = 4
    BY DEF PACK
  <2> DEFINE g == [h EXCEPT !.brk = @ + 4, !.mem[0] = 0, !.mem[1] = 3,
                            !.mem[2] = 3, !.mem[3] = 1]
  <2>2. h1 = g
    <3> HIDE DEF start
    <3> QED
      BY <1>3, <2>1
  <2>3. /\ g.brk = h.brk + 4 /\ g.ret = h.ret
        /\ g.free_listp = h.free_listp /\ g.mem = m1
        /\ h.mem \in [Addr -> Int]
    BY DEF Heaps
  <2>4. m1 \in [Addr -> Int]
    <3>1. 0 \in Int /\ 3 \in Int /\ 1 \in Int
      OBVIOUS
    <3> QED
      BY <2>3, <3>1
  <2>5. g.brk = 4 /\ 4 \in 0 .. MaxHeap
    BY <1>2, <2>1, <2>3
  <2>6. g \in Heaps
    BY <2>4, <2>5 DEF Heaps
  <2> HIDE DEF h1, g, m1
  <2> QED
    BY <2>2, <2>3, <2>5, <2>6
<1>5. /\ h1.mem[1] = 3 /\ h1.mem[2] = 3 /\ h1.mem[3] = 1
      /\ h1.mem[4] = h.mem[4] /\ h1.mem[5] = h.mem[5]
  <2>1. 0 \in Addr /\ 1 \in Addr /\ 2 \in Addr /\ 3 \in Addr
        /\ 4 \in Addr /\ 5 \in Addr
    BY <1>2 DEF Addr
  <2>2. h.mem \in [Addr -> Int]
    BY DEF Heaps
  <2> HIDE DEF h1
  <2> QED
    BY <1>4, <2>1, <2>2
<1> HIDE DEF h1, start
<1> DEFINE z == [c \in {} |-> 0]
<1>6. Shape(h1, {}, z, {})
  <2>1. LeftOK({}, z, 4)
    BY DEF LeftOK
  <2>2. z \in [{} -> Nat] /\ 4 % 2 = 0 /\ 4 - 1 = 3
    OBVIOUS
  <2> HIDE DEF z
  <2> QED
    BY <1>4, <1>5, <2>1, <2>2 DEF Shape
<1> HIDE DEF z
<1> DEFINE size == Chunk + (Chunk % 2)
           n == Longer({}, z, 4, size)
<1>7. PICK e : /\ h2 = coalesce(e, 4)
               /\ Shape(e, {4}, n, {})
               /\ e.free_listp = h.free_listp
               /\ \A x \in Addr : \/ x < 4 - 1
                                  \/ 4 <= x /\ x < 4 + size - 2
                                  => e.mem[x] = h1.mem[x]
  <2>1. h1.brk + size <= MaxHeap
    BY <1>2, <1>4
  <2> DEFINE E == {}
  <2>2. \E f : /\ extend_heap(h1, Chunk) = coalesce(f, h1.brk)
               /\ Extended(h1, E, z, E, size, f)
    <3> HIDE DEF size
    <3>1. size = Chunk + (Chunk % 2)
      BY DEF size
    <3>2. Chunk \in Nat /\ Chunk >= 4
      BY <1>2
    <3>3. Shape(h1, E, z, E)
      BY <1>6
    <3> HIDE DEF E
    <3> QED
      BY <2>1, <3>1, <3>2, <3>3, ExtendIs
  <2>3. {} \cup {4} = {4}
    OBVIOUS
  <2>4. PICK f : /\ extend_heap(h1, Chunk) = coalesce(f, h1.brk)
                 /\ Shape(f, E \cup {h1.brk}, Longer(E, z, h1.brk, size), E)
                 /\ f.free_listp = h1.free_listp
                 /\ \A x \in Addr : \/ x < h1.brk - 1
                                    \/ h1.brk <= x /\ x < h1.brk + size - 2
                                    => f.mem[x] = h1.mem[x]
    BY <2>2 DEF Extended
  <2> QED
    BY <1>4, <2>3, <2>4
<1>8. size \in Nat /\ size >= 4
  BY <1>2, Rounded
<1> HIDE DEF n, size
<1>9. Separate({4}, n, {}, 4)
  BY DEF Separate
<1>10. \E C, m : Good(h2, C, m, {}) /\ h2.ret \in C
  <2>1. CASE h.free_listp = NoBlock
    <3>1. Links(e, {}, z)
      BY <1>7, <2>1 DEF Links, Apart, z
    <3>2. ({4} \ {}) \ {4} = {} /\ 4 \in {4} \ {}
      OBVIOUS
    <3>3. Chain(e, ({4} \ {}) \ {4})
      BY <3>1, <3>2 DEF Chain
    <3> QED
      BY <1>7, <1>9, <3>2, <3>3, CoalesceGood
  <2>2. CASE h.free_listp = 4 /\ h.mem[4] = 0 /\ h.mem[5] = 0
    <3>1. h2 = Return(e, 4)
      BY <1>7, <2>2, CoalesceListed
    <3> DEFINE r == [x \in {4} |-> 0]
    <3>2. PRED(e, 4) = NoBlock /\ SUCC(e, 4) = NoBlock
      <4>1. 4 \in Addr /\ 5 \in Addr /\ 4 + 1 = 5 /\ 4 < 4 + size - 2
            /\ 5 < 4 + size - 2
        BY <1>2, <1>8 DEF Addr
      <4>2. e.mem[4] = h1.mem[4] /\ e.mem[5] = h1.mem[5]
        BY <1>7, <4>1
      <4> QED
        BY <1>5, <2>2, <4>1, <4>2 DEF PRED, SUCC, NoBlock
    <3>3. LinkOK(e, {4}, r, 4)
      BY <1>7, <2>2, <3>2 DEF LinkOK
    <3>4. Apart({4})
      BY <1>7, BlocksApart
    <3>5. Links(e, {4}, r)
      BY <1>7, <2>2, <3>3, <3>4 DEF Links
    <3>6. Chain(e, {4})
      BY <3>5 DEF Chain
    <3>7. /\ Shape(h2, {4}, n, {}) /\ Chain(h2, {4}) /\ h2.ret = 4
      BY <1>7, <3>1, <3>6, ReturnGood
    <3>8. Separate({4}, n, {}, NoBlock)
      <4>1. n[4] \in Nat /\ n[4] >= 4
        BY <1>7, ShapeFacts
      <4>2. 4 + n[4] # 4
        BY <4>1
      <4> QED
        BY <4>2 DEF Separate
    <3>9. {4} \ {} = {4}
      OBVIOUS
    <3> QED
      BY <3>7, <3>8, <3>9 DEF Good
  <2> QED
    BY <2>1, <2>2
<1> HIDE DEF h2
<1>11. PICK C, m : Good(h2, C, m, {}) /\ h2.ret \in C
  BY <1>10
<1>12. h2.ret = 4
  BY <1>11, OneFree
<1>13. \E D, k : Good(h3, D, k, {})
  <2>1. Shape(h2, C, m, {}) /\ Chain(h2, C \ {}) /\ C # {}
        /\ Separate(C, m, {}, NoBlock)
    BY <1>11 DEF Good
  <2>2. \/ /\ Shape(h3, C, m, {}) /\ h3.ret = NoBlock
           /\ Within(h2, h3, m, {})
           /\ Chain(h3, C \ {})
        \/ \E D, k : /\ Good(h3, D, k, {}) /\ h3.ret \in D \ {}
                     /\ k[h3.ret] >= 4
                     /\ Keeps(h2, m, h3, k, {})
    BY <2>1, ExtendGood
  <2> HIDE DEF h3
  <2> QED
    BY <2>1, <2>2 DEF Good
<1> HIDE DEF h3
<1>14. PICK D, k : Good(h3, D, k, {})
  BY <1>13
<1>15. D = {4} /\ h3.free_listp = 4
  BY <1>14, OneFree
<1>16. Shape(h3, {4}, k, {}) /\ Chain(h3, {4} \ {})
       /\ Separate({4}, k, {}, NoBlock)
  BY <1>14, <1>15 DEF Good
<1>17. h4 = Return(h3, 4)
  BY <1>12, <1>15, <1>16, CoalesceListed
<1> HIDE DEF h4
<1>18. h3 \in Heaps /\ 4 \in Int
  BY <1>16 DEF Shape
<1>19. /\ h4 \in Heaps /\ h4.brk = h3.brk /\ h4.free_listp = h3.free_listp
       /\ h4.ret = 4 /\ h4.mem = h3.mem
  BY <1>17, <1>18, ReturnIs
<1>20. d = h4
  <2>1. d = [h4 EXCEPT !.free_listp = h4.free_listp]
    BY <1>15, <1>19
  <2> QED
    BY <1>19, <2>1 DEF Heaps
<1>21. Shape(h4, {4}, k, {}) /\ Chain(h4, {4} \ {})
  BY <1>16, <1>17, ReturnGood
<1>22. Good(h4, {4}, k, {})
  BY <1>16, <1>21 DEF Good
<1> QED
  BY <1>1, <1>19, <1>20, <1>22

-----------------------------------------------------------------------------
(* Writing into an allocated block harms nothing.                          *)
LEMMA WriteGood ==
  ASSUME NEW h, NEW B, NEW sz, NEW U, Good(h, B, sz, U), NEW u \in U,
         NEW m \in [Addr -> Int],
         \A a \in Addr : m[a] # h.mem[a] => u <= a /\ a <= u + sz[u] - 3,
         NEW d, d = [h EXCEPT !.mem = m]
  PROVE  /\ Good(d, B, sz, U) /\ d.mem = m /\ d.ret = h.ret
         /\ Keeps(h, sz, d, sz, U \ {u})
<1>1. Shape(h, B, sz, U) /\ h \in Heaps /\ U \subseteq B /\ u \in B
  BY DEF Good, Shape
<1>2. /\ d \in Heaps /\ d.mem = m /\ d.ret = h.ret /\ d.brk = h.brk
      /\ d.free_listp = h.free_listp
  BY <1>1 DEF Heaps
<1>3. Within(h, d, sz, {u})
  BY <1>2 DEF Within
<1>4. Within(h, d, sz, B)
  BY <1>1, <1>3 DEF Within
<1>5. Shape(d, B, sz, U)
  BY <1>1, <1>2, <1>4, ShapeFrame
<1>6. Keeps(h, sz, d, sz, B \ {u})
  <2>1. B \ (B \ {u}) = {u}
    BY <1>1
  <2>2. B \ {u} \subseteq B
    OBVIOUS
  <2> QED
    BY <1>1, <1>3, <2>1, <2>2, WithinKeeps
<1>7. Keeps(h, sz, d, sz, U \ {u})
  BY <1>1, <1>6 DEF Keeps
<1>8. Chain(d, B \ U)
  <2>1. PICK r : Links(h, B \ U, r)
    BY DEF Good, Chain
  <2>2. ASSUME NEW x \in B \ U
        PROVE  d.mem[x] = h.mem[x] /\ d.mem[x + 1] = h.mem[x + 1]
    <3>1. x \in Nat /\ x \in Addr /\ x + 1 \in Addr /\ sz[x] \in Nat
          /\ sz[x] >= 4
      BY <1>1, ShapeFacts
    <3>2. x \in B \ {u}
      OBVIOUS
    <3>3. x <= x /\ x <= x + sz[x] - 3 /\ x <= x + 1 /\ x + 1 <= x + sz[x] - 3
      BY <3>1
    <3> QED
      BY <1>6, <3>1, <3>2, <3>3 DEF Keeps
  <2>3. Links(d, B \ U, r)
    BY <1>2, <2>1, <2>2, LinksFrame
  <2> QED
    BY <2>3 DEF Chain
<1> QED
  BY <1>2, <1>5, <1>7, <1>8 DEF Good

(* Returning a value leaves a good heap good.                              *)
LEMMA GoodReturn ==
  ASSUME NEW h, NEW B, NEW sz, NEW U, Good(h, B, sz, U), NEW v \in Int
  PROVE  /\ Good(Return(h, v), B, sz, U)
         /\ Return(h, v).mem = h.mem /\ Return(h, v).ret = v
<1>1. Shape(h, B, sz, U) /\ h \in Heaps
  BY DEF Good, Shape
<1>2. Return(h, v).mem = h.mem /\ Return(h, v).ret = v
  BY <1>1, ReturnIs
<1>3. Shape(Return(h, v), B, sz, U) /\ Chain(Return(h, v), B \ U)
  <2>1. Chain(h, B \ U)
    BY DEF Good
  <2> QED
    BY <1>1, <2>1, ReturnGood
<1> QED
  BY <1>2, <1>3 DEF Good

(* mm_realloc() makes an allocated block of the free one behind it a part. *)
LEMMA GrowGood ==
  ASSUME NEW h, NEW B, NEW sz, NEW U, Good(h, B, sz, U), NEW bp \in U,
         NEW next, next = NEXT_BLKP(h, bp), next \in B \ U
  PROVE  LET d == Mark(remove_free_block(h, next), bp, sz[bp] + sz[next], 1)
         IN  \E C, n : /\ Good(d, C, n, U)
                       /\ n[bp] = sz[bp] + sz[next]
                       /\ Keeps(h, sz, d, n, U)
<1> DEFINE k == remove_free_block(h, next)
           e == next + sz[next]
           d == Mark(k, bp, sz[bp] + sz[next], 1)
           C == Outside(B, bp, e)
           n == Joined(B, sz, bp, e)
<1>1. Shape(h, B, sz, U) /\ h \in Heaps /\ U \subseteq B /\ bp \in B
  BY DEF Good, Shape
<1>0. next = bp + sz[bp]
  BY <1>1, BlockReads
<1>2. /\ Shape(k, B, sz, U) /\ Chain(k, (B \ U) \ {next})
      /\ Within(h, k, sz, B \ U)
  <2>1. Chain(h, B \ U) /\ B \ U \subseteq B \ U /\ TRUE \in BOOLEAN
    BY DEF Good
  <2> QED
    BY <1>1, <2>1, RemoveIf
<1>3. k.brk = h.brk /\ k \in Heaps
  BY <1>2 DEF Within, Shape
<1> HIDE DEF k
<1>4. \A c \in B : c \in Nat /\ c \in Addr /\ c + 1 \in Addr
                   /\ sz[c] \in Nat /\ sz[c] >= 4
                   /\ c + sz[c] \in B \cup {h.brk}
  BY <1>1, ShapeFacts
<1>5. /\ \A c \in B : c < bp => c + sz[c] <= bp
      /\ \A c \in B : bp < c => next <= c
      /\ \A c \in B : next < c => e <= c
      /\ \A c \in B : c < next => c + sz[c] <= next
  BY <1>0, <1>1, ShapeFacts
<1>6. e \in B \cup {k.brk} /\ e > bp /\ e - bp = sz[bp] + sz[next]
      /\ e \in Nat /\ next > bp /\ e > next /\ next \in Nat /\ bp \in Nat
      /\ sz[bp] \in Nat /\ sz[next] \in Nat /\ sz[next] >= 4 /\ sz[bp] >= 4
  BY <1>0, <1>1, <1>3, <1>4
<1>7. C = B \ {next}
  <2>1. \A c \in B : c <= bp \/ c >= e <=> c # next
    <3>1. \A c \in B : c # bp /\ c # next => c < bp \/ next < c
      <4>1. \A c \in B : c > bp => c >= next
        BY <1>4, <1>5, <1>6
      <4> QED
        BY <1>4, <1>6, <4>1
    <3>2. \A c \in B : next < c => c >= e
      BY <1>4, <1>5, <1>6
    <3>3. ~ (next <= bp) /\ ~ (next >= e)
      BY <1>6
    <3>4. ASSUME NEW c \in B
          PROVE  c <= bp \/ c >= e <=> c # next
      <4>1. c \in Nat
        BY <1>4
      <4>2. c < bp => c <= bp
        BY <1>6, <4>1
      <4>3. c = bp => c <= bp
        BY <1>6
      <4> QED
        BY <3>1, <3>2, <3>3, <4>2, <4>3
    <3> QED
      BY <3>4
  <2> HIDE DEF e
  <2> QED
    BY <2>1 DEF Outside
<1>8. U = {c \in C : IF c = bp THEN 1 = 1 ELSE c \in U}
  BY <1>1, <1>7
<1>9. Shape(d, C, n, U)
  <2>1. 1 \in {0, 1}
    OBVIOUS
  <2>2. Shape(Mark(k, bp, e - bp, 1), C, n, U)
    BY <1>1, <1>2, <1>6, <1>8, <2>1, RunShape
  <2> QED
    BY <1>6, <2>2
<1>10. /\ d.free_listp = k.free_listp
       /\ \A x \in Addr : x # bp - 1 /\ x # e - 2 => d.mem[x] = k.mem[x]
  <2>1. bp - 1 \in Addr /\ e - 2 \in Addr
    <3>1. bp - 1 \in Addr
      BY <1>1, ShapeFacts
    <3>2. next + sz[next] - 2 \in Addr
      <4>1. next \in B
        OBVIOUS
      <4> QED
        BY <1>1, <4>1, ShapeFacts
    <3>3. e = next + sz[next] /\ next \in Int /\ sz[next] \in Int
      BY <1>4
    <3>4. e - 2 = next + sz[next] - 2
      BY <3>3
    <3> QED
      BY <3>1, <3>2, <3>4
  <2>2. bp + (e - bp) - 2 = e - 2 /\ bp \in Int /\ (e - bp) \in Int
        /\ 1 \in {0, 1}
    BY <1>6
  <2> DEFINE g == Mark(k, bp, e - bp, 1)
  <2>3. g.free_listp = k.free_listp
        /\ \A x \in Addr : g.mem[x] = IF x = bp - 1 \/ x = e - 2
                                      THEN (e - bp) + 1 ELSE k.mem[x]
    BY <1>3, <2>1, <2>2, MarkIs
  <2>4. d = g
    BY <1>6
  <2> QED
    BY <2>3, <2>4
<1> HIDE DEF d
<1>11. ASSUME NEW c \in B, c # next, NEW a \in Addr, c <= a,
              a <= c + sz[c] - 3
       PROVE  d.mem[a] = k.mem[a]
  <2>1. c + sz[c] <= bp \/ c = bp \/ e <= c
    BY <1>1, <1>4, <1>5, <1>6, <1>11
  <2>2. a \in Nat /\ c \in Nat /\ sz[c] \in Nat
    BY <1>4 DEF Addr
  <2>3. a # bp - 1 /\ a # e - 2
    BY <1>6, <1>11, <2>1, <2>2
  <2> QED
    BY <1>10, <2>3
<1>12. Chain(d, C \ U)
  <2>1. PICK r : Links(k, (B \ U) \ {next}, r)
    BY <1>2 DEF Chain
  <2>2. ASSUME NEW x \in (B \ U) \ {next}
        PROVE  d.mem[x] = k.mem[x] /\ d.mem[x + 1] = k.mem[x + 1]
    <3>1. x \in Nat /\ x \in Addr /\ x + 1 \in Addr /\ sz[x] \in Nat
          /\ sz[x] >= 4
      BY <1>4
    <3>2. x <= x /\ x <= x + sz[x] - 3 /\ x <= x + 1 /\ x + 1 <= x + sz[x] - 3
      BY <3>1
    <3> QED
      BY <1>11, <3>1, <3>2
  <2>3. Links(d, (B \ U) \ {next}, r)
    BY <1>10, <2>1, <2>2, LinksFrame
  <2>4. (B \ U) \ {next} = C \ U
    BY <1>7
  <2> QED
    BY <2>3, <2>4 DEF Chain
<1>13. n[bp] = sz[bp] + sz[next]
       /\ \A c \in B : c # bp /\ c # next => n[c] = sz[c]
  <2>1. bp \in C
    BY <1>1, <1>6, <1>7
  <2>2. \A c \in C : n[c] = IF c = bp THEN e - bp ELSE sz[c]
    BY DEF Joined
  <2> QED
    BY <1>6, <1>7, <2>1, <2>2
<1> HIDE DEF n
<1>14. Separate(C, n, U, NoBlock)
  <2> SUFFICES ASSUME NEW c \in C \ U, c + n[c] \in C \ U
               PROVE  c = NoBlock \/ c + n[c] = NoBlock
    BY DEF Separate
  <2>1. c \in B \ U /\ n[c] = sz[c] /\ c + n[c] \in B \ U
    BY <1>7, <1>13
  <2> QED
    BY <2>1 DEF Good, Separate
<1>15. Keeps(h, sz, k, sz, U)
  BY <1>1, <1>2, WithinKeeps
<1>16. Keeps(h, sz, d, n, U)
  <2> SUFFICES ASSUME NEW u \in U
               PROVE  /\ n[u] >= sz[u]
                      /\ \A a \in Addr : u <= a /\ a <= u + sz[u] - 3 =>
                                           d.mem[a] = h.mem[a]
    BY DEF Keeps
  <2>1. u \in B /\ u # next
    BY <1>1
  <2>2. n[u] >= sz[u]
    BY <1>4, <1>6, <1>13, <2>1
  <2> QED
    BY <1>11, <1>15, <2>1, <2>2 DEF Keeps
<1>17. C # {}
  BY <1>1, <1>6, <1>7
<1> HIDE DEF C
<1> QED
  BY <1>9, <1>12, <1>13, <1>14, <1>16, <1>17 DEF Good, d, k

(* memcpy() of words of an allocated block into another.                   *)
LEMMA CopyGood ==
  ASSUME NEW h, NEW B, NEW sz, NEW U, Good(h, B, sz, U),
         NEW x \in U, NEW y \in U, NEW words \in Nat,
         words + 2 <= sz[x], words + 2 <= sz[y]
  PROVE  LET d == memcpy(h, x, y, words)
         IN  /\ Good(d, B, sz, U) /\ d.ret = h.ret
             /\ Keeps(h, sz, d, sz, U \ {x})
             /\ \A k \in Nat : k < words => d.mem[x + k] = h.mem[y + k]
<1> DEFINE m == [a \in Addr |-> IF a \in x .. (x + words - 1)
                                THEN h.mem[y + (a - x)] ELSE h.mem[a]]
           d == memcpy(h, x, y, words)
<1>1. /\ x \in Nat /\ x >= 4 /\ sz[x] \in Nat /\ x + sz[x] <= h.brk
      /\ y \in Nat /\ y >= 4 /\ sz[y] \in Nat /\ y + sz[y] <= h.brk
      /\ h.brk \in Nat /\ h.brk <= MaxHeap /\ MaxHeap \in Nat
  BY GoodTypes, MallocAssumption
<1>2. h.mem \in [Addr -> Int]
  BY DEF Good, Shape, Heaps
<1>3. d = [h EXCEPT !.mem = m]
  BY DEF memcpy
<1>4. \A k \in Nat : k < words =>
        x + k \in Addr /\ y + k \in Addr /\ x + k \in x .. (x + words - 1)
        /\ (x + k) - x = k
  BY <1>1 DEF Addr
<1>5. \A a \in x .. (x + words - 1) : a - x \in Nat /\ a - x < words
  BY <1>1
<1>6. m \in [Addr -> Int]
  <2>1. \A a \in x .. (x + words - 1) : y + (a - x) \in Addr
    BY <1>4, <1>5
  <2> QED
    BY <1>2, <2>1
<1>7. \A a \in Addr : m[a] # h.mem[a] => x <= a /\ a <= x + sz[x] - 3
  <2>1. \A a \in Addr : m[a] # h.mem[a] => a \in x .. (x + words - 1)
    OBVIOUS
  <2>2. \A a \in x .. (x + words - 1) : x <= a /\ a <= x + sz[x] - 3
    BY <1>1
  <2> HIDE DEF m
  <2> QED
    BY <2>1, <2>2
<1>8. \A k \in Nat : k < words => m[x + k] = h.mem[y + k]
  BY <1>4
<1> HIDE DEF m, d
<1>9. /\ Good(d, B, sz, U) /\ d.mem = m /\ d.ret = h.ret
      /\ Keeps(h, sz, d, sz, U \ {x})
  BY <1>3, <1>6, <1>7, WriteGood
<1> QED
  BY <1>8, <1>9 DEF d

(* The smaller of two numbers is one of them.                              *)
LEMMA MinFacts ==
  ASSUME NEW x \in Int, NEW y \in Int
  PROVE  /\ MinOf(x, y) \in Int /\ MinOf(x, y) <= x /\ MinOf(x, y) <= y
         /\ MinOf(x, y) = x \/ MinOf(x, y) = y
  BY DEF MinOf

(* mm_realloc() moves what does not fit: a new block, a copy, and the old  *)
(* block is free.                                                          *)
Moved(h, sz, U, bp, size, words, x, d) ==
  /\ d.ret = x
  /\ \E D, k : /\ Good(d, D, k, (U \ {bp}) \cup {x})
               /\ k[x] >= size + 2
               /\ Keeps(h, sz, d, k, U \ {bp})
  /\ \A k \in Nat : k < words => d.mem[x + k] = h.mem[bp + k]

(* The move of mm_realloc(), from the heap its mm_malloc() left.           *)
LEMMA MoveGood ==
  ASSUME NEW h, NEW B, NEW sz, NEW U, Good(h, B, sz, U), NEW bp \in U,
         NEW size \in Nat, NEW words \in Nat, words + 2 <= sz[bp],
         words <= size,
         NEW m, NEW C, NEW n, NEW x, x \notin U, Good(m, C, n, U \cup {x}),
         n[x] >= size + 2, Keeps(h, sz, m, n, U)
  PROVE  Moved(h, sz, U, bp, size, words, x,
               Return(mm_free(memcpy(m, x, bp, words), bp), x))
<1> DEFINE c == memcpy(m, x, bp, words)
           f == mm_free(c, bp)
           d == Return(f, x)
           V == U \cup {x}
           W == U \ {bp}
<1>1. Good(m, C, n, V)
  OBVIOUS
<1>2. \A u \in V : u \in Nat /\ n[u] \in Nat /\ u \in Addr
                   /\ u + n[u] <= MaxHeap
  <2> HIDE DEF V
  <2>1. \A u \in V : /\ u \in Nat /\ n[u] \in Nat /\ u \in Addr
                     /\ u + n[u] <= m.brk /\ m.brk \in Nat
                     /\ m.brk <= MaxHeap
    BY <1>1, GoodTypes
  <2> QED
    BY <2>1, MallocAssumption
<1>3. \A u \in U : u \in Nat /\ sz[u] \in Nat /\ sz[u] >= 4 /\ n[u] >= sz[u]
  <2>1. \A u \in U : u \in Nat /\ sz[u] \in Nat /\ sz[u] >= 4
    BY GoodTypes
  <2> QED
    BY <1>1, <2>1 DEF Keeps
<1>4. /\ words \in Nat /\ words + 2 <= sz[bp] /\ words + 2 <= n[bp]
      /\ words + 2 <= n[x] /\ words <= size
  <2>1. sz[bp] \in Nat /\ sz[bp] >= 4 /\ n[bp] >= sz[bp] /\ n[bp] \in Nat
        /\ n[x] \in Nat /\ n[x] >= size + 2
    BY <1>1, <1>2, <1>3
  <2> QED
    BY <2>1
<1>5. /\ Good(c, C, n, V) /\ Keeps(m, n, c, n, V \ {x})
      /\ \A k \in Nat : k < words => c.mem[x + k] = m.mem[bp + k]
  <2>1. x \in V
    OBVIOUS
  <2>2. bp \in V
    OBVIOUS
  <2>3. Good(m, C, n, V)
    BY <1>1
  <2>4. words + 2 <= n[x]
    BY <1>4
  <2>5. words + 2 <= n[bp]
    BY <1>4
  <2> HIDE DEF V, c
  <2>6. Good(c, C, n, V)
    BY <2>1, <2>2, <2>3, <2>4, <2>5, CopyGood DEF c
  <2>7. Keeps(m, n, c, n, V \ {x})
    BY <2>1, <2>2, <2>3, <2>4, <2>5, CopyGood DEF c
  <2>8. \A k \in Nat : k < words => c.mem[x + k] = m.mem[bp + k]
    BY <2>1, <2>2, <2>3, <2>4, <2>5, CopyGood DEF c
  <2> QED
    BY <2>6, <2>7, <2>8
<1> HIDE DEF c
<1>6. PICK D, k : /\ Good(f, D, k, V \ {bp}) /\ Keeps(c, n, f, k, V \ {bp})
  <2>1. bp \in V
    OBVIOUS
  <2> HIDE DEF V, f
  <2> QED
    BY <1>5, <2>1, FreeGood DEF f
<1> HIDE DEF f
<1>7. /\ Good(d, D, k, V \ {bp}) /\ d.mem = f.mem /\ d.ret = x
  <2>0. x \in V
    OBVIOUS
  <2>1. x \in Int
    BY <1>2, <2>0
  <2> HIDE DEF V
  <2> QED
    BY <1>6, <2>1, GoodReturn
<1> HIDE DEF d
<1>8. V \ {bp} = W \cup {x} /\ x # bp
  BY <1>1
<1>9. \A u \in V \ {bp} : k[u] \in Nat
  <2> HIDE DEF V
  <2> QED
    BY <1>6, GoodTypes
<1>10. Keeps(h, sz, d, k, W)
  <2>1. Keeps(h, sz, m, n, W)
    BY <1>1 DEF Keeps
  <2>2. Keeps(m, n, c, n, W)
    BY <1>1, <1>5 DEF Keeps
  <2>3. Keeps(c, n, f, k, W)
    BY <1>1, <1>6 DEF Keeps
  <2>4. \A u \in W : u \in Nat /\ sz[u] \in Nat /\ n[u] \in Nat /\ k[u] \in Nat
    BY <1>2, <1>3, <1>8, <1>9
  <2> HIDE DEF W
  <2>5. Keeps(h, sz, c, n, W)
    BY <2>1, <2>2, <2>4, KeepsTwice
  <2>6. Keeps(h, sz, f, k, W)
    BY <2>3, <2>4, <2>5, KeepsTwice
  <2> QED
    BY <1>7, <2>6 DEF Keeps
<1>11. k[x] >= size + 2
  <2>1. k[x] >= n[x] /\ k[x] \in Nat /\ n[x] \in Nat
    BY <1>2, <1>6, <1>8, <1>9 DEF Keeps
  <2> QED
    BY <1>1, <2>1
<1>12. ASSUME NEW j \in Nat, j < words
       PROVE  d.mem[x + j] = h.mem[bp + j]
  <2>1. /\ n[x] \in Nat /\ x \in Nat /\ x + n[x] <= MaxHeap
        /\ n[bp] \in Nat /\ bp \in Nat /\ bp + n[bp] <= MaxHeap
        /\ sz[bp] \in Nat
    BY <1>2, <1>3
  <2>2. /\ x + j \in Addr /\ x <= x + j /\ x + j <= x + n[x] - 3
        /\ bp + j \in Addr /\ bp <= bp + j /\ bp + j <= bp + sz[bp] - 3
    BY <1>4, <1>12, <2>1, MallocAssumption DEF Addr
  <2>3. f.mem[x + j] = c.mem[x + j]
    BY <1>6, <1>8, <2>2 DEF Keeps
  <2>4. m.mem[bp + j] = h.mem[bp + j]
    BY <1>1, <2>2 DEF Keeps
  <2> QED
    BY <1>5, <1>7, <1>12, <2>3, <2>4
<1>13. Moved(h, sz, U, bp, size, words, x, d)
  BY <1>7, <1>8, <1>10, <1>11, <1>12 DEF Moved
<1> QED
  BY <1>13 DEF d, f, c

(* mm_realloc() of a block: it is freed, it stays as it is, when there is  *)
(* no memory, or there is a block, in its place or elsewhere, that has its *)
(* words.                                                                  *)
Reallocated(h, sz, U, bp, size, d) ==
  \/ /\ size = 0 /\ d.ret = NoBlock
     /\ \E C, n : Good(d, C, n, U \ {bp}) /\ Keeps(h, sz, d, n, U \ {bp})
  \/ /\ size # 0 /\ d.ret = NoBlock
     /\ \E C, n : Good(d, C, n, U) /\ Keeps(h, sz, d, n, U)
  \/ /\ size # 0 /\ d.ret \notin U \ {bp}
     /\ \E C, n : /\ Good(d, C, n, (U \ {bp}) \cup {d.ret})
                  /\ n[d.ret] >= size + 2
                  /\ Keeps(h, sz, d, n, U \ {bp})
     /\ \A k \in Nat : k < sz[bp] - 2 /\ k < size =>
                         d.mem[d.ret + k] = h.mem[bp + k]

(* mm_realloc() on a good heap, whichever way it goes.                     *)
LEMMA ReallocGood ==
  ASSUME NEW h, NEW B, NEW sz, NEW U, Good(h, B, sz, U), NEW bp \in U,
         NEW size \in Nat
  PROVE  Reallocated(h, sz, U, bp, size, mm_realloc(h, bp, size))
<1> DEFINE old == sz[bp]
           next == NEXT_BLKP(h, bp)
           words == MinOf(old - 2, size)
           d == mm_realloc(h, bp, size)
<1>1. /\ Shape(h, B, sz, U) /\ U \subseteq B /\ bp \in B
      /\ bp \in Nat /\ bp >= 4 /\ bp \in Addr
      /\ old \in Nat /\ old >= 4 /\ bp + old <= h.brk
      /\ h.brk \in Nat /\ h.brk <= MaxHeap /\ MaxHeap \in Nat
  BY GoodTypes, MallocAssumption DEF Good, Shape
<1>2. /\ GET_SIZE(h, HDRP(bp)) = old /\ next = bp + old
      /\ GET_ALLOC(h, HDRP(next)) = 0 <=> next \in B \ U
      /\ next \in B => GET_SIZE(h, HDRP(next)) = sz[next]
  BY <1>1, BlockReads, RightReads
<1>3. Adjust(size) \in Nat /\ Adjust(size) >= size + 2
  BY AdjustFacts
<1>4. /\ words \in Nat /\ words + 2 <= old /\ words <= size
      /\ \A k \in Nat : k < old - 2 /\ k < size => k < words
  <2>1. old - 2 \in Int /\ size \in Int
    BY <1>1
  <2>2. words \in Int /\ words <= old - 2 /\ words <= size
        /\ (words = old - 2 \/ words = size)
    BY <2>1, MinFacts
  <2> QED
    BY <1>1, <2>2
<1>5. \A k \in Nat : k < words =>
        bp + k \in Addr /\ bp <= bp + k /\ bp + k <= bp + old - 3
  BY <1>1, <1>4 DEF Addr
<1>6. (U \ {bp}) \cup {bp} = U
  OBVIOUS
<1> HIDE DEF next, words, old
<1>7. CASE size = 0
  <2>1. d = Return(mm_free(h, bp), NoBlock)
    BY <1>7 DEF mm_realloc
  <2>2. PICK C, n : /\ Good(mm_free(h, bp), C, n, U \ {bp})
                    /\ Keeps(h, sz, mm_free(h, bp), n, U \ {bp})
    BY FreeGood
  <2>3. NoBlock \in Int
    BY DEF NoBlock
  <2>4. /\ Good(d, C, n, U \ {bp}) /\ d.ret = NoBlock
        /\ d.mem = mm_free(h, bp).mem
    BY <2>1, <2>2, <2>3, GoodReturn
  <2>5. Keeps(h, sz, d, n, U \ {bp})
    BY <2>2, <2>4 DEF Keeps
  <2> QED
    BY <1>7, <2>4, <2>5 DEF Reallocated
<1>8. CASE size # 0 /\ Adjust(size) <= old
  <2>1. d = Return(h, bp)
    BY <1>2, <1>8 DEF mm_realloc
  <2>2. bp \in Int
    BY <1>1
  <2>3. Good(d, B, sz, U) /\ d.ret = bp /\ d.mem = h.mem
    BY <2>1, <2>2, GoodReturn
  <2> HIDE DEF d
  <2>4. Keeps(h, sz, d, sz, U \ {bp})
    <3>1. \A u \in U : sz[u] \in Nat
      BY GoodTypes
    <3> QED
      BY <2>3, <3>1 DEF Keeps
  <2>5. sz[bp] >= size + 2
    BY <1>1, <1>3, <1>8 DEF old
  <2>6. d.ret \notin U \ {bp} /\ (U \ {bp}) \cup {d.ret} = U
    BY <2>3
  <2>7. \A k \in Nat : d.mem[d.ret + k] = h.mem[bp + k]
    BY <2>3
  <2>8. size # 0
    BY <1>8
  <2>9. Reallocated(h, sz, U, bp, size, d)
    BY <2>3, <2>4, <2>5, <2>6, <2>7, <2>8 DEF Reallocated
  <2> QED
    BY <2>9 DEF d
<1>9. CASE /\ size # 0 /\ ~ (Adjust(size) <= old)
           /\ next \in B \ U /\ old + sz[next] >= Adjust(size)
  <2> DEFINE k == Mark(remove_free_block(h, next), bp, old + sz[next], 1)
  <2>1. d = Return(k, bp)
    BY <1>2, <1>9 DEF mm_realloc, next
  <2>2. PICK C, n : /\ Good(k, C, n, U) /\ n[bp] = old + sz[next]
                    /\ Keeps(h, sz, k, n, U)
    BY <1>9, GrowGood DEF next, old
  <2> HIDE DEF k
  <2>3. bp \in Int
    BY <1>1
  <2>4. Good(d, C, n, U) /\ d.ret = bp /\ d.mem = k.mem
    BY <2>1, <2>2, <2>3, GoodReturn
  <2> HIDE DEF d
  <2>5. Keeps(h, sz, d, n, U)
    BY <2>2, <2>4 DEF Keeps
  <2>6. n[bp] >= size + 2
    <3>1. n[bp] \in Nat
      BY <2>2, GoodTypes
    <3> QED
      BY <1>3, <1>9, <2>2, <3>1
  <2>7. d.ret \notin U \ {bp} /\ (U \ {bp}) \cup {d.ret} = U
    BY <2>4
  <2>8. \A j \in Nat : j < sz[bp] - 2 /\ j < size =>
                          d.mem[d.ret + j] = h.mem[bp + j]
    BY <1>4, <1>5, <2>4, <2>5 DEF Keeps, old
  <2>9. Keeps(h, sz, d, n, U \ {bp})
    BY <2>5 DEF Keeps
  <2>10. n[d.ret] >= size + 2 /\ Good(d, C, n, (U \ {bp}) \cup {d.ret})
    BY <2>4, <2>6, <2>7
  <2>11. size # 0
    BY <1>9
  <2>12. Reallocated(h, sz, U, bp, size, d)
    BY <2>7, <2>8, <2>9, <2>10, <2>11 DEF Reallocated
  <2> QED
    BY <2>12 DEF d
<1>10. CASE /\ size # 0 /\ ~ (Adjust(size) <= old)
            /\ ~ (next \in B \ U /\ old + sz[next] >= Adjust(size))
  <2> DEFINE m == mm_malloc(h, size)
             x == m.ret
             copied == memcpy(m, x, bp, words)
  <2>1. d = IF x = NoBlock THEN m ELSE Return(mm_free(copied, bp), x)
    BY <1>2, <1>10 DEF mm_realloc, next, words, old
  <2>2. Allocated(h, sz, U, size, m)
    BY MallocGood
  <2> HIDE DEF m
  <2>3. CASE x = NoBlock /\ \E C, n : Good(m, C, n, U) /\ Keeps(h, sz, m, n, U)
    BY <1>10, <2>1, <2>3 DEF Reallocated
  <2>4. CASE \E C, n : /\ x \notin U /\ Good(m, C, n, U \cup {x})
                       /\ n[x] >= size + 2
                       /\ Keeps(h, sz, m, n, U)
    <3> HIDE DEF x
    <3>1. PICK C, n : /\ x \notin U /\ Good(m, C, n, U \cup {x})
                      /\ n[x] >= size + 2
                      /\ Keeps(h, sz, m, n, U)
      BY <2>4
    <3>2. x # NoBlock
      <4>1. x \in U \cup {x}
        OBVIOUS
      <4>2. x >= 4
        BY <3>1, <4>1, GoodTypes
      <4> QED
        BY <4>2 DEF NoBlock
    <3>3. d = Return(mm_free(copied, bp), x)
      BY <2>1, <3>2
    <3>4. words + 2 <= sz[bp]
      BY <1>4 DEF old
    <3>5. words \in Nat
      BY <1>4
    <3>6. words <= size
      BY <1>4
    <3>7. x \notin U
      BY <3>1
    <3>8. Good(m, C, n, U \cup {x})
      BY <3>1
    <3>9. n[x] >= size + 2
      BY <3>1
    <3>10. Keeps(h, sz, m, n, U)
      BY <3>1
    <3> DEFINE e == Return(mm_free(memcpy(m, x, bp, words), bp), x)
    <3>11. Moved(h, sz, U, bp, size, words, x, e)
      BY <3>4, <3>5, <3>6, <3>7, <3>8, <3>9, <3>10, MoveGood
    <3> HIDE DEF e
    <3>12. \A k \in Nat : k < sz[bp] - 2 /\ k < size =>
                            e.mem[e.ret + k] = h.mem[bp + k]
      BY <1>4, <3>11 DEF old, Moved
    <3>13. size # 0
      BY <1>10
    <3>14. Reallocated(h, sz, U, bp, size, e)
      BY <3>7, <3>11, <3>12, <3>13 DEF Reallocated, Moved
    <3> QED
      BY <3>3, <3>14 DEF e
  <2> QED
    BY <2>2, <2>3, <2>4 DEF Allocated
<1> QED
  BY <1>7, <1>8, <1>9, <1>10

-----------------------------------------------------------------------------
(* What the driver wrote and holds, in the block at b of n words.          *)
Wrote(h, i, b, n) ==
  \A a \in Addr : b <= a /\ a < b + n => h.mem[a] = Tag(i)

(* The allocated blocks are those the driver holds, each once, and large   *)
(* enough; and each has what the driver wrote.                             *)
Held(h, l, sz, U) ==
  /\ \A i \in Ids : l[i] # Absent =>
       /\ l[i].bp \in U /\ l[i].size \in Nat
       /\ l[i].size + 2 <= sz[l[i].bp]
       /\ Wrote(h, i, l[i].bp, l[i].size)
  /\ \A i, j \in Ids :
       l[i] # Absent /\ l[j] # Absent /\ l[i].bp = l[j].bp => i = j
  /\ \A u \in U : \E i \in Ids : l[i] # Absent /\ l[i].bp = u

(* A payload that is kept is still the trace's.                            *)
LEMMA WroteKeeps ==
  ASSUME NEW h, NEW sz, NEW d, NEW n, NEW U, Keeps(h, sz, d, n, U),
         NEW u \in U, NEW i, NEW k \in Nat, k + 2 <= sz[u], Wrote(h, i, u, k),
         u \in Nat, sz[u] \in Nat, n[u] \in Nat
  PROVE  Wrote(d, i, u, k) /\ k + 2 <= n[u]
<1>1. n[u] >= sz[u]
  BY DEF Keeps
<1>2. ASSUME NEW a \in Addr, u <= a, a < u + k
      PROVE  d.mem[a] = Tag(i)
  <2>1. a \in Nat
    BY DEF Addr
  <2>2. a <= u + sz[u] - 3
    BY <1>2, <2>1
  <2>3. d.mem[a] = h.mem[a]
    BY <1>2, <2>2 DEF Keeps
  <2>4. h.mem[a] = Tag(i)
    BY <1>2 DEF Wrote
  <2> QED
    BY <2>3, <2>4
<1> QED
  BY <1>1, <1>2 DEF Wrote

(* The driver gives up a block, and no other changes.                      *)
LEMMA HeldFree ==
  ASSUME NEW h, NEW l, NEW sz, NEW U, Held(h, l, sz, U), DOMAIN l = Ids,
         NEW i \in Ids, l[i] # Absent, NEW V, V = U \ {l[i].bp},
         NEW d, NEW n, Keeps(h, sz, d, n, V),
         \A u \in V : u \in Nat /\ sz[u] \in Nat /\ n[u] \in Nat
  PROVE  Held(d, [l EXCEPT ![i] = Absent], n, V)
<1> DEFINE m == [l EXCEPT ![i] = Absent]
<1>1. m[i] = Absent /\ \A j \in Ids : j # i => m[j] = l[j]
  OBVIOUS
<1> HIDE DEF m
<1>2. ASSUME NEW j \in Ids, m[j] # Absent
      PROVE  /\ m[j].bp \in V /\ m[j].size \in Nat
             /\ m[j].size + 2 <= n[m[j].bp]
             /\ Wrote(d, j, m[j].bp, m[j].size)
  <2> DEFINE b == l[j].bp
             k == l[j].size
  <2>1. m[j] = l[j] /\ j # i /\ l[j] # Absent
    BY <1>1, <1>2
  <2>2. /\ b \in U /\ k \in Nat /\ k + 2 <= sz[b] /\ Wrote(h, j, b, k)
    BY <2>1 DEF Held
  <2>3. b \in V
    BY <2>1, <2>2 DEF Held
  <2>4. b \in Nat /\ sz[b] \in Nat /\ n[b] \in Nat
    BY <2>3
  <2> HIDE DEF b, k
  <2>5. Wrote(d, j, b, k) /\ k + 2 <= n[b]
    BY <2>2, <2>3, <2>4, WroteKeeps
  <2> QED
    BY <2>1, <2>2, <2>3, <2>5 DEF b, k
<1>3. \A j, k \in Ids :
        m[j] # Absent /\ m[k] # Absent /\ m[j].bp = m[k].bp => j = k
  BY <1>1 DEF Held
<1>4. \A u \in V : \E j \in Ids : m[j] # Absent /\ m[j].bp = u
  <2> SUFFICES ASSUME NEW u \in V
               PROVE  \E j \in Ids : m[j] # Absent /\ m[j].bp = u
    OBVIOUS
  <2>1. PICK j \in Ids : l[j] # Absent /\ l[j].bp = u
    BY DEF Held
  <2>2. j # i
    BY <2>1
  <2> QED
    BY <1>1, <2>1, <2>2
<1> QED
  BY <1>2, <1>3, <1>4 DEF Held, m

(* Nothing the driver holds changes.                                       *)
LEMMA HeldKeeps ==
  ASSUME NEW h, NEW l, NEW sz, NEW U, Held(h, l, sz, U),
         NEW d, NEW n, Keeps(h, sz, d, n, U),
         \A u \in U : u \in Nat /\ sz[u] \in Nat /\ n[u] \in Nat
  PROVE  Held(d, l, n, U)
<1>1. ASSUME NEW j \in Ids, l[j] # Absent
      PROVE  /\ l[j].bp \in U /\ l[j].size \in Nat
             /\ l[j].size + 2 <= n[l[j].bp]
             /\ Wrote(d, j, l[j].bp, l[j].size)
  <2> DEFINE b == l[j].bp
             k == l[j].size
  <2>1. /\ b \in U /\ k \in Nat /\ k + 2 <= sz[b] /\ Wrote(h, j, b, k)
    BY <1>1 DEF Held
  <2>2. b \in Nat /\ sz[b] \in Nat /\ n[b] \in Nat
    BY <2>1
  <2> HIDE DEF b, k
  <2>3. Wrote(d, j, b, k) /\ k + 2 <= n[b]
    BY <2>1, <2>2, WroteKeeps
  <2> QED
    BY <2>1, <2>3 DEF b, k
<1> QED
  BY <1>1 DEF Held

(* The driver gets a block that was not allocated, and fills it.           *)
LEMMA HeldMake ==
  ASSUME NEW h, NEW l, NEW sz, NEW U, Held(h, l, sz, U), DOMAIN l = Ids,
         NEW i \in Ids, l[i] = Absent,
         NEW d, NEW n, Keeps(h, sz, d, n, U),
         \A u \in U : u \in Nat /\ sz[u] \in Nat /\ n[u] \in Nat,
         NEW x, x \notin U, x # NoBlock, NEW size \in Nat,
         size + 2 <= n[x], Wrote(d, i, x, size)
  PROVE  Held(d, [l EXCEPT ![i] = [bp |-> x, size |-> size]], n, U \cup {x})
<1> DEFINE r == [bp |-> x, size |-> size]
           m == [l EXCEPT ![i] = r]
           V == U \cup {x}
<1>1. m[i] = r /\ \A j \in Ids : j # i => m[j] = l[j]
  OBVIOUS
<1>2. r # Absent /\ r.bp = x /\ r.size = size
  BY DEF Absent
<1> HIDE DEF m, r
<1>3. Held(d, l, n, U)
  BY HeldKeeps
<1>4. ASSUME NEW j \in Ids, m[j] # Absent
      PROVE  /\ m[j].bp \in V /\ m[j].size \in Nat
             /\ m[j].size + 2 <= n[m[j].bp]
             /\ Wrote(d, j, m[j].bp, m[j].size)
  <2>1. CASE j = i
    BY <1>1, <1>2, <2>1
  <2>2. CASE j # i
    BY <1>1, <1>3, <1>4, <2>2 DEF Held
  <2> QED
    BY <2>1, <2>2
<1>5. \A j \in Ids : j # i /\ m[j] # Absent => m[j].bp \in U
  BY <1>1, <1>3 DEF Held
<1>6. ASSUME NEW j \in Ids, NEW k \in Ids,
             m[j] # Absent, m[k] # Absent, m[j].bp = m[k].bp
      PROVE  j = k
  <2>1. CASE j = i \/ k = i
    BY <1>1, <1>2, <1>5, <1>6, <2>1
  <2>2. CASE j # i /\ k # i
    BY <1>1, <1>3, <1>6, <2>2 DEF Held
  <2> QED
    BY <2>1, <2>2
<1>7. ASSUME NEW u \in V
      PROVE  \E j \in Ids : m[j] # Absent /\ m[j].bp = u
  <2>1. CASE u = x
    BY <1>1, <1>2, <2>1
  <2>2. CASE u # x
    <3>1. PICK j \in Ids : l[j] # Absent /\ l[j].bp = u
      BY <1>3, <2>2 DEF Held
    <3> QED
      BY <1>1, <3>1
  <2> QED
    BY <2>1, <2>2
<1> HIDE DEF V
<1>8. Held(d, m, n, V)
  BY <1>4, <1>6, <1>7 DEF Held
<1> QED
  BY <1>8 DEF m, r, V

(* The driver fills an allocated block, from a word on.                    *)
Filled(h, B, sz, U, bp, i, from, size, d) ==
  /\ Good(d, B, sz, U) /\ d.ret = h.ret
  /\ Keeps(h, sz, d, sz, U \ {bp})
  /\ \A a \in Addr :
       d.mem[a] = IF bp + from <= a /\ a < bp + size THEN Tag(i)
                  ELSE h.mem[a]

(* Filling a payload leaves a good heap good.                              *)
LEMMA FillGood ==
  ASSUME NEW h, NEW B, NEW sz, NEW U, Good(h, B, sz, U), NEW bp \in U,
         NEW i \in Ids, NEW from \in Nat, NEW size \in Nat,
         size + 2 <= sz[bp]
  PROVE  Filled(h, B, sz, U, bp, i, from, size, Fill(h, bp, i, from, size))
<1> DEFINE m == [a \in Addr |-> IF a \in (bp + from) .. (bp + size - 1)
                                THEN Tag(i) ELSE h.mem[a]]
           d == Fill(h, bp, i, from, size)
<1>1. bp \in Nat /\ sz[bp] \in Nat
  BY GoodTypes
<1>2. h.mem \in [Addr -> Int] /\ Tag(i) \in Int
  BY MallocAssumption DEF Good, Shape, Heaps, Tag
<1>3. d = [h EXCEPT !.mem = m]
  BY DEF Fill
<1>4. \A a \in Addr : a \in (bp + from) .. (bp + size - 1)
                      <=> bp + from <= a /\ a < bp + size
  BY <1>1 DEF Addr
<1>5. m \in [Addr -> Int]
  BY <1>2
<1>6. \A a \in Addr : m[a] # h.mem[a] => bp <= a /\ a <= bp + sz[bp] - 3
  <2>1. \A a \in Addr : m[a] # h.mem[a] => bp + from <= a /\ a < bp + size
    BY <1>4
  <2> HIDE DEF m
  <2> QED
    BY <1>1, <2>1 DEF Addr
<1>7. \A a \in Addr : m[a] = IF bp + from <= a /\ a < bp + size THEN Tag(i)
                             ELSE h.mem[a]
  BY <1>4
<1> HIDE DEF m, d
<1>8. Good(d, B, sz, U) /\ Keeps(h, sz, d, sz, U \ {bp})
  BY <1>3, <1>5, <1>6, WriteGood
<1>9. d.mem = m /\ d.ret = h.ret
  BY <1>3, <1>5, <1>6, WriteGood
<1>10. Filled(h, B, sz, U, bp, i, from, size, d)
  BY <1>7, <1>8, <1>9 DEF Filled
<1> QED
  BY <1>10 DEF d

-----------------------------------------------------------------------------
(* The inductive invariant: between two calls the heap is well made, and   *)
(* what is allocated is what the driver holds.                             *)
Owned == \E B, sz, U : Good(heap, B, sz, U) /\ Held(heap, live, sz, U)
Sound == HeapTypeOK /\ Owned

(* It holds until mm_init() has found a stale list; from then on the heap  *)
(* is what it was.                                                         *)
MallocInv == MallocTypeOK /\ (~stale => Owned)

(* A call leaves a heap of the type if it returns an address.              *)
LEMMA GoodHeap ==
  ASSUME NEW h, NEW B, NEW sz, NEW U, Good(h, B, sz, U), h.ret \in Addr
  PROVE  h \in [mem : [Addr -> Int], brk : 0 .. MaxHeap,
                free_listp : Addr, ret : Addr]
<1>1. h \in Heaps
  BY DEF Good, Shape
<1> QED
  BY <1>1 DEF Heaps

(* NULL is an even address.                                                *)
LEMMA NoBlockAddr == NoBlock \in Addr /\ NoBlock \in Int /\ NoBlock % 2 = 0
  BY MallocAssumption DEF NoBlock, Addr

(* The driver frees a block.                                               *)
LEMMA FreeStep ==
  ASSUME Sound, NEW i \in Ids, Free(i)
  PROVE  Sound'
<1> DEFINE bp == live[i].bp
<1>1. PICK B, sz, U : Good(heap, B, sz, U) /\ Held(heap, live, sz, U)
  BY DEF Sound, Owned
<1>2. /\ live[i] # Absent /\ heap' = mm_free(heap, bp)
      /\ live' = [live EXCEPT ![i] = Absent]
  BY DEF Free
<1>3. bp \in U
  BY <1>1, <1>2 DEF Held
<1>4. PICK C, n : /\ Good(heap', C, n, U \ {bp}) /\ heap'.ret \in Addr
                  /\ Keeps(heap, sz, heap', n, U \ {bp})
  BY <1>1, <1>2, <1>3, FreeGood
<1>5. DOMAIN live = Ids
  BY DEF Sound, HeapTypeOK
<1>6. \A u \in U \ {bp} : u \in Nat /\ sz[u] \in Nat /\ n[u] \in Nat
  <2>1. \A u \in U : u \in Nat /\ sz[u] \in Nat
    BY <1>1, GoodTypes
  <2>2. \A u \in U \ {bp} : n[u] \in Nat
    BY <1>4, GoodTypes
  <2> QED
    BY <2>1, <2>2
<1>7. Held(heap', live', n, U \ {bp})
  BY <1>1, <1>2, <1>4, <1>5, <1>6, HeldFree
<1>8. HeapTypeOK'
  <2>1. Absent \in [bp : {a \in Addr : a % 2 = 0}, size : Requests \cup {0}]
    BY NoBlockAddr DEF Absent
  <2>2. live' \in [Ids -> [bp : {a \in Addr : a % 2 = 0},
                           size : Requests \cup {0}]]
    BY <1>2, <2>1 DEF Sound, HeapTypeOK
  <2>3. heap' \in [mem : [Addr -> Int], brk : 0 .. MaxHeap,
                   free_listp : Addr, ret : Addr]
    BY <1>4, GoodHeap
  <2> QED
    BY <2>2, <2>3 DEF HeapTypeOK
<1> QED
  BY <1>4, <1>7, <1>8 DEF Sound, Owned

(* A block for the driver: the case of mm_malloc() and of mm_realloc().    *)
Made(l, i, d, C, n, V, x, size, f) ==
  /\ Good(f, C, n, V) /\ f.ret = d.ret
  /\ x \in Addr /\ x % 2 = 0 /\ x # NoBlock
  /\ Held(f, [l EXCEPT ![i] = [bp |-> x, size |-> size]], n, V)

(* The driver fills a block it got.                                        *)
LEMMA MakeStep ==
  ASSUME NEW l, DOMAIN l = Ids, NEW i \in Ids, l[i] = Absent,
         NEW h, NEW sz, NEW U, Held(h, l, sz, U),
         \A u \in U : u \in Nat /\ sz[u] \in Nat,
         NEW d, NEW x, x \notin U, NEW C, NEW n,
         Good(d, C, n, U \cup {x}), Keeps(h, sz, d, n, U),
         NEW size \in Nat, size + 2 <= n[x], NEW from \in Nat,
         \A a \in Addr : x <= a /\ a < x + size /\ a < x + from =>
                           d.mem[a] = Tag(i)
  PROVE  Made(l, i, d, C, n, U \cup {x}, x, size, Fill(d, x, i, from, size))
<1> DEFINE V == U \cup {x}
           f == Fill(d, x, i, from, size)
<1>1. x \in V
  OBVIOUS
<1>2. Good(d, C, n, V)
  OBVIOUS
<1> HIDE DEF V
<1>3. /\ \A u \in V : u \in Nat /\ n[u] \in Nat
      /\ x \in Nat /\ x >= 4 /\ x % 2 = 0 /\ x \in Addr
  BY <1>1, <1>2, GoodTypes
<1>4. /\ Good(f, C, n, V) /\ f.ret = d.ret /\ Keeps(d, n, f, n, V \ {x})
      /\ \A a \in Addr :
           f.mem[a] = IF x + from <= a /\ a < x + size THEN Tag(i)
                      ELSE d.mem[a]
  <2>1. size + 2 <= n[x]
    OBVIOUS
  <2>2. Filled(d, C, n, V, x, i, from, size, f)
    BY <1>1, <1>2, <2>1, FillGood
  <2> HIDE DEF f
  <2> QED
    BY <2>2 DEF Filled
<1> HIDE DEF f
<1>5. \A u \in U : u \in Nat /\ sz[u] \in Nat /\ n[u] \in Nat
  BY <1>3 DEF V
<1>6. Keeps(h, sz, f, n, U)
  <2>1. Keeps(d, n, f, n, U)
    BY <1>4 DEF Keeps, V
  <2> QED
    BY <1>5, <2>1, KeepsTwice
<1>7. Wrote(f, i, x, size)
  <2> SUFFICES ASSUME NEW a \in Addr, x <= a, a < x + size
               PROVE  f.mem[a] = Tag(i)
    BY DEF Wrote
  <2>1. a \in Nat
    BY DEF Addr
  <2>2. x + from <= a \/ a < x + from
    BY <1>3, <2>1
  <2> QED
    BY <1>4, <2>2
<1>8. x # NoBlock
  BY <1>3 DEF NoBlock
<1>9. Held(f, [l EXCEPT ![i] = [bp |-> x, size |-> size]], n, U \cup {x})
  BY <1>5, <1>6, <1>7, <1>8, HeldMake
<1>10. Made(l, i, d, C, n, V, x, size, f)
  BY <1>3, <1>4, <1>8, <1>9 DEF Made, V
<1> QED
  BY <1>10 DEF f, V

(* The driver allocates a block, or is told there is none.                 *)
LEMMA MallocStep ==
  ASSUME Sound, NEW i \in Ids, NEW size \in Requests, Malloc(i, size)
  PROVE  Sound'
<1> DEFINE d == mm_malloc(heap, size)
           x == d.ret
           r == [bp |-> x, size |-> size]
<1>1. PICK B, sz, U : Good(heap, B, sz, U) /\ Held(heap, live, sz, U)
  BY DEF Sound, Owned
<1>2. size \in Nat /\ NoBlock \in Addr
  BY NoBlockAddr, MallocAssumption
<1>3. /\ live[i] = Absent
      /\ IF x = NoBlock
           THEN heap' = d /\ live' = live
           ELSE /\ heap' = Fill(d, x, i, 0, size)
                /\ live' = [live EXCEPT ![i] = r]
  BY DEF Malloc
<1>4. Allocated(heap, sz, U, size, d)
  BY <1>1, <1>2, MallocGood
<1>5. \A u \in U : u \in Nat /\ sz[u] \in Nat
  BY <1>1, GoodTypes
<1>6. /\ DOMAIN live = Ids
      /\ live \in [Ids -> [bp : {a \in Addr : a % 2 = 0},
                           size : Requests \cup {0}]]
  BY DEF Sound, HeapTypeOK
<1> HIDE DEF d
<1>7. CASE x = NoBlock /\ \E C, n : Good(d, C, n, U) /\ Keeps(heap, sz, d, n, U)
  <2>1. PICK C, n : Good(d, C, n, U) /\ Keeps(heap, sz, d, n, U)
    BY <1>7
  <2>2. heap' = d /\ live' = live
    BY <1>3, <1>7
  <2>3. \A u \in U : u \in Nat /\ sz[u] \in Nat /\ n[u] \in Nat
    BY <1>5, <2>1, GoodTypes
  <2>4. Held(d, live, n, U)
    BY <1>1, <2>1, <2>3, HeldKeeps
  <2>5. d \in [mem : [Addr -> Int], brk : 0 .. MaxHeap,
               free_listp : Addr, ret : Addr]
    BY <1>2, <1>7, <2>1, GoodHeap
  <2> QED
    BY <1>6, <2>1, <2>2, <2>4, <2>5 DEF Sound, HeapTypeOK, Owned
<1>8. CASE \E C, n : /\ x \notin U /\ Good(d, C, n, U \cup {x})
                     /\ n[x] >= size + 2 /\ Keeps(heap, sz, d, n, U)
  <2> DEFINE f == Fill(d, x, i, 0, size)
  <2> HIDE DEF x
  <2>1. PICK C, n : /\ x \notin U /\ Good(d, C, n, U \cup {x})
                    /\ n[x] >= size + 2 /\ Keeps(heap, sz, d, n, U)
    BY <1>8
  <2>2. x \in Nat /\ n[x] \in Nat
    <3>1. x \in U \cup {x}
      OBVIOUS
    <3> QED
      BY <2>1, <3>1, GoodTypes
  <2>3. Made(live, i, d, C, n, U \cup {x}, x, size, f)
    <3>1. size + 2 <= n[x]
      BY <1>2, <2>1, <2>2
    <3>2. 0 \in Nat
      OBVIOUS
    <3>3. \A a \in Addr : x <= a /\ a < x + size /\ a < x + 0 =>
                            d.mem[a] = Tag(i)
      BY <2>2 DEF Addr
    <3>4. x \notin U
      BY <2>1
    <3>5. Good(d, C, n, U \cup {x})
      BY <2>1
    <3>6. Keeps(heap, sz, d, n, U)
      BY <2>1
    <3>7. Held(heap, live, sz, U)
      BY <1>1
    <3>8. live[i] = Absent
      BY <1>3
    <3> QED
      BY <1>2, <1>5, <1>6, <3>1, <3>2, <3>3, <3>4, <3>5, <3>6, <3>7, <3>8,
         MakeStep
  <2> HIDE DEF f
  <2>4. heap' = f /\ live' = [live EXCEPT ![i] = r]
    BY <1>3, <2>3 DEF Made, f
  <2>5. f.ret \in Addr /\ x \in Addr /\ x % 2 = 0
    BY <2>3 DEF Made, x
  <2>6. f \in [mem : [Addr -> Int], brk : 0 .. MaxHeap,
               free_listp : Addr, ret : Addr]
    BY <2>3, <2>5, GoodHeap DEF Made
  <2>7. live' \in [Ids -> [bp : {a \in Addr : a % 2 = 0},
                           size : Requests \cup {0}]]
    BY <1>6, <2>4, <2>5
  <2>8. Good(heap', C, n, U \cup {x}) /\ Held(heap', live', n, U \cup {x})
    BY <2>3, <2>4 DEF Made
  <2> QED
    BY <2>4, <2>6, <2>7, <2>8 DEF Sound, HeapTypeOK, Owned
<1> QED
  BY <1>4, <1>7, <1>8 DEF Allocated

(* The driver reallocates a block, or is told there is none.               *)
LEMMA ReallocStep ==
  ASSUME Sound, NEW i \in Ids, NEW size \in Requests, Realloc(i, size)
  PROVE  Sound'
<1> DEFINE bp == live[i].bp
           d == mm_realloc(heap, bp, size)
           x == d.ret
           r == [bp |-> x, size |-> size]
           from == live[i].size
           l == [live EXCEPT ![i] = Absent]
<1>1. PICK B, sz, U : Good(heap, B, sz, U) /\ Held(heap, live, sz, U)
  BY DEF Sound, Owned
<1>2. size \in Nat /\ NoBlock \in Addr
  BY NoBlockAddr, MallocAssumption
<1>3. /\ live[i] # Absent
      /\ x = NoBlock => /\ heap' = d
                        /\ live' = IF size = 0 THEN l ELSE live
      /\ x # NoBlock => /\ heap' = Fill(d, x, i, from, size)
                        /\ live' = [live EXCEPT ![i] = r]
  BY DEF Realloc
<1>4. /\ bp \in U /\ from \in Nat /\ from + 2 <= sz[bp]
      /\ Wrote(heap, i, bp, from)
  BY <1>1, <1>3 DEF Held
<1>5. Reallocated(heap, sz, U, bp, size, d)
  BY <1>1, <1>2, <1>4, ReallocGood
<1>6. \A u \in U : u \in Nat /\ sz[u] \in Nat /\ u + sz[u] <= MaxHeap
  <2>1. \A u \in U : /\ u \in Nat /\ sz[u] \in Nat /\ u + sz[u] <= heap.brk
                     /\ heap.brk \in Nat /\ heap.brk <= MaxHeap
    BY <1>1, GoodTypes
  <2> QED
    BY <2>1, MallocAssumption
<1>7. /\ DOMAIN live = Ids
      /\ live \in [Ids -> [bp : {a \in Addr : a % 2 = 0},
                           size : Requests \cup {0}]]
      /\ Absent \in [bp : {a \in Addr : a % 2 = 0}, size : Requests \cup {0}]
  BY NoBlockAddr DEF Sound, HeapTypeOK, Absent
<1>8. /\ DOMAIN l = Ids /\ l[i] = Absent
      /\ l \in [Ids -> [bp : {a \in Addr : a % 2 = 0},
                        size : Requests \cup {0}]]
      /\ [l EXCEPT ![i] = r] = [live EXCEPT ![i] = r]
  BY <1>7
<1> HIDE DEF d, l, from, r, bp
<1>9. CASE /\ x = NoBlock /\ size = 0
           /\ \E C, n : /\ Good(d, C, n, U \ {bp})
                        /\ Keeps(heap, sz, d, n, U \ {bp})
  <2>1. PICK C, n : /\ Good(d, C, n, U \ {bp})
                    /\ Keeps(heap, sz, d, n, U \ {bp})
    BY <1>9
  <2>2. heap' = d /\ live' = l
    BY <1>3, <1>9
  <2>3. \A u \in U \ {bp} : u \in Nat /\ sz[u] \in Nat /\ n[u] \in Nat
    BY <1>6, <2>1, GoodTypes
  <2>4. Held(d, l, n, U \ {bp})
    BY <1>1, <1>3, <1>7, <2>1, <2>3, HeldFree DEF l, bp
  <2>5. d \in [mem : [Addr -> Int], brk : 0 .. MaxHeap,
               free_listp : Addr, ret : Addr]
    BY <1>2, <1>9, <2>1, GoodHeap
  <2> QED
    BY <1>8, <2>1, <2>2, <2>4, <2>5 DEF Sound, HeapTypeOK, Owned
<1>10. CASE /\ x = NoBlock /\ size # 0
            /\ \E C, n : Good(d, C, n, U) /\ Keeps(heap, sz, d, n, U)
  <2>1. PICK C, n : Good(d, C, n, U) /\ Keeps(heap, sz, d, n, U)
    BY <1>10
  <2>2. heap' = d /\ live' = live
    BY <1>3, <1>10
  <2>3. \A u \in U : u \in Nat /\ sz[u] \in Nat /\ n[u] \in Nat
    BY <1>6, <2>1, GoodTypes
  <2>4. Held(d, live, n, U)
    BY <1>1, <2>1, <2>3, HeldKeeps
  <2>5. d \in [mem : [Addr -> Int], brk : 0 .. MaxHeap,
               free_listp : Addr, ret : Addr]
    BY <1>2, <1>10, <2>1, GoodHeap
  <2> QED
    BY <1>7, <2>1, <2>2, <2>4, <2>5 DEF Sound, HeapTypeOK, Owned
<1>11. CASE /\ x \notin U \ {bp}
            /\ \E C, n : /\ Good(d, C, n, (U \ {bp}) \cup {x})
                         /\ n[x] >= size + 2
                         /\ Keeps(heap, sz, d, n, U \ {bp})
            /\ \A k \in Nat : k < sz[bp] - 2 /\ k < size =>
                                d.mem[x + k] = heap.mem[bp + k]
  <2> DEFINE f == Fill(d, x, i, from, size)
             W == U \ {bp}
  <2> HIDE DEF x
  <2>1. PICK C, n : /\ x \notin W /\ Good(d, C, n, W \cup {x})
                    /\ n[x] >= size + 2 /\ Keeps(heap, sz, d, n, W)
    BY <1>11
  <2> HIDE DEF W
  <2>2. x \in Nat /\ n[x] \in Nat
    <3>1. x \in W \cup {x}
      OBVIOUS
    <3> QED
      BY <2>1, <3>1, GoodTypes
  <2>3. Held(heap, l, sz, W)
    <3>1. Keeps(heap, sz, heap, sz, W)
      BY <1>6 DEF Keeps, W
    <3> QED
      BY <1>1, <1>3, <1>6, <1>7, <3>1, HeldFree DEF l, bp, W
  <2>4. \A a \in Addr : x <= a /\ a < x + size /\ a < x + from =>
                          d.mem[a] = Tag(i)
    <3> SUFFICES ASSUME NEW a \in Addr, x <= a, a < x + size, a < x + from
                 PROVE  d.mem[a] = Tag(i)
      OBVIOUS
    <3> DEFINE k == a - x
    <3>1. k \in Nat /\ k < size /\ k < from /\ x + k = a
      <4>1. a \in Int
        BY DEF Addr
      <4> QED
        BY <1>2, <1>4, <2>2, <4>1
    <3> HIDE DEF k
    <3>2. bp \in Nat /\ sz[bp] \in Nat /\ bp + sz[bp] <= MaxHeap
      BY <1>4, <1>6
    <3>3. k < sz[bp] - 2 /\ bp + k \in Addr /\ bp <= bp + k
          /\ bp + k < bp + from
      BY <1>4, <3>1, <3>2, MallocAssumption DEF Addr
    <3>4. d.mem[a] = heap.mem[bp + k]
      BY <1>11, <3>1, <3>3
    <3>5. heap.mem[bp + k] = Tag(i)
      BY <1>4, <3>3 DEF Wrote
    <3> QED
      BY <3>4, <3>5
  <2>5. Made(l, i, d, C, n, W \cup {x}, x, size, f)
    <3>1. size + 2 <= n[x]
      BY <1>2, <2>1, <2>2
    <3>2. from \in Nat
      BY <1>4
    <3>3. x \notin W
      BY <2>1
    <3>4. Good(d, C, n, W \cup {x})
      BY <2>1
    <3>5. Keeps(heap, sz, d, n, W)
      BY <2>1
    <3>6. \A u \in W : u \in Nat /\ sz[u] \in Nat
      BY <1>6 DEF W
    <3>7. DOMAIN l = Ids
      BY <1>8
    <3>8. l[i] = Absent
      BY <1>8
    <3> QED
      BY <1>2, <2>3, <2>4, <3>1, <3>2, <3>3, <3>4, <3>5, <3>6, <3>7, <3>8,
         MakeStep
  <2> HIDE DEF f
  <2>6. heap' = f /\ live' = [live EXCEPT ![i] = r]
    BY <1>3, <2>5 DEF Made, f
  <2>7. live' = [l EXCEPT ![i] = r]
    BY <1>8, <2>6
  <2>8. f.ret \in Addr /\ x \in Addr /\ x % 2 = 0
    BY <2>5 DEF Made, x
  <2>9. f \in [mem : [Addr -> Int], brk : 0 .. MaxHeap,
               free_listp : Addr, ret : Addr]
    BY <2>5, <2>8, GoodHeap DEF Made
  <2>10. live' \in [Ids -> [bp : {a \in Addr : a % 2 = 0},
                            size : Requests \cup {0}]]
    BY <1>7, <2>6, <2>8 DEF r
  <2>11. Good(heap', C, n, W \cup {x}) /\ Held(heap', live', n, W \cup {x})
    BY <2>5, <2>6, <2>7 DEF Made, r
  <2> QED
    BY <2>6, <2>9, <2>10, <2>11 DEF Sound, HeapTypeOK, Owned
<1> QED
  BY <1>5, <1>9, <1>10, <1>11 DEF Reallocated

(* The driver goes to its next trace: an empty heap, if mm_init() can make *)
(* one of the list it finds.                                               *)
LEMMA TraceStep ==
  ASSUME Sound, NextTrace, Startable(heap)
  PROVE  Sound' /\ stale' = stale
<1> DEFINE h == [heap EXCEPT !.brk = 0]
<1>1. PICK B, sz, U : Good(heap, B, sz, U) /\ Held(heap, live, sz, U)
  BY DEF Sound, Owned
<1>2. /\ live' = [i \in Ids |-> Absent]
      /\ heap' = mm_init(h) /\ stale' = stale
  BY DEF NextTrace
<1>3. \/ heap.free_listp = NoBlock
      \/ heap.free_listp = 4 /\ heap.mem[4] = 0 /\ heap.mem[5] = 0
  <2>1. 4 + 1 = 5
    OBVIOUS
  <2> QED
    BY <2>1 DEF Startable, PRED, SUCC, NoBlock
<1>4. heap \in Heaps
  BY <1>1 DEF Good, Shape
<1>5. /\ h \in Heaps /\ h.brk = 0
      /\ h.free_listp = heap.free_listp /\ h.mem = heap.mem
  BY <1>4, MallocAssumption DEF Heaps
<1> HIDE DEF h
<1>6. \/ h.free_listp = NoBlock
      \/ h.free_listp = 4 /\ h.mem[4] = 0 /\ h.mem[5] = 0
  BY <1>3, <1>5
<1>7. PICK n : Good(heap', {4}, n, {}) /\ heap'.ret = 4
  BY <1>2, <1>5, <1>6, InitGood
<1>8. Held(heap', live', n, {})
  BY <1>2 DEF Held
<1>9. heap' \in [mem : [Addr -> Int], brk : 0 .. MaxHeap,
                 free_listp : Addr, ret : Addr]
  <2>1. 4 \in Addr
    BY MallocAssumption DEF Addr
  <2> QED
    BY <1>7, <2>1, GoodHeap
<1>10. live' \in [Ids -> [bp : {a \in Addr : a % 2 = 0},
                          size : Requests \cup {0}]]
  BY <1>2, NoBlockAddr DEF Absent
<1> QED
  BY <1>2, <1>7, <1>8, <1>9, <1>10 DEF Sound, HeapTypeOK, Owned

(* A trace that leaves such a list ends what is known of the heap.         *)
LEMMA LastTrace ==
  ASSUME HeapTypeOK, NextTrace, ~Startable(heap)
  PROVE  HeapTypeOK' /\ stale' = TRUE
<1>1. live' = [i \in Ids |-> Absent] /\ heap' = heap /\ stale' = TRUE
  BY DEF NextTrace
<1>2. live' \in [Ids -> [bp : {a \in Addr : a % 2 = 0},
                         size : Requests \cup {0}]]
  BY <1>1, NoBlockAddr DEF Absent
<1> QED
  BY <1>1, <1>2 DEF HeapTypeOK

(* The driver starts with an empty heap.                                   *)
LEMMA StartStep ==
  ASSUME MallocInit
  PROVE  Sound
<1> DEFINE h == [mem |-> [a \in Addr |-> 0], brk |-> 0,
                 free_listp |-> NoBlock, ret |-> NoBlock]
<1>1. heap = mm_init(h) /\ live = [i \in Ids |-> Absent]
  BY DEF MallocInit
<1>2. h \in Heaps /\ h.brk = 0 /\ h.free_listp = NoBlock
  <2>1. 0 \in 0 .. MaxHeap
    BY MallocAssumption
  <2> QED
    BY <2>1, NoBlockAddr DEF Heaps
<1> HIDE DEF h
<1>3. PICK n : Good(heap, {4}, n, {}) /\ heap.ret = 4
  BY <1>1, <1>2, InitGood
<1>4. Held(heap, live, n, {})
  BY <1>1 DEF Held
<1>5. heap \in [mem : [Addr -> Int], brk : 0 .. MaxHeap,
                free_listp : Addr, ret : Addr]
  <2>1. 4 \in Addr
    BY MallocAssumption DEF Addr
  <2> QED
    BY <1>3, <2>1, GoodHeap
<1>6. live \in [Ids -> [bp : {a \in Addr : a % 2 = 0},
                        size : Requests \cup {0}]]
  BY <1>1, NoBlockAddr DEF Absent
<1> QED
  BY <1>3, <1>4, <1>5, <1>6 DEF Sound, HeapTypeOK, Owned

(* The blocks stay whole through every call.                               *)
THEOREM MallocInvariance == MallocSpec => []MallocInv
<1>1. MallocInit => MallocInv
  <2>1. MallocInit => Sound /\ stale = FALSE
    BY StartStep DEF MallocInit
  <2> QED
    BY <2>1 DEF MallocInv, MallocTypeOK, Sound
<1>2. MallocInv /\ [MallocNext]_mallocVars => MallocInv'
  <2> SUFFICES ASSUME MallocInv, [MallocNext]_mallocVars
               PROVE  MallocInv'
    OBVIOUS
  <2>1. CASE MallocNext
    <3>1. Sound /\ HeapTypeOK /\ stale = FALSE
      BY <2>1 DEF MallocNext, MallocInv, MallocTypeOK, Sound
    <3>2. ASSUME Sound', stale' = stale
          PROVE  MallocInv'
      BY <3>1, <3>2 DEF MallocInv, MallocTypeOK, Sound
    <3>3. ASSUME NEW i \in Ids, Free(i), UNCHANGED stale
          PROVE  MallocInv'
      BY <3>1, <3>2, <3>3, FreeStep
    <3>4. ASSUME NEW i \in Ids, NEW size \in Requests, Malloc(i, size),
                 UNCHANGED stale
          PROVE  MallocInv'
      BY <3>1, <3>2, <3>4, MallocStep
    <3>5. ASSUME NEW i \in Ids, NEW size \in Requests, Realloc(i, size),
                 UNCHANGED stale
          PROVE  MallocInv'
      BY <3>1, <3>2, <3>5, ReallocStep
    <3>6. CASE NextTrace /\ Startable(heap)
      BY <3>1, <3>2, <3>6, TraceStep
    <3>7. CASE NextTrace /\ ~Startable(heap)
      BY <3>1, <3>7, LastTrace DEF MallocInv, MallocTypeOK
    <3> QED
      BY <2>1, <3>3, <3>4, <3>5, <3>6, <3>7 DEF MallocNext
  <2>2. CASE UNCHANGED mallocVars
    BY <2>2 DEF MallocInv, MallocTypeOK, HeapTypeOK, Owned, mallocVars
  <2> QED
    BY <2>1, <2>2
<1> QED
  BY <1>1, <1>2, PTL DEF MallocSpec

-----------------------------------------------------------------------------
(* The blocks as the properties find them, each from the one before, are   *)
(* the blocks B.                                                           *)
After(B, sz, x) ==
  IF x # NoBlock /\ x + sz[x] \in B THEN x + sz[x] ELSE NoBlock

(* The recursion of BlockAt is a walk along the blocks.                    *)
LEMMA BlockAtWalks ==
  ASSUME NEW B, NEW sz, NEW U, Shape(heap, B, sz, U), B # {}
  PROVE  LET S == B \cup {NoBlock}
         IN  Walk(S, 4, [x \in S |-> After(B, sz, x)], MostBlocks, BlockAt)
<1> DEFINE S == B \cup {NoBlock}
           next == [x \in S |-> After(B, sz, x)]
           N == MostBlocks
           step(n, x) == IF n = 0 THEN 4
                         ELSE IF x = NoBlock THEN NoBlock
                         ELSE NEXT_BLKP(heap, x)
           Rec(g) == g = [n \in 0 .. N |->
                            IF step(n, g[n - 1]) >= heap.brk THEN NoBlock
                            ELSE step(n, g[n - 1])]
<1>1. BlockAt = CHOOSE g : Rec(g)
  BY DEF BlockAt
<1>2. /\ heap.brk \in Nat /\ heap.brk >= 4 /\ 4 \in B /\ 4 < heap.brk
      /\ \A b \in B : b \in Nat /\ b < heap.brk
  <2>1. PICK b \in B : TRUE
    OBVIOUS
  <2>2. \A c \in B : c \in Nat /\ c >= 4 /\ c < heap.brk /\ heap.brk \in Nat
    BY ShapeFacts
  <2>3. b >= 4 /\ b < heap.brk /\ heap.brk \in Nat /\ b \in Nat
    BY <2>1, <2>2
  <2>4. 4 \in B \cup {heap.brk}
    BY DEF Shape
  <2> QED
    BY <2>2, <2>3, <2>4
<1>3. ASSUME NEW x \in B
      PROVE  /\ NEXT_BLKP(heap, x) >= heap.brk => After(B, sz, x) = NoBlock
             /\ ~ (NEXT_BLKP(heap, x) >= heap.brk) =>
                  After(B, sz, x) = NEXT_BLKP(heap, x)
  <2>1. NEXT_BLKP(heap, x) = x + sz[x]
    BY BlockReads
  <2>2. x # NoBlock /\ x + sz[x] \in B \cup {heap.brk}
    BY ShapeFacts
  <2>3. ~ (heap.brk < heap.brk) /\ heap.brk >= heap.brk
    BY <1>2
  <2>4. \A b \in B : ~ (b >= heap.brk)
    BY <1>2
  <2> QED
    BY <2>1, <2>2, <2>3, <2>4 DEF After
<1>4. next \in [S -> S] /\ 4 \in S
  BY <1>2 DEF After
<1>5. N \in Nat
  BY MostIsNat
<1> HIDE DEF N
<1>6. PICK f : Walk(S, 4, next, N, f)
  <2> HIDE DEF S, next
  <2> QED
    BY <1>4, <1>5, WalkExists
<1>7. /\ f \in [0 .. N -> S] /\ f[0] = 4
      /\ \A n \in 1 .. N : f[n] = After(B, sz, f[n - 1])
  <2>1. /\ f \in [0 .. N -> S] /\ f[0] = 4
        /\ \A n \in 1 .. N : f[n] = next[f[n - 1]]
    BY <1>6 DEF Walk
  <2>2. \A n \in 1 .. N : n - 1 \in 0 .. N
    BY <1>5
  <2> QED
    BY <2>1, <2>2
<1>8. ASSUME NEW n \in 0 .. N, NEW x, n # 0 => x \in S
      PROVE  (IF step(n, x) >= heap.brk THEN NoBlock ELSE step(n, x))
             = IF n = 0 THEN 4 ELSE After(B, sz, x)
  <2>1. CASE n = 0
    BY <1>2, <2>1
  <2>2. CASE n # 0 /\ x = NoBlock
    <3>1. step(n, x) = NoBlock /\ ~ (NoBlock >= heap.brk)
      BY <1>2, <2>2 DEF NoBlock
    <3>2. After(B, sz, x) = NoBlock
      BY <2>2 DEF After
    <3> QED
      BY <2>2, <3>1, <3>2
  <2>3. CASE n # 0 /\ x # NoBlock
    <3>1. x \in B /\ step(n, x) = NEXT_BLKP(heap, x)
      BY <1>8, <2>3
    <3> QED
      BY <1>3, <2>3, <3>1
  <2> QED
    BY <2>1, <2>2, <2>3
<1> DEFINE l == CHOOSE g : Rec(g)
<1>9. Rec(f)
  <2>1. \A n \in 0 .. N : n # 0 => f[n - 1] \in S
    <3>1. \A n \in 0 .. N : n # 0 => n - 1 \in 0 .. N
      BY <1>5
    <3> QED
      BY <1>7, <3>1
  <2>2. \A n \in 0 .. N : f[n] = IF n = 0 THEN 4 ELSE After(B, sz, f[n - 1])
    <3>1. \A n \in 0 .. N : n # 0 => n \in 1 .. N
      BY <1>5
    <3> QED
      BY <1>7, <3>1
  <2>3. ASSUME NEW n \in 0 .. N
        PROVE  f[n] = IF step(n, f[n - 1]) >= heap.brk THEN NoBlock
                      ELSE step(n, f[n - 1])
    <3>1. (IF step(n, f[n - 1]) >= heap.brk THEN NoBlock
           ELSE step(n, f[n - 1]))
          = IF n = 0 THEN 4 ELSE After(B, sz, f[n - 1])
      BY <1>8, <2>1
    <3> HIDE DEF step
    <3> QED
      BY <2>2, <3>1
  <2>4. f = [n \in 0 .. N |-> f[n]]
    BY <1>7
  <2> HIDE DEF step
  <2> QED
    BY <2>3, <2>4
<1>10. Rec(l)
  <2> HIDE DEF step
  <2> QED
    BY <1>9
<1>11. l = [n \in 0 .. N |-> l[n]]
       /\ \A n \in 0 .. N : l[n] = IF step(n, l[n - 1]) >= heap.brk THEN NoBlock
                                   ELSE step(n, l[n - 1])
  <2> HIDE DEF l, step
  <2>1. DOMAIN l = 0 .. N
    BY <1>10
  <2> QED
    BY <1>10, <2>1
<1> HIDE DEF l
<1>12. \A n \in 0 .. N : l[n] = f[n]
  <2>1. l[0] = f[0]
    <3>1. 0 \in 0 .. N
      BY <1>5
    <3>2. (IF step(0, l[0 - 1]) >= heap.brk THEN NoBlock ELSE step(0, l[0 - 1]))
          = IF 0 = 0 THEN 4 ELSE After(B, sz, l[0 - 1])
      BY <1>8, <3>1
    <3> HIDE DEF step
    <3> QED
      BY <1>7, <1>11, <3>1, <3>2
  <2>2. ASSUME NEW n \in 1 .. N, l[n - 1] = f[n - 1]
        PROVE  l[n] = f[n]
    <3>1. n \in 0 .. N /\ n # 0 /\ n - 1 \in 0 .. N
      BY <1>5
    <3>2. l[n - 1] \in S
      BY <1>7, <2>2, <3>1
    <3>3. (IF step(n, l[n - 1]) >= heap.brk THEN NoBlock
           ELSE step(n, l[n - 1]))
          = IF n = 0 THEN 4 ELSE After(B, sz, l[n - 1])
      BY <1>8, <3>1, <3>2
    <3> HIDE DEF step
    <3>4. l[n] = After(B, sz, l[n - 1])
      BY <1>11, <3>1, <3>3
    <3> QED
      BY <1>7, <2>2, <3>4
  <2> QED
    BY <1>5, <2>1, <2>2, SameSteps
<1>13. l = f
  BY <1>7, <1>11, <1>12
<1> HIDE DEF S, next
<1>14. BlockAt = f
  BY <1>1, <1>13 DEF l
<1> QED
  BY <1>6, <1>14 DEF N, S, next

(* That walk meets every block, and nothing else.                          *)
LEMMA BlocksAre ==
  ASSUME NEW B, NEW sz, NEW U, Shape(heap, B, sz, U), B # {}
  PROVE  HeapBlocks = B
<1> DEFINE S == B \cup {NoBlock}
           N == MostBlocks
           f == BlockAt
           Reached(b) == \E n \in 0 .. N : f[n] = b /\ 4 + 4 * n <= b
           Low == {k \in Nat : \A b \in B : b <= k => Reached(b)}
<1>1. /\ f \in [0 .. N -> S] /\ f[0] = 4
      /\ \A n \in 1 .. N : f[n] = After(B, sz, f[n - 1])
  <2>1. Walk(S, 4, [x \in S |-> After(B, sz, x)], N, f)
    BY BlockAtWalks
  <2> HIDE DEF f
  <2>2. /\ f \in [0 .. N -> S] /\ f[0] = 4
        /\ \A n \in 1 .. N : f[n] = [x \in S |-> After(B, sz, x)][f[n - 1]]
    BY <2>1 DEF Walk
  <2>3. \A n \in 1 .. N : n - 1 \in 0 .. N
    BY MostIsNat
  <2> QED
    BY <2>2, <2>3
<1>2. \A b \in B : /\ b \in Nat /\ b >= 4 /\ b # NoBlock
                   /\ sz[b] \in Nat /\ sz[b] >= 4
                   /\ b + sz[b] <= heap.brk /\ heap.brk \in Nat
                   /\ heap.brk <= MaxHeap /\ b < heap.brk
  BY ShapeFacts
<1>3. \A b \in B : b = 4 \/ \E c \in B : c + sz[c] = b
  BY DEF Shape, LeftOK
<1>4. N \in Nat /\ \A n \in Nat : 4 + 4 * n <= MaxHeap => n <= N
  BY MallocAssumption DEF MostBlocks
<1> HIDE DEF f, N
<1>5. 0 \in Low
  BY <1>2
<1>6. ASSUME NEW k \in Nat, k \in Low
      PROVE  k + 1 \in Low
  <2> SUFFICES ASSUME NEW b \in B, b <= k + 1
               PROVE  Reached(b)
    OBVIOUS
  <2>1. CASE b <= k
    BY <1>6, <2>1
  <2>2. CASE b = 4
    <3>1. 0 \in 0 .. N /\ 4 + 4 * 0 <= b
      BY <1>4, <2>2
    <3> QED
      BY <1>1, <2>2, <3>1
  <2>3. CASE ~ (b <= k) /\ b # 4
    <3>1. PICK c \in B : c + sz[c] = b
      BY <1>3, <2>3
    <3>2. c <= k /\ c \in Nat /\ sz[c] >= 4 /\ sz[c] \in Nat /\ b \in Nat
      BY <1>2, <3>1
    <3>3. PICK n \in 0 .. N : f[n] = c /\ 4 + 4 * n <= c
      BY <1>6, <3>2
    <3>4. n \in Nat /\ 4 + 4 * (n + 1) <= b
      BY <3>1, <3>2, <3>3
    <3>5. b <= MaxHeap /\ MaxHeap \in Nat
      <4>1. b < heap.brk /\ heap.brk <= MaxHeap /\ heap.brk \in Nat
        BY <1>2
      <4> QED
        BY <3>2, <4>1, MallocAssumption
    <3>6. 4 + 4 * (n + 1) <= MaxHeap /\ n + 1 \in Nat
      BY <3>2, <3>4, <3>5
    <3>7. n + 1 \in 1 .. N /\ n + 1 \in 0 .. N /\ (n + 1) - 1 = n
      <4>1. n + 1 <= N
        BY <1>4, <3>6
      <4> QED
        BY <1>4, <3>4, <4>1
    <3>8. f[n + 1] = After(B, sz, c)
      BY <1>1, <3>3, <3>7
    <3>9. After(B, sz, c) = b
      BY <1>2, <3>1 DEF After
    <3> QED
      BY <3>4, <3>7, <3>8, <3>9
  <2> QED
    BY <2>1, <2>2, <2>3
<1>7. \A k \in Nat : k \in Low
  <2> HIDE DEF Low
  <2> QED
    BY <1>5, <1>6, Counting
<1>8. \A b \in B : \E n \in 0 .. N : f[n] = b
  <2>1. \A b \in B : b \in Low /\ b <= b
    BY <1>2, <1>7
  <2> QED
    BY <2>1
<1>9. {f[n] : n \in 0 .. N} \ {NoBlock} = B
  BY <1>1, <1>2, <1>8
<1> QED
  BY <1>9 DEF HeapBlocks, f, N

(* What the macros say of a block.                                         *)
LEMMA FreeIs ==
  ASSUME NEW B, NEW sz, NEW U, Shape(heap, B, sz, U), NEW b \in B
  PROVE  IsFree(b) <=> b \notin U
<1>1. GET_ALLOC(heap, HDRP(b)) = IF b \in U THEN 1 ELSE 0
  BY BlockReads
<1> QED
  BY <1>1 DEF IsFree

(* The blocks of a good heap tile it.                                      *)
LEMMA GoodTiled ==
  ASSUME NEW B, NEW sz, NEW U, Good(heap, B, sz, U)
  PROVE  Tiled
<1>1. Shape(heap, B, sz, U) /\ HeapBlocks = B /\ B # {}
  BY BlocksAre DEF Good
<1>2. ASSUME NEW bp \in B
      PROVE  LET size == GET_SIZE(heap, HDRP(bp))
             IN  /\ size >= 4 /\ bp + size <= heap.brk
                 /\ heap.mem[FTRP(heap, bp)] = heap.mem[HDRP(bp)]
                 /\ bp + size = heap.brk =>
                      heap.mem[heap.brk - 1] = PACK(0, 1)
  <2>1. GET_SIZE(heap, HDRP(bp)) = sz[bp] /\ FTRP(heap, bp) = bp + sz[bp] - 2
    BY <1>1, BlockReads
  <2>2. /\ sz[bp] >= 4 /\ bp + sz[bp] <= heap.brk
        /\ heap.mem[bp - 1] = Word(sz, U, bp)
        /\ heap.mem[bp + sz[bp] - 2] = Word(sz, U, bp)
    BY <1>1, ShapeFacts
  <2>3. heap.mem[heap.brk - 1] = PACK(0, 1)
    BY <1>1 DEF Shape, PACK
  <2> QED
    BY <2>1, <2>2, <2>3 DEF HDRP
<1>3. \E bp \in B : NEXT_BLKP(heap, bp) = heap.brk
  <2>1. PICK b \in B : TRUE
    BY <1>1
  <2>2. b >= 4 /\ b < heap.brk /\ heap.brk \in Nat /\ b \in Nat
    BY <1>1, ShapeFacts
  <2>3. LeftOK(B, sz, heap.brk)
    BY <1>1 DEF Shape
  <2>4. PICK c \in B : c + sz[c] = heap.brk
    BY <2>2, <2>3 DEF LeftOK
  <2>5. NEXT_BLKP(heap, c) = c + sz[c]
    BY <1>1, BlockReads
  <2> QED
    BY <2>4, <2>5
<1> QED
  BY <1>1, <1>2, <1>3 DEF Tiled

(* No two neighbours of a good heap are both free.                         *)
LEMMA GoodCoalesced ==
  ASSUME NEW B, NEW sz, NEW U, Good(heap, B, sz, U)
  PROVE  Coalesced
<1>1. Shape(heap, B, sz, U) /\ HeapBlocks = B /\ B # {}
  BY BlocksAre DEF Good
<1> SUFFICES ASSUME NEW bp \in B, IsFree(bp),
                    NEXT_BLKP(heap, bp) # heap.brk, IsFree(NEXT_BLKP(heap, bp))
             PROVE  FALSE
  BY <1>1 DEF Coalesced
<1> DEFINE next == NEXT_BLKP(heap, bp)
<1>2. next = bp + sz[bp] /\ next \in B \cup {heap.brk}
  BY <1>1, RightReads
<1>3. next \in B
  BY <1>2
<1>4. bp \in B \ U /\ next \in B \ U
  BY <1>1, <1>3, FreeIs
<1>5. bp = NoBlock \/ next = NoBlock
  BY <1>2, <1>4 DEF Good, Separate
<1>6. \A b \in B : b # NoBlock
  BY <1>1, ShapeFacts
<1> QED
  BY <1>3, <1>5, <1>6

(* What the driver holds of a good heap is its own.                        *)
LEMMA GoodLive ==
  ASSUME NEW B, NEW sz, NEW U, Good(heap, B, sz, U),
         Held(heap, live, sz, U)
  PROVE  LiveIntact
<1>1. Shape(heap, B, sz, U) /\ HeapBlocks = B /\ U \subseteq B
  BY BlocksAre DEF Good, Shape
<1>2. \A u \in U : /\ u \in Nat /\ u >= 4 /\ sz[u] \in Nat
                   /\ u + sz[u] <= heap.brk /\ heap.brk \in Nat
                   /\ heap.brk <= MaxHeap
  BY GoodTypes
<1>3. ASSUME NEW i \in Ids, live[i] # Absent,
             NEW a \in live[i].bp .. (live[i].bp + live[i].size - 1)
      PROVE  heap.mem[a] = Tag(i)
  <2> DEFINE b == live[i].bp
             k == live[i].size
  <2>1. b \in U /\ k \in Nat /\ k + 2 <= sz[b] /\ Wrote(heap, i, b, k)
    BY <1>3 DEF Held
  <2>2. a \in b .. (b + k - 1)
    BY <1>3
  <2> HIDE DEF b, k
  <2>3. b \in Nat /\ sz[b] \in Nat /\ b + sz[b] <= MaxHeap
    <3>1. b \in Nat /\ sz[b] \in Nat /\ b + sz[b] <= heap.brk
          /\ heap.brk \in Nat /\ heap.brk <= MaxHeap
      BY <1>2, <2>1
    <3> QED
      BY <3>1, MallocAssumption
  <2>4. a \in Addr /\ b <= a /\ a < b + k
    BY <2>1, <2>2, <2>3, MallocAssumption DEF Addr
  <2> QED
    BY <2>1, <2>4 DEF Wrote
<1>4. {bp \in HeapBlocks : ~ IsFree(bp)} = U
  <2>1. \A bp \in B : ~ IsFree(bp) <=> bp \in U
    BY <1>1, FreeIs
  <2> QED
    BY <1>1, <2>1
<1>5. {live[i].bp : i \in Ids} \ {NoBlock} = U
  <2>1. \A i \in Ids : live[i] # Absent => live[i].bp \in U
    BY DEF Held
  <2>2. \A i \in Ids : live[i] = Absent => live[i].bp = NoBlock
    BY DEF Absent
  <2>3. \A u \in U : u # NoBlock /\ \E i \in Ids : live[i].bp = u
    BY <1>2 DEF Held, NoBlock
  <2> QED
    BY <2>1, <2>2, <2>3
<1> QED
  BY <1>3, <1>4, <1>5 DEF LiveIntact

(* Along the list r grows, and it has not ended before.                    *)
LEMMA ListGrows ==
  ASSUME NEW h, NEW L, NEW r, Links(h, L, r)
  PROVE  LET list == FreeList(h)
         IN  \A n \in 0 .. MostBlocks : list[n] # NoBlock =>
               \A m \in 0 .. MostBlocks : m < n =>
                 list[m] # NoBlock /\ r[list[m]] < r[list[n]]
<1> DEFINE N == MostBlocks
           f == FreeList(h)
           Up == {n \in Nat : n <= N /\ f[n] # NoBlock =>
                    \A m \in 0 .. N : m < n =>
                      f[m] # NoBlock /\ r[f[m]] < r[f[n]]}
<1>1. /\ \A n \in 0 .. N : f[n] \in L \cup {NoBlock}
      /\ \A n \in 1 .. N : f[n] = IF f[n - 1] = NoBlock THEN NoBlock
                                  ELSE SUCC(h, f[n - 1])
  <2>1. Chain(h, L)
    BY DEF Chain
  <2> QED
    BY <2>1, FreeListReads
<1>2. N \in Nat /\ r \in [L -> Nat]
  BY MostIsNat DEF Links
<1> HIDE DEF f, N
<1>3. 0 \in Up
  BY <1>2
<1>4. ASSUME NEW n \in Nat, n \in Up
      PROVE  n + 1 \in Up
  <2> SUFFICES ASSUME n + 1 <= N, f[n + 1] # NoBlock,
                      NEW m \in 0 .. N, m < n + 1
               PROVE  f[m] # NoBlock /\ r[f[m]] < r[f[n + 1]]
    OBVIOUS
  <2>1. n + 1 \in 1 .. N /\ n \in 0 .. N /\ (n + 1) - 1 = n /\ n <= N
        /\ n + 1 \in 0 .. N
    BY <1>2
  <2>2. f[n] # NoBlock /\ f[n + 1] = SUCC(h, f[n])
    BY <1>1, <2>1
  <2>3. f[n] \in L /\ f[n + 1] \in L
    BY <1>1, <2>1, <2>2
  <2>4. r[f[n]] < r[f[n + 1]]
    BY <2>2, <2>3, LinkFacts
  <2>5. CASE m = n
    BY <2>2, <2>4, <2>5
  <2>6. CASE m # n
    <3>1. m < n
      BY <1>2, <2>6
    <3>2. f[m] # NoBlock /\ r[f[m]] < r[f[n]]
      BY <1>4, <2>1, <2>2, <3>1
    <3>3. f[m] \in L
      BY <1>1, <3>2
    <3>4. r[f[m]] \in Nat /\ r[f[n]] \in Nat /\ r[f[n + 1]] \in Nat
      BY <1>2, <2>3, <3>3
    <3> QED
      BY <2>4, <3>2, <3>4
  <2> QED
    BY <2>5, <2>6
<1>5. \A n \in Nat : n \in Up
  <2> HIDE DEF Up
  <2> QED
    BY <1>3, <1>4, Counting
<1>6. \A n \in 0 .. N : f[n] # NoBlock =>
        \A m \in 0 .. N : m < n => f[m] # NoBlock /\ r[f[m]] < r[f[n]]
  <2>1. \A n \in 0 .. N : n \in Up /\ n <= N
    BY <1>2, <1>5
  <2> QED
    BY <2>1
<1> QED
  BY <1>6 DEF f, N

(* The list ends: no block is on it twice, and there are fewer blocks than *)
(* MostBlocks.                                                             *)
LEMMA ListEnds ==
  ASSUME NEW h, NEW B, NEW sz, NEW U, Shape(h, B, sz, U),
         Chain(h, B \ U)
  PROVE  FreeList(h)[MostBlocks] = NoBlock
<1> DEFINE L == B \ U
           N == MostBlocks
           f == FreeList(h)
           T == 1 .. (N - 1)
           g == [n \in 0 .. N |-> f[n] \div 4]
<1> SUFFICES ASSUME f[N] # NoBlock
             PROVE  FALSE
  OBVIOUS
<1>1. PICK r : Links(h, L, r)
  BY DEF Chain
<1>2. N \in Nat /\ MaxHeap \in Nat /\ r \in [L -> Nat]
  BY <1>1, MostIsNat, MallocAssumption DEF Links
<1>3. /\ \A n \in 0 .. N : f[n] \in L \cup {NoBlock}
      /\ \A n \in 0 .. N : f[n] # NoBlock =>
           \A m \in 0 .. N : m < n => f[m] # NoBlock /\ r[f[m]] < r[f[n]]
  <2>1. \A n \in 0 .. N : f[n] \in L \cup {NoBlock}
    BY FreeListReads
  <2> HIDE DEF L
  <2>2. \A n \in 0 .. N : f[n] # NoBlock =>
          \A m \in 0 .. N : m < n => f[m] # NoBlock /\ r[f[m]] < r[f[n]]
    BY <1>1, ListGrows
  <2> QED
    BY <2>1, <2>2
<1> HIDE DEF f
<1>4. \A n \in 0 .. N : f[n] \in L /\ f[n] \in B
  <2>1. \A n \in 0 .. N : n = N \/ n < N
    BY <1>2
  <2>2. N \in 0 .. N
    BY <1>2
  <2> HIDE DEF N
  <2>3. \A n \in 0 .. N : f[n] # NoBlock
    BY <1>3, <2>1, <2>2
  <2> QED
    BY <1>3, <2>3
<1>5. \A m, n \in 0 .. N : m # n => f[m] # f[n]
  <2> SUFFICES ASSUME NEW m \in 0 .. N, NEW n \in 0 .. N, m < n
               PROVE  f[m] # f[n]
    <3>1. \A m, n \in 0 .. N : m # n => m < n \/ n < m
      BY <1>2
    <3> QED
      BY <3>1
  <2>1. f[m] \in L /\ f[n] \in L /\ f[n] # NoBlock
    <3>1. f[m] \in L /\ f[n] \in L /\ f[n] \in B
      BY <1>4
    <3>2. f[n] # NoBlock
      BY <3>1, ShapeFacts
    <3> QED
      BY <3>1, <3>2
  <2>2. r[f[m]] < r[f[n]]
    BY <1>3, <2>1
  <2>3. r[f[m]] \in Nat /\ r[f[n]] \in Nat
    BY <1>2, <2>1
  <2> QED
    BY <2>2, <2>3
<1>6. ASSUME NEW b \in B
      PROVE  b \div 4 \in T
  <2>1. b \in Nat /\ b >= 4 /\ sz[b] \in Nat /\ sz[b] >= 4
        /\ b + sz[b] <= h.brk /\ h.brk <= MaxHeap /\ h.brk \in Nat
    BY ShapeFacts
  <2>2. b + 4 <= MaxHeap
    BY <1>2, <2>1
  <2> QED
    BY <1>2, <2>1, <2>2 DEF MostBlocks
<1>7. ASSUME NEW b \in B, NEW c \in B, b < c
      PROVE  b \div 4 # c \div 4
  <2>1. b \in Nat /\ c \in Nat /\ b + sz[b] <= c /\ sz[b] \in Nat /\ sz[b] >= 4
    BY <1>7, ShapeFacts
  <2>2. b + 4 <= c
    BY <2>1
  <2> QED
    BY <2>1, <2>2
<1>8. g \in [0 .. N -> T]
  BY <1>4, <1>6
<1>9. \A m, n \in 0 .. N : m # n => g[m] # g[n]
  <2> SUFFICES ASSUME NEW m \in 0 .. N, NEW n \in 0 .. N, m # n
               PROVE  f[m] \div 4 # f[n] \div 4
    OBVIOUS
  <2>1. f[m] \in B /\ f[n] \in B /\ f[m] # f[n]
    BY <1>4, <1>5
  <2>2. \A b \in B : b \in Nat
    BY ShapeFacts
  <2>3. f[m] < f[n] \/ f[n] < f[m]
    BY <2>1, <2>2
  <2> QED
    BY <1>7, <2>1, <2>3
<1> HIDE DEF g, N
<1>10. IsFiniteSet(0 .. N) /\ Cardinality(0 .. N) = N + 1
  <2>1. 0 \in Int /\ N \in Int /\ ~ (0 > N)
    BY <1>2
  <2>2. Cardinality(0 .. N) = N - 0 + 1 /\ IsFiniteSet(0 .. N)
    BY <2>1, FS_Interval
  <2> QED
    BY <1>2, <2>2
<1>11. IsFiniteSet(T) /\ Cardinality(T) < N + 1
  <2>1. 1 \in Int /\ N - 1 \in Int
    BY <1>2
  <2>2. IsFiniteSet(T)
        /\ Cardinality(T) = IF 1 > N - 1 THEN 0 ELSE (N - 1) - 1 + 1
    BY <2>1, FS_Interval
  <2> QED
    BY <1>2, <2>2
<1>12. Cardinality(T) < Cardinality(0 .. N)
  BY <1>10, <1>11
<1> HIDE DEF T
<1>13. \E m, n \in 0 .. N : m # n /\ g[m] = g[n]
  BY <1>8, <1>10, <1>11, <1>12, FS_PigeonHole
<1> QED
  BY <1>9, <1>13

(* The list of a good heap holds its free blocks, each one once.           *)
LEMMA GoodLists ==
  ASSUME NEW B, NEW sz, NEW U, Good(heap, B, sz, U)
  PROVE  ListsTheFree
<1> DEFINE L == B \ U
           N == MostBlocks
           f == FreeList(heap)
           listed == {n \in DOMAIN f : f[n] # NoBlock}
<1>1. Shape(heap, B, sz, U) /\ HeapBlocks = B /\ Chain(heap, L)
  BY BlocksAre DEF Good
<1>2. PICK r : Links(heap, L, r)
  BY <1>1 DEF Chain
<1>3. /\ DOMAIN f = 0 .. N /\ f[0] = heap.free_listp
      /\ \A n \in 0 .. N : f[n] \in L \cup {NoBlock}
      /\ \A n \in 1 .. N : f[n] = IF f[n - 1] = NoBlock THEN NoBlock
                                  ELSE SUCC(heap, f[n - 1])
  <2> HIDE DEF L
  <2> QED
    BY <1>1, FreeListReads
<1>4. f[N] = NoBlock
  BY <1>1, ListEnds
<1>5. N \in Nat /\ r \in [L -> Nat]
  BY <1>2, MostIsNat DEF Links
<1>6. \A b \in L : b # NoBlock
  BY <1>1, ShapeFacts
<1>7. {bp \in HeapBlocks : IsFree(bp)} = L
  <2>1. \A bp \in B : IsFree(bp) <=> bp \notin U
    BY <1>1, FreeIs
  <2> QED
    BY <1>1, <2>1
<1> HIDE DEF f, N, L
<1> DEFINE Seen == {k \in Nat : \A b \in L : r[b] < k =>
                                  \E n \in 0 .. N : f[n] = b}
<1>8. 0 \in Seen
  BY <1>5
<1>9. ASSUME NEW k \in Nat, k \in Seen
      PROVE  k + 1 \in Seen
  <2> SUFFICES ASSUME NEW b \in L, r[b] < k + 1
               PROVE  \E n \in 0 .. N : f[n] = b
    OBVIOUS
  <2> DEFINE c == PRED(heap, b)
  <2>1. /\ c \in L \cup {NoBlock}
        /\ c = NoBlock => b = heap.free_listp
        /\ c # NoBlock => SUCC(heap, c) = b
    BY <1>2, LinkFacts
  <2> HIDE DEF c
  <2>2. CASE c = NoBlock
    <3>1. 0 \in 0 .. N
      BY <1>5
    <3> QED
      BY <1>3, <2>1, <2>2, <3>1
  <2>3. CASE c # NoBlock
    <3>1. c \in L /\ SUCC(heap, c) = b /\ b # NoBlock
      BY <1>6, <2>1, <2>3
    <3>2. r[c] < r[b]
      BY <1>2, <3>1, LinkFacts
    <3>3. r[c] < k
      <4>1. r[c] \in Nat /\ r[b] \in Nat
        BY <1>5, <3>1
      <4> QED
        BY <3>2, <4>1
    <3>4. PICK n \in 0 .. N : f[n] = c
      BY <1>9, <3>1, <3>3
    <3>5. n # N
      BY <1>4, <2>3, <3>4
    <3>6. n + 1 \in 1 .. N /\ n + 1 \in 0 .. N /\ (n + 1) - 1 = n
      BY <1>5, <3>5
    <3>7. f[n + 1] = b
      BY <1>3, <2>3, <3>1, <3>4, <3>6
    <3> QED
      BY <3>6, <3>7
  <2> QED
    BY <2>2, <2>3
<1>10. \A k \in Nat : k \in Seen
  <2> HIDE DEF Seen
  <2> QED
    BY <1>8, <1>9, Counting
<1>11. \A b \in L : \E n \in 0 .. N : f[n] = b
  <2> SUFFICES ASSUME NEW b \in L
               PROVE  \E n \in 0 .. N : f[n] = b
    OBVIOUS
  <2>1. r[b] \in Nat /\ r[b] + 1 \in Nat /\ r[b] < r[b] + 1
    BY <1>5
  <2> QED
    BY <1>10, <2>1
<1>12. {f[n] : n \in listed} = {bp \in HeapBlocks : IsFree(bp)}
  <2>1. {f[n] : n \in listed} = L
    BY <1>3, <1>6, <1>11
  <2> QED
    BY <1>7, <2>1
<1>13. ASSUME NEW n \in listed
       PROVE  PRED(heap, f[n]) = IF n = 0 THEN NoBlock ELSE f[n - 1]
  <2>1. n \in 0 .. N /\ f[n] # NoBlock
    BY <1>3
  <2>2. f[n] \in L
    BY <1>3, <2>1
  <2>3. CASE n = 0
    <3>1. PRED(heap, f[n]) = NoBlock
      BY <1>2, <1>3, <2>2, <2>3, LinkFacts
    <3> QED
      BY <2>3, <3>1
  <2>4. CASE n # 0
    <3>1. n \in 1 .. N /\ n - 1 \in 0 .. N
      BY <1>5, <2>1, <2>4
    <3>2. f[n - 1] # NoBlock /\ f[n] = SUCC(heap, f[n - 1])
      BY <1>3, <2>1, <3>1
    <3>3. f[n - 1] \in L
      BY <1>3, <3>1, <3>2
    <3>4. PRED(heap, SUCC(heap, f[n - 1])) = f[n - 1]
      BY <1>2, <2>1, <3>2, <3>3, LinkFacts
    <3> QED
      BY <2>4, <3>2, <3>4
  <2> QED
    BY <2>3, <2>4
<1> QED
  BY <1>4, <1>12, <1>13 DEF ListsTheFree, f, N

-----------------------------------------------------------------------------
(* Alignment: what mm_malloc() and mm_realloc() return to the driver is    *)
(* the address of an even word of the memory, and free_listp, brk and the  *)
(* words of the heap stay in their ranges.                                 *)
THEOREM MallocTypeCorrect == MallocSpec => []MallocTypeOK
<1>1. MallocInv => MallocTypeOK
  BY DEF MallocInv
<1> QED
  BY <1>1, MallocInvariance, PTL

(* After any calls, and into the next traces until mm_init() finds a list  *)
(* it cannot start from, the headers lead from block to block up to the    *)
(* epilogue, and each footer says what its header says: what coalesce(),   *)
(* mm_free() and mm_realloc() read of the neighbours is true.              *)
THEOREM HeapTiled == MallocSpec => []Tiled
<1>1. MallocInv => Tiled
  <2>1. CASE stale
    BY <2>1 DEF Tiled
  <2>2. CASE ~stale
    BY <2>2, GoodTiled DEF MallocInv, Owned
  <2> QED
    BY <2>1, <2>2
<1> QED
  BY <1>1, MallocInvariance, PTL

(* No two free blocks are ever neighbours between calls: coalesce() joins  *)
(* what it is given with both sides, and place() and mm_realloc() leave no *)
(* free block beside another.                                              *)
THEOREM NeighboursCoalesced == MallocSpec => []Coalesced
<1>1. MallocInv => Coalesced
  <2>1. CASE stale
    BY <2>1 DEF Coalesced
  <2>2. CASE ~stale
    BY <2>2, GoodCoalesced DEF MallocInv, Owned
  <2> QED
    BY <2>1, <2>2
<1> QED
  BY <1>1, MallocInvariance, PTL

(* Until mm_init() finds a list it cannot start from, the list that        *)
(* find_fit() walks has no cycle, holds each free block and no other, and  *)
(* its two links agree.                                                    *)
THEOREM FreeBlocksListed == MallocSpec => []ListsTheFree
<1>1. MallocInv => ListsTheFree
  <2>1. CASE stale
    BY <2>1 DEF ListsTheFree
  <2>2. CASE ~stale
    BY <2>2, GoodLists DEF MallocInv, Owned
  <2> QED
    BY <2>1, <2>2
<1> QED
  BY <1>1, MallocInvariance, PTL

(* What the driver writes into a block stays there until it frees it,      *)
(* through every other call and through the copy of mm_realloc(); and no   *)
(* block is allocated that the driver does not hold.                       *)
THEOREM LiveBlocksIntact == MallocSpec => []LiveIntact
<1>1. MallocInv => LiveIntact
  <2>1. CASE stale
    BY <2>1 DEF LiveIntact
  <2>2. CASE ~stale
    BY <2>2, GoodLive DEF MallocInv, Owned
  <2> QED
    BY <2>1, <2>2
<1> QED
  BY <1>1, MallocInvariance, PTL

(* Whatever was allocated, grown and freed in a trace, if it has all been  *)
(* freed then the list is the first block alone, and mm_init() may start   *)
(* the next trace from it.                                                 *)
THEOREM BalancedTracesReset == MallocSpec => []BalancedResets
<1>1. MallocInv => BalancedResets
  <2> SUFFICES ASSUME MallocInv, ~stale, \A i \in Ids : live[i] = Absent
               PROVE  Startable(heap)
    BY DEF BalancedResets
  <2>1. PICK B, sz, U : Good(heap, B, sz, U) /\ Held(heap, live, sz, U)
    BY DEF MallocInv, Owned
  <2>2. U = {}
    BY <2>1 DEF Held
  <2>3. heap.free_listp = 4 /\ heap.mem[4] = 0 /\ heap.mem[5] = 0
    BY <2>1, <2>2, OneFree
  <2>4. 4 + 1 = 5
    OBVIOUS
  <2> QED
    BY <2>3, <2>4 DEF Startable, PRED, SUCC, NoBlock
<1> QED
  BY <1>1, MallocInvariance, PTL
=============================================================================
