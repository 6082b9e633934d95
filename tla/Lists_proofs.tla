---------------------------- MODULE Lists_proofs ----------------------------
(***************************************************************************)
(* What lib/kernel/list.c does to a list, for lists of any length over any *)
(* elements: an insertion in order, a pop of the front and a stable sort   *)
(* keep the elements, add no duplicate and leave the list in order.  The   *)
(* modules write the three as expressions on sequences; these lemmas are   *)
(* about those expressions.                                                *)
(***************************************************************************)
EXTENDS Integers, SequencesExt, FiniteSetTheorems, TLAPS

(* Min, as SequencesExt defines it, of a nonempty set of numbers is one  *)
(* of them and none is smaller.                                          *)
LEMMA MinOfNats ==
  ASSUME NEW S, S \subseteq Nat, S # {}
  PROVE  Min(S) \in S /\ \A n \in S : Min(S) <= n
<1> DEFINE less == OpToRel(<, Nat)
<1>1. \E x \in S : \A y \in S : ~ (<<y, x>> \in less)
  BY NatLessThanWellFounded, WFMin, Zenon
<1>2. \A x, y \in Nat : x < y => <<x, y>> \in less
  BY DEF OpToRel
<1> HIDE DEF less
<1>3. PICK x \in S : \A y \in S : ~ (<<y, x>> \in less)
  BY <1>1
<1>4. \A y \in S : ~ (y < x)
  BY <1>2, <1>3
<1>5. \A y \in S : x <= y
  BY <1>4
<1> QED
  BY <1>3, <1>5 DEF Min

(* InsertAt puts x at position k and moves the elements from k on by     *)
(* one.                                                                  *)
LEMMA InsertAtPointwise ==
  ASSUME NEW S, NEW s \in Seq(S), NEW x \in S, NEW k \in 1 .. Len(s) + 1
  PROVE  /\ InsertAt(s, k, x) \in Seq(S)
         /\ Len(InsertAt(s, k, x)) = Len(s) + 1
         /\ \A i \in 1 .. Len(s) + 1 :
              InsertAt(s, k, x)[i] = IF i < k THEN s[i]
                                     ELSE IF i = k THEN x
                                     ELSE s[i - 1]
<1> DEFINE a == SubSeq(s, 1, k - 1)
           c == SubSeq(s, k, Len(s))
           b == a \o <<x>>
<1>1. /\ a \in Seq(S) /\ Len(a) = k - 1
      /\ \A i \in 1 .. k - 1 : a[i] = s[i]
  OBVIOUS
<1>2. /\ c \in Seq(S) /\ Len(c) = Len(s) - k + 1
      /\ \A i \in 1 .. Len(s) - k + 1 : c[i] = s[k + i - 1]
  OBVIOUS
<1>4. InsertAt(s, k, x) = b \o c
  BY DEF InsertAt
<1> HIDE DEF a, c
<1>3. /\ b \in Seq(S) /\ Len(b) = k
      /\ \A i \in 1 .. k - 1 : b[i] = s[i]
      /\ b[k] = x
  BY <1>1
<1> HIDE DEF b
<1>5. /\ b \o c \in Seq(S) /\ Len(b \o c) = Len(s) + 1
      /\ \A i \in 1 .. Len(s) + 1 :
           (b \o c)[i] = IF i <= k THEN b[i] ELSE c[i - k]
  <2>1. /\ b \o c \in Seq(S) /\ Len(b \o c) = Len(b) + Len(c)
        /\ \A i \in 1 .. Len(b) + Len(c) :
             (b \o c)[i] = IF i <= Len(b) THEN b[i] ELSE c[i - Len(b)]
    BY <1>2, <1>3
  <2>2. Len(b) + Len(c) = Len(s) + 1
    BY <1>2, <1>3
  <2> QED
    BY <1>3, <2>1, <2>2
<1> SUFFICES ASSUME NEW i \in 1 .. Len(s) + 1
             PROVE  (b \o c)[i] = IF i < k THEN s[i]
                                   ELSE IF i = k THEN x
                                   ELSE s[i - 1]
  BY <1>4, <1>5
<1> QED
  BY <1>2, <1>3, <1>5

(* The range and the injectivity of a sequence, by positions.            *)
LEMMA SeqSet ==
  ASSUME NEW S, NEW s \in Seq(S)
  PROVE  /\ \A v : v \in Range(s) <=> \E i \in 1 .. Len(s) : s[i] = v
         /\ IsInjective(s) <=> \A i, j \in 1 .. Len(s) : s[i] = s[j] => i = j
<1>1. DOMAIN s = 1 .. Len(s)
  OBVIOUS
<1> QED
  BY <1>1 DEF Range, IsInjective

(* An insertion adds the one element inserted, and no duplicate if it    *)
(* was not there.                                                        *)
LEMMA InsertAtSet ==
  ASSUME NEW S, NEW s \in Seq(S), NEW x \in S, NEW k \in 1 .. Len(s) + 1
  PROVE  /\ Range(InsertAt(s, k, x)) = Range(s) \cup {x}
         /\ IsInjective(s) /\ x \notin Range(s) =>
              IsInjective(InsertAt(s, k, x))
<1> DEFINE r == InsertAt(s, k, x)
<1>1. /\ r \in Seq(S) /\ Len(r) = Len(s) + 1
      /\ \A i \in 1 .. Len(s) + 1 :
           r[i] = IF i < k THEN s[i] ELSE IF i = k THEN x ELSE s[i - 1]
  BY InsertAtPointwise
<1> HIDE DEF r
<1>2. \A i \in 1 .. Len(s) : \E j \in 1 .. Len(r) : r[j] = s[i]
  <2> SUFFICES ASSUME NEW i \in 1 .. Len(s)
               PROVE  \E j \in 1 .. Len(r) : r[j] = s[i]
    OBVIOUS
  <2>1. CASE i < k
    <3>1. i \in 1 .. Len(r) /\ r[i] = s[i]
      BY <1>1, <2>1
    <3> QED
      BY <3>1
  <2>2. CASE i >= k
    <3>1. /\ i + 1 \in 1 .. Len(r) /\ ~ (i + 1 < k) /\ i + 1 # k
          /\ (i + 1) - 1 = i
      BY <1>1, <2>2
    <3>2. r[i + 1] = s[i]
      BY <1>1, <3>1
    <3> QED
      BY <3>1, <3>2
  <2> QED
    BY <2>1, <2>2
<1>3. k \in 1 .. Len(r) /\ r[k] = x
  BY <1>1
<1>4. \A i \in 1 .. Len(r) : r[i] = x \/ \E j \in 1 .. Len(s) : r[i] = s[j]
  BY <1>1
<1>5. Range(r) = Range(s) \cup {x}
  <2>1. \A v : v \in Range(r) <=> \E i \in 1 .. Len(r) : r[i] = v
    BY <1>1, SeqSet
  <2>2. \A v : v \in Range(s) <=> \E i \in 1 .. Len(s) : s[i] = v
    BY SeqSet
  <2>3. \A v \in Range(r) : v \in Range(s) \/ v = x
    BY <1>4, <2>1, <2>2
  <2>4. \A v \in Range(s) : v \in Range(r)
    BY <1>2, <2>1, <2>2
  <2>5. x \in Range(r)
    BY <1>3, <2>1
  <2> QED
    BY <2>3, <2>4, <2>5
<1>6. ASSUME IsInjective(s), x \notin Range(s)
      PROVE  IsInjective(r)
  <2>1. \A i \in 1 .. Len(s) : s[i] # x
    BY <1>6, SeqSet
  <2>2. \A i, j \in 1 .. Len(s) : s[i] = s[j] => i = j
    BY <1>6, SeqSet
  <2> SUFFICES ASSUME NEW i \in 1 .. Len(r), NEW j \in 1 .. Len(r),
                      r[i] = r[j]
               PROVE  i = j
    BY <1>1, SeqSet
  <2>3. CASE i < k /\ j < k
    BY <1>1, <2>2, <2>3
  <2>4. CASE i > k /\ j > k
    <3>1. i - 1 \in 1 .. Len(s) /\ j - 1 \in 1 .. Len(s)
      BY <1>1, <2>4
    <3>2. s[i - 1] = s[j - 1]
      BY <1>1, <2>4
    <3> QED
      BY <2>2, <3>1, <3>2
  <2>5. CASE i < k /\ j > k
    <3>1. i \in 1 .. Len(s) /\ j - 1 \in 1 .. Len(s) /\ i # j - 1
      BY <1>1, <2>5
    <3>2. s[i] = s[j - 1]
      BY <1>1, <2>5
    <3> QED
      BY <2>2, <3>1, <3>2
  <2>6. CASE i > k /\ j < k
    <3>1. j \in 1 .. Len(s) /\ i - 1 \in 1 .. Len(s) /\ j # i - 1
      BY <1>1, <2>6
    <3>2. s[j] = s[i - 1]
      BY <1>1, <2>6
    <3> QED
      BY <2>2, <3>1, <3>2
  <2>7. CASE i = k /\ j # k
    BY <1>1, <2>1, <2>7
  <2>8. CASE i # k /\ j = k
    BY <1>1, <2>1, <2>8
  <2> QED
    BY <1>1, <2>3, <2>4, <2>5, <2>6, <2>7, <2>8
<1> QED
  BY <1>5, <1>6 DEF r

(* The head and the tail of a nonempty sequence, by positions.           *)
LEMMA TailPointwise ==
  ASSUME NEW S, NEW s \in Seq(S), s # <<>>
  PROVE  /\ Head(s) = s[1] /\ Head(s) \in S /\ Tail(s) \in Seq(S)
         /\ Len(Tail(s)) = Len(s) - 1
         /\ \A i \in 1 .. Len(s) - 1 : Tail(s)[i] = s[i + 1]
  OBVIOUS

(* list_pop_front takes the front element, and nothing else, out of a    *)
(* list without duplicates.                                              *)
LEMMA TailSet ==
  ASSUME NEW S, NEW s \in Seq(S), s # <<>>, IsInjective(s)
  PROVE  /\ Range(Tail(s)) = Range(s) \ {Head(s)}
         /\ IsInjective(Tail(s))
         /\ Head(s) \in Range(s)
<1> DEFINE r == Tail(s)
<1>1. /\ Head(s) = s[1] /\ Len(s) \in Nat /\ Len(s) >= 1
      /\ r \in Seq(S) /\ Len(r) = Len(s) - 1
      /\ \A i \in 1 .. Len(s) - 1 : r[i] = s[i + 1]
  BY TailPointwise
<1>2. \A i, j \in 1 .. Len(s) : s[i] = s[j] => i = j
  BY DEF IsInjective
<1> HIDE DEF r
<1>3. \A i \in 1 .. Len(r) : i + 1 \in 1 .. Len(s) /\ i + 1 # 1
  BY <1>1
<1>4. \A i \in 1 .. Len(s) : i # 1 => i - 1 \in 1 .. Len(r) /\ r[i - 1] = s[i]
  BY <1>1
<1>5. Range(r) = Range(s) \ {Head(s)}
  <2>1. \A v \in Range(r) : v \in Range(s) /\ v # s[1]
    BY <1>1, <1>2, <1>3 DEF Range
  <2>2. \A v \in Range(s) : v # s[1] => v \in Range(r)
    BY <1>1, <1>4 DEF Range
  <2> QED
    BY <1>1, <2>1, <2>2
<1>6. IsInjective(r)
  BY <1>1, <1>2, <1>3 DEF IsInjective
<1>7. Head(s) \in Range(s)
  BY <1>1 DEF Range
<1> QED
  BY <1>5, <1>6, <1>7 DEF r

(* An insertion in front of the first position of L, or at the end when  *)
(* L is empty: the shape of list_insert_ordered for any order.           *)
LEMMA InsertMin ==
  ASSUME NEW S, NEW s \in Seq(S), NEW x \in S, NEW L, L \subseteq 1 .. Len(s)
  PROVE  LET r == InsertAt(s, Min(L \cup {Len(s) + 1}), x)
         IN  /\ r \in Seq(S)
             /\ Range(r) = Range(s) \cup {x}
             /\ IsInjective(s) /\ x \notin Range(s) => IsInjective(r)
<1> DEFINE k == Min(L \cup {Len(s) + 1})
<1>1. Len(s) \in Nat /\ Len(s) + 1 \in 1 .. Len(s) + 1
  OBVIOUS
<1>2. \A i \in L \cup {Len(s) + 1} : i \in 1 .. Len(s) + 1
  BY <1>1
<1>3. L \cup {Len(s) + 1} \subseteq Nat /\ L \cup {Len(s) + 1} # {}
  <2>1. \A i \in 1 .. Len(s) + 1 : i \in Nat
    OBVIOUS
  <2> QED
    BY <1>2, <2>1
<1>4. k \in L \cup {Len(s) + 1}
  BY <1>3, MinOfNats
<1>5. k \in 1 .. Len(s) + 1
  BY <1>2, <1>4
<1> HIDE DEF k
<1>6. /\ InsertAt(s, k, x) \in Seq(S)
      /\ Range(InsertAt(s, k, x)) = Range(s) \cup {x}
      /\ IsInjective(s) /\ x \notin Range(s) =>
           IsInjective(InsertAt(s, k, x))
  BY <1>5, InsertAtPointwise, InsertAtSet
<1> QED
  BY <1>6 DEF k
-----------------------------------------------------------------------------
(* The elements of s in descending order of their keys.                    *)
Descending(s, key) ==
  \A i, j \in 1 .. Len(s) : i < j => key[s[i]] >= key[s[j]]

(* An insertion in front of the first element of L, when L is where the    *)
(* keys are no greater than x's and outside L they are no smaller, keeps a *)
(* list in order.                                                          *)
LEMMA InsertMinOrdered ==
  ASSUME NEW S, NEW s \in Seq(S), NEW x \in S, NEW key \in [S -> Int],
         NEW L, L \subseteq 1 .. Len(s),
         \A i \in L : key[x] >= key[s[i]],
         \A i \in (1 .. Len(s)) \ L : key[s[i]] >= key[x],
         Descending(s, key)
  PROVE  Descending(InsertAt(s, Min(L \cup {Len(s) + 1}), x), key)
<1> DEFINE k == Min(L \cup {Len(s) + 1})
           r == InsertAt(s, k, x)
<1>1. /\ Len(s) \in Nat /\ L \cup {Len(s) + 1} \subseteq Nat
      /\ L \cup {Len(s) + 1} # {}
      /\ \A i \in 1 .. Len(s) : s[i] \in S
  <2>1. /\ Len(s) \in Nat /\ Len(s) + 1 \in Nat
        /\ \A i \in 1 .. Len(s) : i \in Nat /\ s[i] \in S
    OBVIOUS
  <2>2. \A i \in L \cup {Len(s) + 1} : i \in Nat
    BY <2>1
  <2> QED
    BY <2>1, <2>2
<1>2. k \in L \cup {Len(s) + 1} /\ \A i \in L : k <= i
  BY <1>1, MinOfNats
<1> HIDE DEF k
<1>3. k \in 1 .. Len(s) + 1
  BY <1>1, <1>2
<1>4. /\ Len(r) = Len(s) + 1
      /\ \A i \in 1 .. Len(s) + 1 :
           r[i] = IF i < k THEN s[i] ELSE IF i = k THEN x ELSE s[i - 1]
  BY <1>3, InsertAtPointwise
<1> HIDE DEF r
<1> DEFINE v(i) == key[s[i]]
<1>5. /\ key[x] \in Int
      /\ \A i \in 1 .. Len(s) : v(i) \in Int
  BY <1>1
<1>6. \A i \in 1 .. Len(s) : i < k => v(i) >= key[x]
  BY <1>2
<1>7. \A i \in 1 .. Len(s) : i >= k => key[x] >= v(i)
  <2> SUFFICES ASSUME NEW i \in 1 .. Len(s), i >= k
               PROVE  key[x] >= v(i)
    OBVIOUS
  <2>1. k \in L
    BY <1>1, <1>2, <1>3
  <2>2. key[x] >= v(k) /\ k \in 1 .. Len(s)
    BY <2>1
  <2>3. k < i => v(k) >= v(i)
    BY <2>2 DEF Descending
  <2> QED
    BY <1>3, <1>5, <2>2, <2>3
<1>8. \A i, j \in 1 .. Len(s) : i < j => v(i) >= v(j)
  BY DEF Descending
<1> SUFFICES ASSUME NEW i \in 1 .. Len(s) + 1, NEW j \in 1 .. Len(s) + 1,
                    i < j
             PROVE  key[r[i]] >= key[r[j]]
  BY <1>4 DEF Descending, r, k
<1>9. CASE j < k
  <2>1. /\ r[i] = s[i] /\ r[j] = s[j]
        /\ i \in 1 .. Len(s) /\ j \in 1 .. Len(s)
    BY <1>3, <1>4, <1>9
  <2> QED
    BY <1>8, <2>1
<1>10. CASE j = k
  <2>1. r[i] = s[i] /\ r[j] = x /\ i \in 1 .. Len(s) /\ i < k
    BY <1>3, <1>4, <1>10
  <2> QED
    BY <1>6, <2>1
<1>11. CASE i = k
  <2>1. r[i] = x /\ r[j] = s[j - 1] /\ j - 1 \in 1 .. Len(s) /\ j - 1 >= k
    BY <1>3, <1>4, <1>11
  <2> QED
    BY <1>7, <2>1
<1>12. CASE i > k
  <2>1. /\ r[i] = s[i - 1] /\ r[j] = s[j - 1]
        /\ i - 1 \in 1 .. Len(s) /\ j - 1 \in 1 .. Len(s) /\ i - 1 < j - 1
    BY <1>3, <1>4, <1>12
  <2> QED
    BY <1>8, <2>1
<1>13. CASE i < k /\ k < j
  <2>1. /\ r[i] = s[i] /\ r[j] = s[j - 1]
        /\ i \in 1 .. Len(s) /\ j - 1 \in 1 .. Len(s)
        /\ i < k /\ j - 1 >= k
    BY <1>3, <1>4, <1>13
  <2>2. v(i) >= key[x] /\ key[x] >= v(j - 1)
    BY <1>6, <1>7, <2>1
  <2> QED
    BY <1>5, <2>1, <2>2
<1> QED
  BY <1>3, <1>9, <1>10, <1>11, <1>12, <1>13

(* Popping the front of an ordered list leaves it ordered, and no element  *)
(* left has a greater key.                                                 *)
LEMMA TailOrdered ==
  ASSUME NEW S, NEW s \in Seq(S), s # <<>>, NEW key, Descending(s, key)
  PROVE  /\ Descending(Tail(s), key)
         /\ \A x \in Range(Tail(s)) : key[Head(s)] >= key[x]
<1> DEFINE r == Tail(s)
<1>1. /\ Head(s) = s[1] /\ r \in Seq(S) /\ Len(r) = Len(s) - 1
      /\ Len(s) \in Nat /\ Len(s) >= 1
      /\ \A i \in 1 .. Len(s) - 1 : r[i] = s[i + 1]
  BY TailPointwise
<1> HIDE DEF r
<1>2. \A i \in 1 .. Len(r) :
        i + 1 \in 1 .. Len(s) /\ 1 < i + 1 /\ r[i] = s[i + 1]
  BY <1>1
<1>3. 1 \in 1 .. Len(s)
  BY <1>1
<1>4. \A i \in 1 .. Len(r) : key[s[1]] >= key[r[i]]
  BY <1>2, <1>3 DEF Descending
<1>5. \A x \in Range(r) : key[s[1]] >= key[x]
  BY <1>1, <1>4, SeqSet
<1>6. \A i, j \in 1 .. Len(r) : i < j => i + 1 < j + 1
  OBVIOUS
<1>7. Descending(r, key)
  BY <1>2, <1>6 DEF Descending
<1> QED
  BY <1>1, <1>5, <1>7 DEF r

(* A change of keys that no element's is part of leaves a list in order.   *)
LEMMA SameKeysOrdered ==
  ASSUME NEW S, NEW s \in Seq(S), NEW key, NEW newkey, Descending(s, key),
         \A x \in Range(s) : newkey[x] = key[x]
  PROVE  Descending(s, newkey)
<1>1. \A i \in 1 .. Len(s) : newkey[s[i]] = key[s[i]]
  BY SeqSet
<1> QED
  BY <1>1 DEF Descending
-----------------------------------------------------------------------------
(* The sort.  Position i of the list goes to the position that counts the  *)
(* positions not behind it, B[i].  If of any two positions exactly one is  *)
(* behind the other, and what is not behind j is not behind what j is not  *)
(* behind, then every position is taken, once.                             *)
LEMMA RanksDistinct ==
  ASSUME NEW n \in Nat, NEW B \in [1 .. n -> SUBSET (1 .. n)],
         \A i \in 1 .. n : i \in B[i],
         \A i, j \in 1 .. n : j \in B[i] => B[j] \subseteq B[i],
         \A i, j \in 1 .. n : i # j => (j \in B[i] <=> i \notin B[j])
  PROVE  /\ \A i \in 1 .. n : Cardinality(B[i]) \in 1 .. n
         /\ \A i, j \in 1 .. n :
              Cardinality(B[i]) < Cardinality(B[j]) => i \in B[j]
         /\ \A i, j \in 1 .. n :
              Cardinality(B[i]) = Cardinality(B[j]) => i = j
         /\ \A k \in 1 .. n : \E i \in 1 .. n : Cardinality(B[i]) = k
<1> DEFINE rank == [i \in 1 .. n |-> Cardinality(B[i])]
<1>1. IsFiniteSet(1 .. n) /\ Cardinality(1 .. n) = n
  BY FS_Interval
<1>2. \A i \in 1 .. n : /\ IsFiniteSet(B[i]) /\ Cardinality(B[i]) \in Nat
                        /\ Cardinality(B[i]) <= n
  BY <1>1, FS_Subset, FS_CardinalityType
<1>3. \A i \in 1 .. n : Cardinality(B[i]) \in 1 .. n
  <2> SUFFICES ASSUME NEW i \in 1 .. n
               PROVE  Cardinality(B[i]) # 0
    BY <1>2
  <2> QED
    BY <1>2, FS_EmptySet
<1>4. \A i, j \in 1 .. n :
        i # j /\ j \in B[i] => Cardinality(B[j]) < Cardinality(B[i])
  <2> SUFFICES ASSUME NEW i \in 1 .. n, NEW j \in 1 .. n, i # j, j \in B[i]
               PROVE  Cardinality(B[j]) < Cardinality(B[i])
    OBVIOUS
  <2>1. B[j] \subseteq B[i] /\ B[j] # B[i]
    OBVIOUS
  <2>2. /\ Cardinality(B[j]) <= Cardinality(B[i])
        /\ Cardinality(B[i]) = Cardinality(B[j]) => B[i] = B[j]
    BY <1>2, <2>1, FS_Subset
  <2> QED
    BY <1>2, <2>1, <2>2
<1>5. \A i, j \in 1 .. n : Cardinality(B[i]) = Cardinality(B[j]) => i = j
  BY <1>2, <1>4
<1>6. \A i, j \in 1 .. n : Cardinality(B[i]) < Cardinality(B[j]) => i \in B[j]
  BY <1>2, <1>4
<1>7. \A k \in 1 .. n : \E i \in 1 .. n : Cardinality(B[i]) = k
  <2>1. rank \in Injection(1 .. n, 1 .. n)
    BY <1>3, <1>5 DEF Injection, IsInjective
  <2>2. rank \in Surjection(1 .. n, 1 .. n)
    BY <1>1, <2>1, FS_Injection
  <2> QED
    BY <2>2 DEF Surjection
<1> QED
  BY <1>3, <1>5, <1>6, <1>7

(* For a stable sort of s in descending order of keys: the positions that  *)
(* are not behind position i.                                              *)
NotBehind(s, key) ==
  [i \in 1 .. Len(s) |-> {j \in 1 .. Len(s) :
     \/ key[s[j]] > key[s[i]]
     \/ j <= i /\ ~ (key[s[i]] > key[s[j]])}]

(* A function on the first n positions is a list of length n.              *)
LEMMA FunIsSeq ==
  ASSUME NEW S, NEW n \in Nat, NEW r \in [1 .. n -> S]
  PROVE  r \in Seq(S) /\ Len(r) = n
  OBVIOUS

LEMMA SortRanks ==
  ASSUME NEW S, NEW s \in Seq(S), NEW key \in [S -> Int]
  PROVE  /\ \A i \in 1 .. Len(s) :
              Cardinality(NotBehind(s, key)[i]) \in 1 .. Len(s)
         /\ \A i, j \in 1 .. Len(s) :
              Cardinality(NotBehind(s, key)[i])
                < Cardinality(NotBehind(s, key)[j])
              => i \in NotBehind(s, key)[j]
         /\ \A i, j \in 1 .. Len(s) :
              Cardinality(NotBehind(s, key)[i])
                = Cardinality(NotBehind(s, key)[j]) => i = j
         /\ \A k \in 1 .. Len(s) : \E i \in 1 .. Len(s) :
              Cardinality(NotBehind(s, key)[i]) = k
<1> DEFINE n == Len(s)
           v(i) == key[s[i]]
           B == NotBehind(s, key)
<1>1. n \in Nat /\ \A i \in 1 .. n : v(i) \in Int
  OBVIOUS
<1>2. /\ B \in [1 .. n -> SUBSET (1 .. n)]
      /\ \A i, j \in 1 .. n :
           j \in B[i] <=> v(j) > v(i) \/ (j <= i /\ ~ (v(i) > v(j)))
  BY DEF NotBehind
<1> HIDE DEF B, v, n
<1>3. /\ \A i \in 1 .. n : i \in B[i]
      /\ \A i, j \in 1 .. n : i # j => (j \in B[i] <=> i \notin B[j])
  BY <1>1, <1>2
<1>4. \A i, j \in 1 .. n : j \in B[i] => B[j] \subseteq B[i]
  <2> SUFFICES ASSUME NEW i \in 1 .. n, NEW j \in 1 .. n, NEW h \in 1 .. n,
                      j \in B[i], h \in B[j]
               PROVE  h \in B[i]
    BY <1>2
  <2>1. /\ v(j) > v(i) \/ (j <= i /\ ~ (v(i) > v(j)))
        /\ v(h) > v(j) \/ (h <= j /\ ~ (v(j) > v(h)))
        /\ v(h) \in Int /\ v(i) \in Int /\ v(j) \in Int
        /\ h \in Int /\ i \in Int /\ j \in Int
    BY <1>1, <1>2
  <2>2. v(h) > v(i) \/ (h <= i /\ ~ (v(i) > v(h)))
    BY <2>1
  <2> QED
    BY <1>2, <2>2
<1>5. /\ \A i \in 1 .. n : Cardinality(B[i]) \in 1 .. n
      /\ \A i, j \in 1 .. n :
           Cardinality(B[i]) < Cardinality(B[j]) => i \in B[j]
      /\ \A i, j \in 1 .. n : Cardinality(B[i]) = Cardinality(B[j]) => i = j
      /\ \A k \in 1 .. n : \E i \in 1 .. n : Cardinality(B[i]) = k
  BY <1>1, <1>2, <1>3, <1>4, RanksDistinct
<1> QED
  BY <1>5 DEF B, n

(* r has at each position k an element of s with k positions not behind    *)
(* its own, ...                                                            *)
ByRank(s, key, r) ==
  \A k \in 1 .. Len(s) : \E i \in 1 .. Len(s) :
     Cardinality(NotBehind(s, key)[i]) = k /\ r[k] = s[i]

(* ... which makes it a permutation of s in descending order of keys.      *)
LEMMA RanksPermute ==
  ASSUME NEW S, NEW s \in Seq(S), NEW key \in [S -> Int],
         NEW r \in Seq(S), Len(r) = Len(s),
         ByRank(s, key, r)
  PROVE  /\ Range(r) = Range(s)
         /\ IsInjective(s) => IsInjective(r)
         /\ Descending(r, key)
<1>a. \A i \in 1 .. Len(s) :
        Cardinality(NotBehind(s, key)[i]) \in 1 .. Len(s)
  BY SortRanks
<1>b. \A i, j \in 1 .. Len(s) :
        Cardinality(NotBehind(s, key)[i]) < Cardinality(NotBehind(s, key)[j])
          => i \in NotBehind(s, key)[j]
  BY SortRanks
<1>c. \A i, j \in 1 .. Len(s) :
        Cardinality(NotBehind(s, key)[i]) = Cardinality(NotBehind(s, key)[j])
          => i = j
  BY SortRanks
<1> DEFINE n == Len(s)
           v(i) == key[s[i]]
           B == NotBehind(s, key)
           rank(i) == Cardinality(B[i])
<1>1. n \in Nat /\ \A i \in 1 .. n : s[i] \in S /\ v(i) \in Int
  OBVIOUS
<1>2. \A i, j \in 1 .. n : j \in B[i] => v(j) >= v(i)
  BY <1>1 DEF NotBehind
<1>3. /\ \A i \in 1 .. n : rank(i) \in 1 .. n
      /\ \A i, j \in 1 .. n : rank(i) < rank(j) => i \in B[j]
      /\ \A i, j \in 1 .. n : rank(i) = rank(j) => i = j
  BY <1>a, <1>b, <1>c
<1>4. \A k \in 1 .. n : \E i \in 1 .. n : rank(i) = k /\ r[k] = s[i]
  BY DEF ByRank
<1> HIDE DEF B
<1>5. \A i \in 1 .. n : rank(i) \in 1 .. n /\ r[rank(i)] = s[i]
  BY <1>3, <1>4
<1> HIDE DEF rank, n, v
<1>6. r \in Seq(S) /\ Len(r) = n
  BY DEF n
<1>7. Range(r) = Range(s)
  <2>0. \A x : x \in Range(r) <=> \E k \in 1 .. Len(r) : r[k] = x
    BY <1>6, SeqSet
  <2>1. \A x : x \in Range(r) <=> \E k \in 1 .. n : r[k] = x
    BY <1>6, <2>0
  <2>2. \A x : x \in Range(s) <=> \E i \in 1 .. n : s[i] = x
    BY SeqSet DEF n
  <2>3. \A x \in Range(r) : x \in Range(s)
    BY <1>4, <2>1, <2>2
  <2>4. \A x \in Range(s) : x \in Range(r)
    BY <1>5, <2>1, <2>2
  <2> QED
    BY <2>3, <2>4
<1>8. IsInjective(s) => IsInjective(r)
  <2> SUFFICES ASSUME IsInjective(s)
               PROVE  IsInjective(r)
    OBVIOUS
  <2>1. \A i, j \in 1 .. n : s[i] = s[j] => i = j
    BY SeqSet DEF n
  <2>2. ASSUME NEW j \in 1 .. n, NEW k \in 1 .. n, r[j] = r[k]
        PROVE  j = k
    <3>1. PICK a \in 1 .. n : rank(a) = j /\ r[j] = s[a]
      BY <1>4
    <3>2. PICK b \in 1 .. n : rank(b) = k /\ r[k] = s[b]
      BY <1>4
    <3>3. a = b
      BY <2>1, <2>2, <3>1, <3>2
    <3> QED
      BY <3>1, <3>2, <3>3
  <2>3. \A j, k \in 1 .. Len(r) : r[j] = r[k] => j = k
    BY <1>6, <2>2
  <2> QED
    BY <1>6, <2>3, SeqSet
<1>9. \A j, k \in 1 .. n : j < k => key[r[j]] >= key[r[k]]
  <2> SUFFICES ASSUME NEW j \in 1 .. n, NEW k \in 1 .. n, j < k
               PROVE  key[r[j]] >= key[r[k]]
    OBVIOUS
  <2>1. PICK a \in 1 .. n : rank(a) = j /\ r[j] = s[a]
    BY <1>4
  <2>2. PICK b \in 1 .. n : rank(b) = k /\ r[k] = s[b]
    BY <1>4
  <2>3. a \in B[b]
    BY <1>3, <2>1, <2>2
  <2> QED
    BY <1>2, <2>1, <2>2, <2>3 DEF v
<1> QED
  BY <1>6, <1>7, <1>8, <1>9 DEF Descending, n
(* list_sort: the same of the list a sort leaves.                          *)
LEMMA SortPermutes ==
  ASSUME NEW S, NEW s \in Seq(S), NEW key \in [S -> Int],
         NEW r, r = [k \in 1 .. Len(s) |-> r[k]],
         ByRank(s, key, r)
  PROVE  /\ r \in Seq(S) /\ Len(r) = Len(s)
         /\ Range(r) = Range(s)
         /\ IsInjective(s) => IsInjective(r)
         /\ Descending(r, key)
<1>1. Len(s) \in Nat /\ \A i \in 1 .. Len(s) : s[i] \in S
  OBVIOUS
<1>2. \A k \in 1 .. Len(s) : r[k] \in S
  BY <1>1 DEF ByRank
<1>3. r \in [1 .. Len(s) -> S]
  BY <1>2
<1>4. r \in Seq(S) /\ Len(r) = Len(s)
  BY <1>1, <1>3, FunIsSeq
<1> QED
  <2>1. Range(r) = Range(s)
    BY <1>4, RanksPermute
  <2>2. IsInjective(s) => IsInjective(r)
    BY <1>4, RanksPermute
  <2>3. Descending(r, key)
    BY <1>4, RanksPermute
  <2> QED
    BY <1>4, <2>1, <2>2, <2>3
-----------------------------------------------------------------------------
(* A nonempty set of numbers up to b has a maximum, and Max is it.         *)
LEMMA MaxOfBounded ==
  ASSUME NEW b \in Nat, NEW S, S \subseteq 0 .. b, S # {}
  PROVE  Max(S) \in S /\ \A n \in S : n <= Max(S)
<1> DEFINE T == {b - n : n \in S}
<1>1. T \subseteq Nat /\ T # {}
  <2>1. \A n \in S : b - n \in Nat
    <3> SUFFICES ASSUME NEW n \in S
                 PROVE  b - n \in Nat
      OBVIOUS
    <3>1. n \in 0 .. b
      OBVIOUS
    <3> QED
      BY <3>1
  <2>2. PICK n \in S : TRUE
    OBVIOUS
  <2>3. b - n \in T
    BY <2>2
  <2> QED
    BY <2>1, <2>3
<1>2. Min(T) \in T /\ \A m \in T : Min(T) <= m
  BY <1>1, MinOfNats
<1>3. PICK x \in S : Min(T) = b - x
  BY <1>2
<1>4. \A y \in S : b - x <= b - y
  BY <1>2, <1>3
<1>5. \A y \in S : x >= y
  BY <1>4
<1>6. \A y \in S : Max(S) >= y
  BY <1>5 DEF Max
<1>7. Max(S) \in S
  BY <1>5 DEF Max
<1> QED
  BY <1>6, <1>7
=============================================================================
