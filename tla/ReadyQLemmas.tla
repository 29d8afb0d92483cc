---------------------------- MODULE ReadyQLemmas ----------------------------
(***************************************************************************)
(* What the proofs need of natural numbers (the induction principle as a   *)
(* fact about sets) and of the lists of dlist.c; what readyQ_put and       *)
(* readyQ_remove keep, for every number of tasks and of priorities and     *)
(* every width of a bit-map word.                                          *)
(***************************************************************************)
EXTENDS ReadyQ, WellFoundedInduction, TLAPS

LOCAL INSTANCE FiniteSetsExt

-----------------------------------------------------------------------------
(* Natural numbers.                                                        *)

\* Every set of natural numbers that is not empty has a least element.
LEMMA LeastExists ==
  ASSUME NEW S \in SUBSET Nat, S # {}
  PROVE  \E x \in S : \A y \in S : x <= y
<1>1. PICK x \in S : \A y \in S : ~ (<<y, x>> \in OpToRel(<, Nat))
  BY NatLessThanWellFounded, WFMin
<1>2. \A y \in S : x <= y
  <2>1. TAKE y \in S
  <2>2. ~ (y < x)
    BY <1>1 DEF OpToRel
  <2> QED
    BY <2>2
<1> QED
  BY <1>1, <1>2

\* Min chooses that element.
LEMMA MinIsLeast ==
  ASSUME NEW S \in SUBSET Nat, S # {}
  PROVE  Min(S) \in S /\ \A y \in S : Min(S) <= y
  BY LeastExists DEF Min

\* Induction: what holds at 0, and at n + 1 when it holds at n, holds of every
\* natural number.  The statement is the set S of the numbers it holds of.
LEMMA Induction ==
  ASSUME NEW S, 0 \in S, \A n \in Nat : n \in S => n + 1 \in S
  PROVE  \A n \in Nat : n \in S
<1> SUFFICES ASSUME NEW n \in Nat, n \notin S PROVE FALSE
  OBVIOUS
<1> DEFINE T == {i \in Nat : i \notin S}
<1>1. PICK m \in T : \A j \in T : m <= j
  BY LeastExists
<1>2. m - 1 \in Nat /\ m - 1 \notin T
  BY <1>1
<1>3. (m - 1) + 1 \in S
  BY <1>2
<1> QED
  BY <1>1, <1>3

-----------------------------------------------------------------------------
(* The lists of dlist.c, without duplicates.                               *)

\* dlist_remove unlinks exactly the node it is given and keeps the order of
\* the others: the element at j was at j or at j + 1.
LEMMA RemovedList ==
  ASSUME NEW T, NEW s \in Seq(T), NEW i \in 1 .. Len(s), NoDuplicates(s)
  PROVE  /\ dlist_remove(s, s[i]) \in Seq(T)
         /\ Len(dlist_remove(s, s[i])) = Len(s) - 1
         /\ \A j \in 1 .. Len(s) - 1 :
              dlist_remove(s, s[i])[j] = IF j < i THEN s[j] ELSE s[j + 1]
<1> DEFINE c == CHOOSE c \in 1 .. Len(s) : s[c] = s[i]
<1>1. c \in 1 .. Len(s) /\ s[c] = s[i]
  OBVIOUS
<1>2. c = i
  BY <1>1 DEF NoDuplicates
<1> DEFINE r == [j \in 1 .. Len(s) - 1 |-> IF j < i THEN s[j] ELSE s[j + 1]]
<1>3. dlist_remove(s, s[i]) = r
  BY <1>2 DEF dlist_remove
<1>4. Len(s) - 1 \in Nat
  OBVIOUS
<1>5. \A j \in 1 .. Len(s) - 1 : r[j] \in T
  OBVIOUS
<1>6. r \in Seq(T) /\ Len(r) = Len(s) - 1
  BY <1>4, <1>5
<1> QED
  BY <1>3, <1>6

\* The members of the list after dlist_remove are the others, each once, and
\* the first one stays first.
LEMMA RemovedMembers ==
  ASSUME NEW T, NEW s \in Seq(T), NEW e, dlist_check(s, e), NoDuplicates(s),
         NEW r, r = dlist_remove(s, e)
  PROVE  /\ r \in Seq(T)
         /\ Len(r) = Len(s) - 1
         /\ NoDuplicates(r)
         /\ ~ dlist_check(r, e)
         /\ \A x : x # e => (dlist_check(r, x) <=> dlist_check(s, x))
         /\ s[1] # e => Len(r) > 0 /\ r[1] = s[1]
<1>0. PICK i \in 1 .. Len(s) : s[i] = e
  BY DEF dlist_check
<1>1. /\ r \in Seq(T) /\ Len(r) = Len(s) - 1
      /\ \A j \in 1 .. Len(s) - 1 : r[j] = IF j < i THEN s[j] ELSE s[j + 1]
  BY <1>0, RemovedList
<1>2. ~ dlist_check(r, e)
  <2> SUFFICES ASSUME NEW j \in 1 .. Len(r), r[j] = e PROVE FALSE
    BY DEF dlist_check
  <2>1. j \in 1 .. Len(s) /\ j + 1 \in 1 .. Len(s)
    BY <1>1
  <2>2. CASE j < i
    <3>1. s[j] = s[i]
      BY <2>2, <1>0, <1>1
    <3> QED
      BY <3>1, <2>1, <2>2 DEF NoDuplicates
  <2>3. CASE ~ (j < i)
    <3>1. s[j + 1] = s[i]
      BY <2>3, <1>0, <1>1
    <3> QED
      BY <3>1, <2>1, <2>3 DEF NoDuplicates
  <2> QED
    BY <2>2, <2>3
<1>3. ASSUME NEW x, x # e, dlist_check(s, x)
      PROVE  dlist_check(r, x)
  <2>1. PICK m \in 1 .. Len(s) : s[m] = x
    BY <1>3 DEF dlist_check
  <2>2. CASE m < i
    BY <2>1, <2>2, <1>1 DEF dlist_check
  <2>3. CASE m > i
    <3>1. m - 1 \in 1 .. Len(r) /\ r[m - 1] = s[m]
      BY <2>3, <1>1
    <3> QED
      BY <3>1, <2>1 DEF dlist_check
  <2> QED
    BY <1>0, <1>3, <2>1, <2>2, <2>3
<1>4. \A x : dlist_check(r, x) => dlist_check(s, x)
  BY <1>1 DEF dlist_check
<1>5. NoDuplicates(r)
  BY <1>1 DEF NoDuplicates
<1>6. s[1] # e => Len(r) > 0 /\ r[1] = s[1]
  BY <1>0, <1>1
<1> QED
  BY <1>1, <1>2, <1>3, <1>4, <1>5, <1>6

\* dlist_add links a node that was not in the list, at its end.
LEMMA AddedMembers ==
  ASSUME NEW T, NEW s \in Seq(T), NEW e \in T, ~ dlist_check(s, e),
         NoDuplicates(s), NEW r, r = dlist_add(s, e)
  PROVE  /\ r \in Seq(T)
         /\ Len(r) = Len(s) + 1
         /\ NoDuplicates(r)
         /\ \A x : dlist_check(r, x) <=> (x = e \/ dlist_check(s, x))
         /\ Len(s) > 0 => r[1] = s[1]
         /\ Len(s) = 0 => r[1] = e
<1>1. /\ r \in Seq(T) /\ Len(r) = Len(s) + 1
      /\ \A j \in 1 .. Len(s) + 1 : r[j] = IF j <= Len(s) THEN s[j] ELSE e
  BY DEF dlist_add
<1>2. NoDuplicates(r)
  BY <1>1 DEF NoDuplicates, dlist_check
<1>3. \A x : dlist_check(r, x) <=> (x = e \/ dlist_check(s, x))
  BY <1>1 DEF dlist_check
<1> QED
  BY <1>1, <1>2, <1>3

\* dlist_get takes the first node from the list.
LEMMA RestMembers ==
  ASSUME NEW T, NEW s \in Seq(T), ~ DL_EMPTY(s), NoDuplicates(s),
         NEW r, r = dlist_rest(s)
  PROVE  /\ DL_FIRST(s) \in T /\ dlist_check(s, DL_FIRST(s))
         /\ r \in Seq(T)
         /\ NoDuplicates(r)
         /\ ~ dlist_check(r, DL_FIRST(s))
         /\ \A x : x # DL_FIRST(s) => (dlist_check(r, x) <=> dlist_check(s, x))
<1>1. Len(s) \in Nat /\ Len(s) > 0 /\ 1 \in 1 .. Len(s)
  BY DEF DL_EMPTY
<1>2. /\ r \in Seq(T) /\ Len(r) = Len(s) - 1
      /\ \A j \in 1 .. Len(s) - 1 : r[j] = s[j + 1]
  BY <1>1 DEF dlist_rest
<1>3. DL_FIRST(s) \in T /\ dlist_check(s, DL_FIRST(s))
  BY <1>1 DEF DL_FIRST, dlist_check
<1>4. NoDuplicates(r) /\ ~ dlist_check(r, DL_FIRST(s))
  BY <1>1, <1>2 DEF NoDuplicates, DL_FIRST, dlist_check
<1>5. \A x : dlist_check(r, x) => dlist_check(s, x)
  BY <1>1, <1>2 DEF dlist_check
<1>6. ASSUME NEW x, x # DL_FIRST(s), dlist_check(s, x)
      PROVE  dlist_check(r, x)
  <2>1. PICK m \in 1 .. Len(s) : s[m] = x
    BY <1>6 DEF dlist_check
  <2>2. m # 1
    BY <2>1, <1>6 DEF DL_FIRST
  <2>3. m - 1 \in 1 .. Len(r) /\ r[m - 1] = s[m]
    BY <2>2, <1>1, <1>2
  <2> QED
    BY <2>1, <2>3 DEF dlist_check
<1> QED
  BY <1>2, <1>3, <1>4, <1>5, <1>6

\* dlist_insert links a node that was not in the list behind the n-th one.
LEMMA InsertedMembers ==
  ASSUME NEW T, NEW s \in Seq(T), NEW e \in T, ~ dlist_check(s, e),
         NoDuplicates(s), NEW n \in 0 .. Len(s), NEW r, r = dlist_insert(s, n, e)
  PROVE  /\ r \in Seq(T)
         /\ Len(r) = Len(s) + 1
         /\ NoDuplicates(r)
         /\ \A x : dlist_check(r, x) <=> (x = e \/ dlist_check(s, x))
<1>1. /\ r \in Seq(T) /\ Len(r) = Len(s) + 1
      /\ \A j \in 1 .. Len(s) + 1 :
           r[j] = IF j <= n THEN s[j] ELSE IF j = n + 1 THEN e ELSE s[j - 1]
  <2>1. r = [j \in 1 .. Len(s) + 1 |->
               IF j <= n THEN s[j] ELSE IF j = n + 1 THEN e ELSE s[j - 1]]
    BY DEF dlist_insert
  <2>2. \A j \in 1 .. Len(s) + 1 : r[j] \in T
    BY <2>1
  <2> QED
    BY <2>1, <2>2
<1> DEFINE old(x) == IF x <= n THEN x ELSE x - 1
<1>6. ASSUME NEW j \in 1 .. Len(r), j # n + 1
      PROVE  old(j) \in 1 .. Len(s) /\ r[j] = s[old(j)]
  <2>1. j \in 1 .. Len(s) + 1 /\ Len(s) \in Nat
    BY <1>1
  <2>2. r[j] = IF j <= n THEN s[j] ELSE IF j = n + 1 THEN e ELSE s[j - 1]
    BY <2>1, <1>1
  <2>3. CASE j <= n
    BY <2>1, <2>2, <2>3
  <2>4. CASE j > n + 1
    BY <2>1, <2>2, <2>4
  <2> QED
    BY <2>1, <2>3, <2>4, <1>6
<1>7. n + 1 \in 1 .. Len(r) /\ r[n + 1] = e
  BY <1>1
<1>2. NoDuplicates(r)
  <2> SUFFICES ASSUME NEW i \in 1 .. Len(r), NEW j \in 1 .. Len(r), r[i] = r[j]
               PROVE  i = j
    BY DEF NoDuplicates
  <2>1. \A x \in 1 .. Len(r) : x # n + 1 => r[x] # e
    BY <1>6 DEF dlist_check
  <2>2. CASE i # n + 1 /\ j # n + 1
    <3>0. /\ old(i) \in 1 .. Len(s) /\ r[i] = s[old(i)]
          /\ old(j) \in 1 .. Len(s) /\ r[j] = s[old(j)]
      BY <2>2, <1>6, Zenon
    <3>1. old(i) = old(j)
      <4> HIDE DEF old
      <4> QED
        BY <3>0 DEF NoDuplicates
    <3> QED
      BY <3>1, <2>2, <1>1
  <2> QED
    BY <2>1, <2>2, <1>7
<1>3. ASSUME NEW x, dlist_check(s, x) PROVE dlist_check(r, x)
  <2>1. PICK m \in 1 .. Len(s) : s[m] = x
    BY <1>3 DEF dlist_check
  <2>2. CASE m <= n
    BY <2>1, <2>2, <1>1 DEF dlist_check
  <2>3. CASE m > n
    <3>1. m + 1 \in 1 .. Len(r) /\ r[m + 1] = x
      BY <2>1, <2>3, <1>1
    <3> QED
      BY <3>1 DEF dlist_check
  <2> QED
    BY <2>2, <2>3
<1>4. ASSUME NEW x, dlist_check(r, x) PROVE x = e \/ dlist_check(s, x)
  <2>1. PICK m \in 1 .. Len(r) : r[m] = x
    BY <1>4 DEF dlist_check
  <2>2. CASE m = n + 1
    BY <2>1, <2>2, <1>7
  <2>3. CASE m # n + 1
    BY <2>1, <2>3, <1>6 DEF dlist_check
  <2> QED
    BY <2>2, <2>3
<1>5. dlist_check(r, e)
  BY <1>7 DEF dlist_check
<1> QED
  BY <1>1, <1>2, <1>3, <1>4, <1>5

-----------------------------------------------------------------------------
(* The order of a list.                                                    *)

\* The nodes of m are nodes of l, in the same order.
InOrder(l, m) ==
  \A i, j \in 1 .. Len(m) :
    i < j => \E a, b \in 1 .. Len(l) : a < b /\ m[i] = l[a] /\ m[j] = l[b]

LEMMA InOrderSame ==
  ASSUME NEW l
  PROVE  InOrder(l, l)
  BY DEF InOrder

LEMMA InOrderTrans ==
  ASSUME NEW a, NEW b, NEW c, InOrder(a, b), InOrder(b, c)
  PROVE  InOrder(a, c)
<1> SUFFICES ASSUME NEW i \in 1 .. Len(c), NEW j \in 1 .. Len(c), i < j
             PROVE  \E x, y \in 1 .. Len(a) : x < y /\ c[i] = a[x] /\ c[j] = a[y]
  BY DEF InOrder
<1>1. PICK x \in 1 .. Len(b), y \in 1 .. Len(b) : x < y /\ c[i] = b[x] /\ c[j] = b[y]
  BY DEF InOrder
<1> QED
  BY <1>1 DEF InOrder

\* dlist_remove and dlist_get leave the others in their order.
LEMMA InOrderRemove ==
  ASSUME NEW T, NEW s \in Seq(T), NEW e, dlist_check(s, e), NoDuplicates(s)
  PROVE  InOrder(s, dlist_remove(s, e))
<1>1. PICK p \in 1 .. Len(s) : s[p] = e
  BY DEF dlist_check
<1> DEFINE r == dlist_remove(s, e)
           old(j) == IF j < p THEN j ELSE j + 1
<1>2. Len(r) = Len(s) - 1 /\ \A j \in 1 .. Len(s) - 1 : r[j] = s[old(j)]
  BY <1>1, RemovedList
<1> HIDE DEF r
<1>3. Len(s) \in Nat
  OBVIOUS
<1>4. \A j \in 1 .. Len(r) : old(j) \in 1 .. Len(s)
  BY <1>2, <1>3
<1>5. \A i, j \in 1 .. Len(r) : i < j => old(i) < old(j)
  BY <1>2, <1>3
<1> HIDE DEF old
<1>6. InOrder(s, r)
  BY <1>2, <1>4, <1>5 DEF InOrder
<1> QED
  BY <1>6 DEF r

LEMMA InOrderRest ==
  ASSUME NEW T, NEW s \in Seq(T), ~ DL_EMPTY(s)
  PROVE  InOrder(s, dlist_rest(s))
<1>1. Len(s) \in Nat /\ Len(s) > 0
  BY DEF DL_EMPTY
<1> DEFINE r == dlist_rest(s)
<1>2. Len(r) = Len(s) - 1 /\ \A j \in 1 .. Len(s) - 1 : r[j] = s[j + 1]
  BY <1>1 DEF dlist_rest
<1> HIDE DEF r
<1>3. InOrder(s, r)
  <2> SUFFICES ASSUME NEW i \in 1 .. Len(r), NEW j \in 1 .. Len(r), i < j
               PROVE  \E x, y \in 1 .. Len(s) : x < y /\ r[i] = s[x] /\ r[j] = s[y]
    BY DEF InOrder
  <2>1. /\ i + 1 \in 1 .. Len(s) /\ j + 1 \in 1 .. Len(s) /\ i + 1 < j + 1
        /\ r[i] = s[i + 1] /\ r[j] = s[j + 1]
    BY <1>1, <1>2
  <2> QED
    BY <2>1
<1> QED
  BY <1>3 DEF r

-----------------------------------------------------------------------------
(* The two-level index of a priority.                                      *)

\* A priority is its group and its bit: (priority >> 5) and (priority & 0x1f).
LEMMA IndexOfPriority ==
  ASSUME NEW p \in Priority
  PROVE  /\ GroupOf(p) \in Group
         /\ BitOf(p) \in Bit
         /\ p = GROUP * GroupOf(p) + BitOf(p)
<1>0. /\ GROUP \in Nat /\ GROUP > 0 /\ PRIORITY_NUM_MAX \in Nat
      /\ PRIORITY_NUM_MAX % GROUP = 0
  BY ReadyQAssumption
<1>1. p \in Nat /\ p < PRIORITY_NUM_MAX
  BY <1>0 DEF Priority
<1> DEFINE a == p \div GROUP
           b == p % GROUP
           n == PRIORITY_NUM_MAX \div GROUP
<1>2. a \in Nat /\ b \in 0 .. GROUP - 1 /\ p = GROUP * a + b
  BY <1>0, <1>1
<1>3. n \in Nat /\ PRIORITY_NUM_MAX = GROUP * n
  BY <1>0
<1> HIDE DEF a, b, n
<1>4. a < n
  <2>1. SUFFICES ASSUME a >= n PROVE FALSE
    BY <1>2, <1>3
  <2>2. PICK d \in Nat : a = n + d
    BY <2>1, <1>2, <1>3
  <2>3. GROUP * a = GROUP * n + GROUP * d
    BY <2>2, <1>0, <1>3
  <2>4. GROUP * d \in Nat
    BY <1>0
  <2> QED
    BY <2>3, <2>4, <1>0, <1>1, <1>2, <1>3
<1> QED
  BY <1>0, <1>2, <1>3, <1>4 DEF Group, Bit, GroupOf, BitOf, a, b, n

\* A group and a bit are a priority: (highBits << 5) | lowBits.
LEMMA PriorityOfIndex ==
  ASSUME NEW g \in Group, NEW b \in Bit
  PROVE  /\ GROUP * g + b \in Priority
         /\ GroupOf(GROUP * g + b) = g
         /\ BitOf(GROUP * g + b) = b
<1>0. /\ GROUP \in Nat /\ GROUP > 0 /\ PRIORITY_NUM_MAX \in Nat
      /\ PRIORITY_NUM_MAX % GROUP = 0
  BY ReadyQAssumption
<1> DEFINE n == PRIORITY_NUM_MAX \div GROUP
           p == GROUP * g + b
<1>1. n \in Nat /\ PRIORITY_NUM_MAX = GROUP * n
  BY <1>0
<1>2. g \in Nat /\ g + 1 <= n /\ b \in Nat /\ b < GROUP
  BY <1>0, <1>1 DEF Group, Bit
<1> HIDE DEF n
<1>3. GROUP * (g + 1) <= GROUP * n
  <2>1. PICK d \in Nat : n = g + 1 + d
    BY <1>1, <1>2
  <2>2. GROUP * n = GROUP * (g + 1) + GROUP * d
    BY <2>1, <1>0, <1>2
  <2> QED
    BY <2>2, <1>0, <1>2
<1>4. p \in Priority
  BY <1>0, <1>1, <1>2, <1>3 DEF Priority
<1>5. p \div GROUP = g /\ p % GROUP = b
  <2> DEFINE a == p \div GROUP
             r == p % GROUP
  <2>1. a \in Nat /\ r \in Nat /\ r < GROUP /\ GROUP * a + r = GROUP * g + b
    BY <1>0, <1>2
  <2> HIDE DEF a, r
  <2>2. CASE a > g
    <3>1. PICK d \in Nat : a = g + 1 + d
      BY <2>1, <2>2, <1>2
    <3>2. GROUP * a = GROUP * g + GROUP + GROUP * d /\ GROUP * d \in Nat
      BY <3>1, <1>0, <1>2
    <3> QED
      BY <3>2, <2>1, <1>0, <1>2
  <2>3. CASE a < g
    <3>1. PICK d \in Nat : g = a + 1 + d
      BY <2>1, <2>3, <1>2
    <3>2. GROUP * g = GROUP * a + GROUP + GROUP * d /\ GROUP * d \in Nat
      BY <3>1, <1>0, <2>1
    <3> QED
      BY <3>2, <2>1, <1>0, <1>2
  <2>4. CASE a = g
    BY <2>1, <2>4, <1>0, <1>2 DEF a, r
  <2> QED
    BY <2>1, <2>2, <2>3, <2>4, <1>2
<1> QED
  BY <1>4, <1>5 DEF GroupOf, BitOf

\* Priorities are ordered by their groups, then by their bits.
LEMMA IndexOrder ==
  ASSUME NEW p \in Priority, NEW q \in Priority,
         \/ GroupOf(p) < GroupOf(q)
         \/ GroupOf(p) = GroupOf(q) /\ BitOf(p) <= BitOf(q)
  PROVE  p <= q
<1>0. GROUP \in Nat /\ GROUP > 0 /\ PRIORITY_NUM_MAX \in Nat
  BY ReadyQAssumption
<1> DEFINE a == GroupOf(p)
           b == BitOf(p)
           c == GroupOf(q)
           d == BitOf(q)
<1>1. /\ a \in Int /\ a >= 0 /\ c \in Int /\ c >= 0
      /\ b \in Nat /\ b < GROUP /\ d \in Nat /\ d < GROUP
  BY IndexOfPriority, <1>0 DEF Group, Bit
<1>2. p = GROUP * a + b /\ q = GROUP * c + d
  BY IndexOfPriority
<1>3. a < c \/ (a = c /\ b <= d)
  OBVIOUS
<1> HIDE DEF a, b, c, d
<1>4. CASE a < c
  <2>1. PICK e \in Nat : c = a + 1 + e
    BY <1>1, <1>4
  <2>2. GROUP * c = GROUP * a + GROUP + GROUP * e /\ GROUP * e \in Nat
    BY <2>1, <1>0, <1>1
  <2> QED
    BY <2>2, <1>0, <1>1, <1>2
<1>5. CASE a = c /\ b <= d
  BY <1>5, <1>0, <1>1, <1>2
<1> QED
  BY <1>3, <1>4, <1>5

\* LSB finds the lowest bit of a word that is not 0.
LEMMA LSBIsLeast ==
  ASSUME NEW S \in SUBSET Nat, S # {}
  PROVE  LSB(S) \in S /\ \A j \in S : LSB(S) <= j
  BY LeastExists DEF LSB

-----------------------------------------------------------------------------
(* The operations.                                                         *)

\* The invariant, with the tasks of Off between a remove and a put.
ReadyInv(s, Off) ==
  /\ s \in KernelState
  /\ MapsMatch(s.readyQ)
  /\ LinkedBut(s, Off)
  /\ Highest(s)

\* _readQ_highest_pri finds the first list that is not empty, if there is one.
LEMMA HighestPriority ==
  ASSUME NEW q \in READY_QUEUE, MapsMatch(q)
  PROVE  /\ q.metaBMap = {} => \A p \in Priority : Len(q.listArray[p]) = 0
         /\ q.metaBMap # {} =>
              /\ readyQ_highest_pri(q) \in Priority
              /\ Len(q.listArray[readyQ_highest_pri(q)]) > 0
              /\ \A p \in Priority :
                   p < readyQ_highest_pri(q) => Len(q.listArray[p]) = 0
<1>0. /\ q.metaBMap \in SUBSET Group /\ q.bMap \in [Group -> SUBSET Bit]
      /\ q.listArray \in [Priority -> Seq(Task)]
  BY DEF READY_QUEUE
<1>1. \A p \in Priority : Len(q.listArray[p]) \in Nat
  BY <1>0
<1>2. \A p \in Priority : GroupOf(p) \in Group /\ BitOf(p) \in Bit
  BY IndexOfPriority
<1>3. /\ \A p \in Priority : BitOf(p) \in q.bMap[GroupOf(p)] <=> Len(q.listArray[p]) > 0
      /\ \A g \in Group : g \in q.metaBMap <=> q.bMap[g] # {}
  BY DEF MapsMatch
<1>4. ASSUME q.metaBMap = {}, NEW p \in Priority
      PROVE  Len(q.listArray[p]) = 0
  BY <1>1, <1>2, <1>3, <1>4
<1>5. ASSUME q.metaBMap # {}
      PROVE  /\ readyQ_highest_pri(q) \in Priority
             /\ Len(q.listArray[readyQ_highest_pri(q)]) > 0
             /\ \A p \in Priority :
                  p < readyQ_highest_pri(q) => Len(q.listArray[p]) = 0
  <2> DEFINE g == LSB(q.metaBMap)
             b == LSB(q.bMap[g])
             h == GROUP * g + b
  <2>0. Group \subseteq Nat /\ Bit \subseteq Nat
    BY DEF Group, Bit
  <2>1. g \in q.metaBMap /\ \A j \in q.metaBMap : g <= j
    BY <1>0, <1>5, <2>0, LSBIsLeast
  <2>2. g \in Group /\ q.bMap[g] # {} /\ q.bMap[g] \in SUBSET Bit
    BY <1>0, <1>3, <2>1
  <2> HIDE DEF g
  <2>3. b \in q.bMap[g] /\ \A j \in q.bMap[g] : b <= j
    BY <2>0, <2>2, LSBIsLeast
  <2>4. b \in Bit
    BY <2>2, <2>3
  <2> HIDE DEF b
  <2>5. h \in Priority /\ GroupOf(h) = g /\ BitOf(h) = b
    BY <2>2, <2>4, PriorityOfIndex
  <2> HIDE DEF h
  <2>6. Len(q.listArray[h]) > 0
    BY <1>3, <2>3, <2>5
  <2>7. ASSUME NEW p \in Priority, p < h, Len(q.listArray[p]) > 0
        PROVE  FALSE
    <3>1. BitOf(p) \in q.bMap[GroupOf(p)] /\ GroupOf(p) \in q.metaBMap
      BY <1>2, <1>3, <2>7
    <3>2. g <= GroupOf(p)
      BY <2>1, <3>1
    <3>3. GroupOf(p) = g => b <= BitOf(p)
      BY <2>3, <3>1
    <3>4. h <= p
      <4>0. g \in Nat /\ GroupOf(p) \in Nat
        BY <1>2, <2>0, <2>2
      <4>1. GroupOf(h) < GroupOf(p) \/ (GroupOf(h) = GroupOf(p) /\ BitOf(h) <= BitOf(p))
        BY <4>0, <2>5, <3>2, <3>3
      <4> QED
        BY <4>1, <2>5, IndexOrder
    <3> QED
      BY <2>5, <2>7, <3>4 DEF Priority
  <2> QED
    BY <1>1, <2>5, <2>6, <2>7 DEF readyQ_highest_pri, g, b, h
<1> QED
  BY <1>4, <1>5

\* readyQ_put puts a task that is off the queue back on it; the tasks of Off
\* stay off.
LEMMA PutKeepsOff ==
  ASSUME NEW s, NEW t \in Task, NEW Off, t \notin Off, ReadyInv(s, Off \cup {t}),
         NEW n, n = readyQ_put(s, t)
  PROVE  /\ ReadyInv(n, Off)
         /\ n.tcb = [s.tcb EXCEPT ![t].status = "READY", ![t].pend_obj = NULL]
<1> DEFINE q == s.readyQ
           p == s.tcb[t].task_priority
           l == q.listArray[p]
           m == dlist_add(l, t)
<1>0. /\ s \in KernelState /\ MapsMatch(q) /\ LinkedBut(s, Off \cup {t}) /\ Highest(s)
  BY DEF ReadyInv
<1>1. /\ q \in READY_QUEUE /\ s.tcb \in [Task -> OS_TCB]
      /\ s = [readyQ |-> q, tcb |-> s.tcb]
  BY <1>0 DEF KernelState
<1>2. p \in Priority /\ GroupOf(p) \in Group /\ BitOf(p) \in Bit
  <2>1. p \in Priority
    BY <1>1 DEF OS_TCB
  <2> QED
    BY <2>1, IndexOfPriority
<1>3. /\ q.highest_tcb \in Task \cup {NULL} /\ q.metaBMap \in SUBSET Group
      /\ q.bMap \in [Group -> SUBSET Bit] /\ q.listArray \in [Priority -> Seq(Task)]
  BY <1>1 DEF READY_QUEUE
<1>4. l \in Seq(Task) /\ NoDuplicates(l) /\ ~ dlist_check(l, t)
  BY <1>0, <1>2, <1>3 DEF LinkedBut
<1>5. /\ m \in Seq(Task) /\ Len(m) = Len(l) + 1 /\ NoDuplicates(m)
      /\ \A x : dlist_check(m, x) <=> (x = t \/ dlist_check(l, x))
      /\ Len(l) > 0 => m[1] = l[1]
      /\ Len(l) = 0 => m[1] = t
  <2> HIDE DEF l
  <2> QED
    BY <1>4, AddedMembers
<1>6. /\ n.tcb = [s.tcb EXCEPT ![t].status = "READY", ![t].pend_obj = NULL]
      /\ n.readyQ = [highest_tcb |-> put_highest(s, t),
                     metaBMap |-> q.metaBMap \cup {GroupOf(p)},
                     bMap |-> [q.bMap EXCEPT ![GroupOf(p)] = @ \cup {BitOf(p)}],
                     listArray |-> [q.listArray EXCEPT ![p] = m]]
      /\ n = [readyQ |-> n.readyQ, tcb |-> n.tcb]
  BY <1>1 DEF readyQ_put
<1> DEFINE x == n.readyQ
<1>7. /\ x.highest_tcb = put_highest(s, t)
      /\ x.metaBMap = q.metaBMap \cup {GroupOf(p)}
      /\ x.bMap = [q.bMap EXCEPT ![GroupOf(p)] = @ \cup {BitOf(p)}]
      /\ x.listArray = [q.listArray EXCEPT ![p] = m]
  BY SMTT(30), <1>6
<1>8. n.tcb \in [Task -> OS_TCB]
  BY <1>1, <1>6 DEF OS_TCB, Status
<1> HIDE DEF m
<1>9. put_highest(s, t) \in Task \cup {NULL}
  BY <1>3 DEF put_highest
<1>10. n \in KernelState
  <2>1. x \in READY_QUEUE
    BY SMTT(30), <1>2, <1>3, <1>5, <1>6, <1>9 DEF READY_QUEUE
  <2> QED
    BY <1>6, <1>8, <2>1 DEF KernelState
<1>11. MapsMatch(n.readyQ)
  <2>1. ASSUME NEW r \in Priority
        PROVE  BitOf(r) \in x.bMap[GroupOf(r)] <=> Len(x.listArray[r]) > 0
    <3>1. BitOf(r) \in q.bMap[GroupOf(r)] <=> Len(q.listArray[r]) > 0
      BY <1>0 DEF MapsMatch
    <3>2. GroupOf(r) \in Group /\ BitOf(r) \in Bit /\ r = GROUP * GroupOf(r) + BitOf(r)
      BY IndexOfPriority
    <3>3. p = GROUP * GroupOf(p) + BitOf(p)
      BY <1>2, IndexOfPriority
    <3>4. CASE r = p
      <4>1. BitOf(p) \in x.bMap[GroupOf(p)]
        BY <1>2, <1>3, <1>7
      <4>2. x.listArray[p] = m
        BY <1>2, <1>3, <1>7
      <4>3. Len(m) > 0
        BY SMTT(30), <1>4, <1>5
      <4> QED
        BY <3>4, <4>1, <4>2, <4>3
    <3>5. CASE r # p
      <4>1. ~ (GroupOf(r) = GroupOf(p) /\ BitOf(r) = BitOf(p))
        BY <3>2, <3>3, <3>5
      <4> QED
        BY <4>1, <3>1, <3>2, <3>5, <1>2, <1>3, <1>7
    <3> QED
      BY <3>4, <3>5
  <2>2. ASSUME NEW g \in Group
        PROVE  g \in x.metaBMap <=> x.bMap[g] # {}
    BY <1>0, <1>2, <1>3, <1>7 DEF MapsMatch
  <2> QED
    BY <2>1, <2>2 DEF MapsMatch
<1>12. LinkedBut(n, Off)
  <2>1. ASSUME NEW r \in Priority
        PROVE  NoDuplicates(x.listArray[r])
    BY <1>0, <1>2, <1>3, <1>5, <1>7 DEF LinkedBut
  <2>2. ASSUME NEW r \in Priority, NEW u \in Task
        PROVE  dlist_check(x.listArray[r], u)
                 <=> /\ u \notin Off /\ n.tcb[u].status = "READY"
                     /\ n.tcb[u].task_priority = r
    <3>1. dlist_check(q.listArray[r], u)
            <=> /\ u # t /\ u \notin Off /\ s.tcb[u].status = "READY"
                /\ s.tcb[u].task_priority = r
      BY <1>0 DEF LinkedBut
    <3>2. x.listArray[r] = IF r = p THEN m ELSE q.listArray[r]
      BY <1>2, <1>3, <1>7
    <3>3. CASE u = t
      <4>1. n.tcb[u].status = "READY" /\ n.tcb[u].task_priority = p
        BY <3>3, <1>1, <1>6 DEF OS_TCB
      <4> QED
        BY <4>1, <3>1, <3>2, <3>3, <1>5
    <3>4. CASE u # t
      <4>1. n.tcb[u] = s.tcb[u]
        BY <3>4, <1>1, <1>6
      <4> QED
        BY <4>1, <3>1, <3>2, <3>4, <1>5
    <3> QED
      BY <3>3, <3>4
  <2> QED
    BY <2>1, <2>2 DEF LinkedBut
<1>13. \A u \in Task : n.tcb[u].task_priority = s.tcb[u].task_priority
  BY <1>1, <1>6 DEF OS_TCB
<1>14. \A r \in Priority : Len(x.listArray[r]) = IF r = p THEN Len(l) + 1
                                                 ELSE Len(q.listArray[r])
  BY <1>2, <1>3, <1>5, <1>7
<1>15. Len(l) \in Nat /\ \A r \in Priority : Len(q.listArray[r]) \in Nat
  BY <1>2, <1>3
<1>16. NULL \notin Task /\ Priority \subseteq Nat
  BY ReadyQAssumption DEF Priority
<1>17. Highest(n)
  <2> DEFINE h == s.tcb[q.highest_tcb].task_priority
  <2>1. CASE q.highest_tcb = NULL
    <3>1. \A r \in Priority : Len(q.listArray[r]) = 0
      BY <1>0, <2>1 DEF Highest
    <3>2. x.highest_tcb = t
      BY <1>7, <2>1 DEF put_highest
    <3>3. n.tcb[t].task_priority = p
      BY <1>13
    <3>4. Len(x.listArray[p]) > 0 /\ x.listArray[p][1] = t
      BY SMTT(30), <1>2, <1>3, <1>5, <1>7, <1>14, <1>15, <3>1
    <3>5. \A r \in Priority : r < p => Len(x.listArray[r]) = 0
      BY <1>2, <1>14, <3>1, <1>16
    <3> QED
      BY <1>16, <3>2, <3>3, <3>4, <3>5 DEF Highest
  <2>2. CASE q.highest_tcb # NULL
    <3>0. q.highest_tcb \in Task
      BY <1>3, <2>2
    <3>1. /\ Len(q.listArray[h]) > 0 /\ q.listArray[h][1] = q.highest_tcb
          /\ \A r \in Priority : r < h => Len(q.listArray[r]) = 0
      BY <1>0, <2>2 DEF Highest
    <3>2. h \in Priority
      BY <1>1, <3>0 DEF OS_TCB
    <3> HIDE DEF h
    <3>3. CASE p < h
      <4>1. x.highest_tcb = t
        BY <1>7, <2>2, <3>3 DEF put_highest, h
      <4>2. Len(l) = 0
        BY <1>2, <1>16, <3>1, <3>2, <3>3
      <4>3. Len(x.listArray[p]) > 0 /\ x.listArray[p][1] = t
        BY <1>2, <1>3, <1>5, <1>7, <1>14, <1>15, <4>2
      <4>4. \A r \in Priority : r < p => Len(x.listArray[r]) = 0
        <5>1. p \in Nat /\ h \in Nat
          BY <1>2, <1>16, <3>2
        <5> HIDE DEF p, x
        <5>2. ASSUME NEW r \in Priority, r < p
              PROVE  Len(x.listArray[r]) = 0
          <6>1. r \in Nat /\ r < h /\ r # p
            BY <1>16, <5>1, <5>2, <3>3
          <6> QED
            BY <6>1, <1>14, <3>1
        <5> QED
          BY <5>2
      <4> QED
        BY <1>13, <1>16, <4>1, <4>3, <4>4 DEF Highest
    <3>4. CASE ~ (p < h)
      <4>1. x.highest_tcb = q.highest_tcb
        BY <1>7, <2>2, <3>4 DEF put_highest, h
      <4>2. n.tcb[x.highest_tcb].task_priority = h
        BY <1>13, <3>0, <4>1 DEF h
      <4>3. Len(x.listArray[h]) > 0 /\ x.listArray[h][1] = x.highest_tcb
        <5>1. CASE h = p
          BY SMTT(30), <5>1, <1>3, <1>5, <1>7, <1>14, <1>15, <3>1, <3>2, <4>1
        <5>2. CASE h # p
          BY <5>2, <1>2, <1>3, <1>7, <3>1, <3>2, <4>1
        <5> QED
          BY <5>1, <5>2
      <4>4. \A r \in Priority : r < h => Len(x.listArray[r]) = 0
        BY <1>2, <1>14, <1>16, <3>1, <3>2, <3>4
      <4> QED
        BY <1>16, <3>0, <4>1, <4>2, <4>3, <4>4 DEF Highest
    <3> QED
      BY <3>3, <3>4
  <2> QED
    BY <2>1, <2>2
<1> QED
  BY <1>6, <1>10, <1>11, <1>12, <1>17 DEF ReadyInv

\* The usual case: no other task is off the queue.
LEMMA PutKeeps ==
  ASSUME NEW s, NEW t \in Task, ReadyInv(s, {t}), NEW n, n = readyQ_put(s, t)
  PROVE  /\ ReadyInv(n, {})
         /\ n.tcb = [s.tcb EXCEPT ![t].status = "READY", ![t].pend_obj = NULL]
<1>1. {} \cup {t} = {t}
  OBVIOUS
<1>2. ReadyInv(s, {} \cup {t})
  BY <1>1
<1> QED
  BY <1>2, PutKeepsOff

\* readyQ_remove takes a ready task off the queue and touches no control block.
LEMMA RemoveKeeps ==
  ASSUME NEW s, NEW t \in Task, ReadyInv(s, {}), s.tcb[t].status = "READY",
         NEW n, n = readyQ_remove(s, t)
  PROVE  ReadyInv(n, {t}) /\ n.tcb = s.tcb
<1> DEFINE q == s.readyQ
           p == s.tcb[t].task_priority
           l == q.listArray[p]
           m == dlist_remove(l, t)
           q1 == [q EXCEPT !.listArray[p] = m]
           r == IF DL_EMPTY(m) THEN clear_maps(q1, p) ELSE q1
           top == IF t # q.highest_tcb THEN q.highest_tcb
                  ELSE IF DL_EMPTY(m) THEN readyQ_first(r) ELSE DL_FIRST(m)
<1>0. /\ s \in KernelState /\ MapsMatch(q) /\ LinkedBut(s, {}) /\ Highest(s)
  BY DEF ReadyInv
<1>1. /\ q \in READY_QUEUE /\ s.tcb \in [Task -> OS_TCB]
      /\ s = [readyQ |-> q, tcb |-> s.tcb]
  BY <1>0 DEF KernelState
<1>2. p \in Priority /\ GroupOf(p) \in Group /\ BitOf(p) \in Bit
  <2>1. p \in Priority
    BY <1>1 DEF OS_TCB
  <2> QED
    BY <2>1, IndexOfPriority
<1>3. /\ q.highest_tcb \in Task \cup {NULL} /\ q.metaBMap \in SUBSET Group
      /\ q.bMap \in [Group -> SUBSET Bit] /\ q.listArray \in [Priority -> Seq(Task)]
  BY <1>1 DEF READY_QUEUE
<1>4. l \in Seq(Task) /\ NoDuplicates(l) /\ dlist_check(l, t)
  BY <1>0, <1>2, <1>3 DEF LinkedBut
<1>5. /\ m \in Seq(Task) /\ Len(m) = Len(l) - 1 /\ NoDuplicates(m)
      /\ ~ dlist_check(m, t)
      /\ \A x : x # t => (dlist_check(m, x) <=> dlist_check(l, x))
      /\ l[1] # t => Len(m) > 0 /\ m[1] = l[1]
  <2> HIDE DEF l
  <2> QED
    BY <1>4, RemovedMembers
<1>6. /\ n.tcb = s.tcb
      /\ n.readyQ = [r EXCEPT !.highest_tcb = top]
      /\ n = [readyQ |-> n.readyQ, tcb |-> n.tcb]
  <2>1. r.highest_tcb = q.highest_tcb
    BY <1>1 DEF READY_QUEUE, clear_maps
  <2> QED
    BY <1>1, <2>1 DEF readyQ_remove
<1> HIDE DEF m, top
<1>7. /\ r \in READY_QUEUE
      /\ r.listArray = [q.listArray EXCEPT ![p] = m]
      /\ r.bMap = [q.bMap EXCEPT ![GroupOf(p)] =
                     IF DL_EMPTY(m) THEN @ \ {BitOf(p)} ELSE @]
      /\ r.metaBMap = IF DL_EMPTY(m) /\ q.bMap[GroupOf(p)] \ {BitOf(p)} = {}
                      THEN q.metaBMap \ {GroupOf(p)} ELSE q.metaBMap
  BY <1>1, <1>2, <1>3, <1>5 DEF READY_QUEUE, clear_maps
<1> HIDE DEF r, l, p
<1>8. Len(l) \in Nat /\ Len(l) > 0 /\ (DL_EMPTY(m) <=> Len(l) = 1)
  <2>1. \E i \in 1 .. Len(l) : l[i] = t
    BY <1>4 DEF dlist_check
  <2> QED
    BY <2>1, <1>4, <1>5 DEF DL_EMPTY
<1>9. BitOf(p) \in q.bMap[GroupOf(p)]
  BY <1>0, <1>2, <1>8 DEF MapsMatch, l
<1>10. MapsMatch(r)
  <2>1. ASSUME NEW a \in Priority
        PROVE  BitOf(a) \in r.bMap[GroupOf(a)] <=> Len(r.listArray[a]) > 0
    <3>1. BitOf(a) \in q.bMap[GroupOf(a)] <=> Len(q.listArray[a]) > 0
      BY <1>0 DEF MapsMatch
    <3>2. GroupOf(a) \in Group /\ BitOf(a) \in Bit /\ a = GROUP * GroupOf(a) + BitOf(a)
      BY IndexOfPriority
    <3>3. p = GROUP * GroupOf(p) + BitOf(p)
      BY <1>2, IndexOfPriority
    <3>4. CASE a = p
      <4>1. r.listArray[p] = m
        BY <1>2, <1>3, <1>7
      <4>2. r.bMap[GroupOf(p)] = IF DL_EMPTY(m) THEN q.bMap[GroupOf(p)] \ {BitOf(p)}
                                 ELSE q.bMap[GroupOf(p)]
        BY <1>2, <1>3, <1>7
      <4>3. Len(m) > 0 <=> ~ DL_EMPTY(m)
        BY <1>5 DEF DL_EMPTY
      <4> QED
        BY <3>4, <4>1, <4>2, <4>3, <1>9
    <3>5. CASE a # p
      <4>1. ~ (GroupOf(a) = GroupOf(p) /\ BitOf(a) = BitOf(p))
        BY <3>2, <3>3, <3>5
      <4>2. r.listArray[a] = q.listArray[a]
        BY <3>5, <1>2, <1>3, <1>7
      <4>3. BitOf(a) \in r.bMap[GroupOf(a)] <=> BitOf(a) \in q.bMap[GroupOf(a)]
        BY <4>1, <3>2, <1>2, <1>3, <1>7
      <4> QED
        BY <4>2, <4>3, <3>1
    <3> QED
      BY <3>4, <3>5
  <2>2. ASSUME NEW g \in Group
        PROVE  g \in r.metaBMap <=> r.bMap[g] # {}
    <3>1. g \in q.metaBMap <=> q.bMap[g] # {}
      BY <1>0 DEF MapsMatch
    <3>2. CASE g = GroupOf(p)
      BY <3>1, <3>2, <1>2, <1>3, <1>7, <1>9
    <3>3. CASE g # GroupOf(p)
      BY <3>1, <3>3, <1>2, <1>3, <1>7
    <3> QED
      BY <3>2, <3>3
  <2> QED
    BY <2>1, <2>2 DEF MapsMatch
<1>11. \A a \in Priority, u \in Task :
         dlist_check(r.listArray[a], u)
           <=> (u # t /\ s.tcb[u].status = "READY" /\ s.tcb[u].task_priority = a)
  <2>1. TAKE a \in Priority, u \in Task
  <2>2. dlist_check(q.listArray[a], u)
          <=> (s.tcb[u].status = "READY" /\ s.tcb[u].task_priority = a)
    BY <1>0 DEF LinkedBut
  <2>3. CASE a = p
    <3>1. r.listArray[a] = m
      BY <2>3, <1>2, <1>3, <1>7
    <3> QED
      BY <2>2, <2>3, <3>1, <1>5 DEF l, p
  <2>4. CASE a # p
    <3>1. r.listArray[a] = q.listArray[a]
      BY <2>4, <1>2, <1>3, <1>7
    <3>2. CASE u = t
      BY <2>2, <2>4, <3>1, <3>2 DEF p
    <3> QED
      BY <2>2, <3>1, <3>2
  <2> QED
    BY <2>3, <2>4
<1>12. \A a \in Priority : NoDuplicates(r.listArray[a])
  BY <1>0, <1>2, <1>3, <1>5, <1>7 DEF LinkedBut
<1>13. NULL \notin Task /\ Priority \subseteq Nat
  BY ReadyQAssumption DEF Priority
\* The new highest task is NULL, or the first task of the first list.
<1>14. \/ top = NULL /\ \A a \in Priority : Len(r.listArray[a]) = 0
       \/ /\ top \in Task
          /\ Len(r.listArray[s.tcb[top].task_priority]) > 0
          /\ r.listArray[s.tcb[top].task_priority][1] = top
          /\ \A a \in Priority :
               a < s.tcb[top].task_priority => Len(r.listArray[a]) = 0
  <2>0. /\ r.listArray[p] = m
        /\ \A a \in Priority : a # p => r.listArray[a] = q.listArray[a]
        /\ \A a \in Priority : r.listArray[a] \in Seq(Task)
    BY <1>2, <1>3, <1>5, <1>7
  <2>1. \A a \in Priority : Len(r.listArray[a]) > 0 =>
          /\ r.listArray[a][1] \in Task
          /\ s.tcb[r.listArray[a][1]].task_priority = a
    <3>1. TAKE a \in Priority
    <3>2. HAVE Len(r.listArray[a]) > 0
    <3>3. 1 \in 1 .. Len(r.listArray[a]) /\ r.listArray[a][1] \in Task
      BY <2>0, <3>2
    <3>4. dlist_check(r.listArray[a], r.listArray[a][1])
      BY <3>3 DEF dlist_check
    <3> QED
      BY <3>3, <3>4, <1>11
  <2>2. CASE t # q.highest_tcb
    <3>1. top = q.highest_tcb
      BY <2>2 DEF top
    <3>2. q.highest_tcb # NULL
      BY <1>0, <1>2, <1>8 DEF Highest, l
    <3> DEFINE h == s.tcb[q.highest_tcb].task_priority
    <3>3. /\ Len(q.listArray[h]) > 0 /\ q.listArray[h][1] = q.highest_tcb
          /\ \A a \in Priority : a < h => Len(q.listArray[a]) = 0
      BY <1>0, <3>2 DEF Highest
    <3>4. h \in Priority /\ top \in Task
      BY <1>1, <1>3, <3>1, <3>2 DEF OS_TCB
    <3>5. s.tcb[top].task_priority = h
      BY <3>1
    <3> HIDE DEF h
    <3>6. Len(r.listArray[h]) > 0 /\ r.listArray[h][1] = top
      <4>1. CASE h = p
        BY <4>1, <2>0, <2>2, <3>1, <3>3, <1>5 DEF l
      <4>2. CASE h # p
        BY <4>2, <2>0, <3>1, <3>3, <3>4
      <4> QED
        BY <4>1, <4>2
    <3>7. \A a \in Priority : a < h => Len(r.listArray[a]) = 0
      <4>1. ~ (p < h)
        BY <1>2, <1>8, <3>3 DEF l
      <4> QED
        BY <4>1, <2>0, <3>3
    <3> QED
      BY <3>4, <3>5, <3>6, <3>7
  <2>3. CASE t = q.highest_tcb /\ ~ DL_EMPTY(m)
    <3>1. top = m[1]
      BY <2>3 DEF top, DL_FIRST
    <3>2. Len(m) > 0
      BY <2>3, <1>5 DEF DL_EMPTY
    <3>3. top \in Task /\ s.tcb[top].task_priority = p
      BY <2>0, <2>1, <3>1, <3>2, <1>2
    <3>4. \A a \in Priority : a < p => Len(r.listArray[a]) = 0
      <4>1. \A a \in Priority : a < p => Len(q.listArray[a]) = 0
        BY <1>0, <1>13, <2>3 DEF Highest, p
      <4> QED
        BY <4>1, <2>0, <1>2, <1>13
    <3> QED
      BY <2>0, <3>1, <3>2, <3>3, <3>4
  <2>4. CASE t = q.highest_tcb /\ DL_EMPTY(m)
    <3>1. top = readyQ_first(r)
      BY <2>4 DEF top
    <3>2. CASE r.metaBMap = {}
      <4>1. top = NULL
        BY <3>1, <3>2 DEF readyQ_first
      <4> QED
        BY <4>1, <3>2, <1>7, <1>10, HighestPriority
    <3>3. CASE r.metaBMap # {}
      <4> DEFINE h == readyQ_highest_pri(r)
      <4>1. top = r.listArray[h][1]
        BY <3>1, <3>3 DEF readyQ_first, DL_FIRST
      <4>2. /\ h \in Priority /\ Len(r.listArray[h]) > 0
            /\ \A a \in Priority : a < h => Len(r.listArray[a]) = 0
        BY <3>3, <1>7, <1>10, HighestPriority
      <4> HIDE DEF h
      <4>3. top \in Task /\ s.tcb[top].task_priority = h
        BY <2>1, <4>1, <4>2
      <4> QED
        BY <4>1, <4>2, <4>3
    <3> QED
      BY <3>2, <3>3
  <2> QED
    BY <2>2, <2>3, <2>4
<1> DEFINE x == n.readyQ
<1>15. /\ x \in READY_QUEUE /\ x.highest_tcb = top /\ x.listArray = r.listArray
       /\ x.bMap = r.bMap /\ x.metaBMap = r.metaBMap
  <2>1. top \in Task \cup {NULL}
    BY <1>14
  <2> QED
    BY <2>1, <1>6, <1>7 DEF READY_QUEUE
<1> HIDE DEF x
<1>16. n \in KernelState
  <2>1. n = [readyQ |-> x, tcb |-> s.tcb]
    BY <1>6 DEF x
  <2> QED
    BY <2>1, <1>1, <1>15 DEF KernelState
<1>17. LinkedBut(n, {t})
  BY <1>6, <1>11, <1>12, <1>15 DEF LinkedBut, x
<1>18. Highest(n)
  BY <1>6, <1>13, <1>14, <1>15 DEF Highest, x
<1>19. MapsMatch(x)
  BY <1>10, <1>15 DEF MapsMatch
<1> QED
  BY <1>6, <1>16, <1>17, <1>18, <1>19 DEF ReadyInv, x

\* What is assigned to the control blocks of tasks that are off the queue is of no
\* concern to the queue: their priorities, status, pend_obj, ticks.
LEMMA OffTheQueue ==
  ASSUME NEW s, NEW Off, ReadyInv(s, Off), NEW n \in KernelState,
         n.readyQ = s.readyQ, \A u \in Task \ Off : n.tcb[u] = s.tcb[u]
  PROVE  /\ ReadyInv(n, Off)
         /\ (\A u \in Task \cap Off : n.tcb[u].status # "READY") => ReadyInv(n, {})
<1> DEFINE q == s.readyQ
<1>0. /\ s \in KernelState /\ MapsMatch(q) /\ LinkedBut(s, Off) /\ Highest(s)
  BY DEF ReadyInv
<1>1. q \in READY_QUEUE /\ s.tcb \in [Task -> OS_TCB]
  BY <1>0 DEF KernelState
<1>2. /\ LinkedBut(n, Off)
      /\ (\A u \in Task \cap Off : n.tcb[u].status # "READY") => LinkedBut(n, {})
  BY <1>0 DEF LinkedBut
<1>3. q.highest_tcb # NULL => q.highest_tcb \in Task \ Off
  <2>1. SUFFICES ASSUME q.highest_tcb # NULL PROVE q.highest_tcb \notin Off
    BY <1>1 DEF READY_QUEUE
  <2> DEFINE h == s.tcb[q.highest_tcb].task_priority
  <2>2. h \in Priority /\ Len(q.listArray[h]) > 0 /\ q.listArray[h][1] = q.highest_tcb
    BY <1>0, <1>1, <2>1 DEF Highest, READY_QUEUE, OS_TCB
  <2> HIDE DEF h
  <2>3. q.listArray[h] \in Seq(Task)
    BY <1>1, <2>2 DEF READY_QUEUE
  <2>4. dlist_check(q.listArray[h], q.highest_tcb)
    BY <2>2, <2>3 DEF dlist_check
  <2>5. q.highest_tcb \in Task
    BY <1>1, <2>1 DEF READY_QUEUE
  <2> QED
    BY <1>0, <2>2, <2>4, <2>5 DEF LinkedBut
<1>4. Highest(n)
  <2>1. CASE q.highest_tcb = NULL
    BY <1>0, <2>1 DEF Highest
  <2>2. CASE q.highest_tcb # NULL
    <3>1. n.tcb[q.highest_tcb] = s.tcb[q.highest_tcb]
      BY <1>3, <2>2
    <3> QED
      BY <1>0, <2>2, <3>1 DEF Highest
  <2> QED
    BY <2>1, <2>2
<1> QED
  BY <1>0, <1>2, <1>4 DEF ReadyInv

\* A task that is not ready may as well count as off the queue.
LEMMA NotReadyIsOff ==
  ASSUME NEW s, NEW Off, NEW More, ReadyInv(s, Off),
         \A u \in Task \cap More : s.tcb[u].status # "READY"
  PROVE  ReadyInv(s, Off \cup More)
  BY DEF ReadyInv, LinkedBut

\* After readyQ_init all lists and bit maps are empty and no task is ready.
LEMMA EmptyQueue ==
  ReadyInv([readyQ |-> readyQ_init, tcb |-> [t \in Task |-> tcb_free]], {})
<1> DEFINE s == [readyQ |-> readyQ_init, tcb |-> [t \in Task |-> tcb_free]]
<1>1. s.readyQ = readyQ_init /\ s.tcb = [t \in Task |-> tcb_free]
  OBVIOUS
<1>2. PRIORITY_NUM_MAX \in Nat /\ 0 \in Priority
  BY ReadyQAssumption DEF Priority
<1>3. readyQ_init \in READY_QUEUE
  BY DEF readyQ_init, READY_QUEUE
<1>4. tcb_free \in OS_TCB
  BY <1>2 DEF tcb_free, OS_TCB, Status
<1>5. s \in KernelState
  BY <1>3, <1>4 DEF KernelState
<1>6. MapsMatch(s.readyQ)
  BY <1>1, IndexOfPriority DEF MapsMatch, readyQ_init
<1>7. LinkedBut(s, {})
  BY <1>1 DEF LinkedBut, readyQ_init, NoDuplicates, dlist_check, tcb_free
<1>8. Highest(s)
  BY <1>1 DEF Highest, readyQ_init
<1> QED
  BY <1>5, <1>6, <1>7, <1>8 DEF ReadyInv
=============================================================================
