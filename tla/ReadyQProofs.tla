---------------------------- MODULE ReadyQProofs ----------------------------
(***************************************************************************)
(* The invariants of the ready queue under every sequence of calls.        *)
(***************************************************************************)
EXTENDS ReadyQSpec, ReadyQLemmas

-----------------------------------------------------------------------------
(* The specification.                                                      *)

\* The four invariants together are inductive.
Inv == TypeOK /\ MapsMatchLists /\ LinkedOnce /\ HighestIsFirst

\* The invariant of the specification is that of the lemmas, with no task off
\* the queue.
LEMMA InvIsReadyInv == Inv <=> ReadyInv(k, {})
  BY DEF Inv, ReadyInv, TypeOK, MapsMatchLists, LinkedOnce, HighestIsFirst

\* The queue starts empty.
LEMMA InitHolds == Init => Inv
  BY EmptyQueue, InvIsReadyInv DEF Init

\* Every step, a put, a remove, or a remove and a put of one task, keeps the
\* invariant.
LEMMA StepKeeps == Inv /\ [Next]_k => Inv'
<1> SUFFICES ASSUME Inv, [Next]_k PROVE Inv'
  OBVIOUS
<1>0. ReadyInv(k, {}) /\ k \in KernelState /\ k.tcb \in [Task -> OS_TCB]
      /\ k = [readyQ |-> k.readyQ, tcb |-> k.tcb]
  BY InvIsReadyInv DEF ReadyInv, KernelState
<1>1. ASSUME NEW t \in Task, NEW p \in Priority, Enter(t, p)
      PROVE  ReadyInv(k', {})
  <2> DEFINE s == [k EXCEPT !.tcb[t].task_priority = p]
  <2>1. ReadyInv(k, {t})
    BY <1>0, <1>1 DEF Enter, ReadyInv, LinkedBut
  <2>2. /\ s \in KernelState /\ s.readyQ = k.readyQ
        /\ \A u \in Task \ {t} : s.tcb[u] = k.tcb[u]
    BY <1>0 DEF KernelState, OS_TCB
  <2>3. k' = readyQ_put(s, t)
    BY <1>1 DEF Enter
  <2> HIDE DEF s
  <2>4. ReadyInv(s, {t})
    BY <2>1, <2>2, OffTheQueue
  <2> QED
    BY <2>3, <2>4, PutKeeps
<1>2. ASSUME NEW t \in Task, NEW p \in Priority, Move(t, p)
      PROVE  ReadyInv(k', {})
  <2> DEFINE n == readyQ_remove(k, t)
             s == [n EXCEPT !.tcb[t].task_priority = p]
  <2>1. ReadyInv(n, {t}) /\ n.tcb = k.tcb
    BY <1>0, <1>2, RemoveKeeps DEF Move
  <2>2. k' = readyQ_put(s, t)
    BY <1>2 DEF Move
  <2> HIDE DEF n
  <2>3. /\ s \in KernelState /\ s.readyQ = n.readyQ
        /\ \A u \in Task \ {t} : s.tcb[u] = n.tcb[u]
    BY <2>1 DEF KernelState, OS_TCB, ReadyInv
  <2> HIDE DEF s
  <2>4. ReadyInv(s, {t})
    BY <2>1, <2>3, OffTheQueue
  <2> QED
    BY <2>2, <2>4, PutKeeps
<1>3. ASSUME NEW t \in Task, Leave(t)
      PROVE  ReadyInv(k', {})
  <2> DEFINE n == readyQ_remove(k, t)
             s == [n EXCEPT !.tcb[t].status = "DELAY"]
  <2>1. ReadyInv(n, {t}) /\ n.tcb = k.tcb
    BY <1>0, <1>3, RemoveKeeps DEF Leave
  <2>2. k' = s
    BY <1>3 DEF Leave
  <2> HIDE DEF n
  <2>3. /\ s \in KernelState /\ s.readyQ = n.readyQ
        /\ \A u \in Task \ {t} : s.tcb[u] = n.tcb[u]
        /\ s.tcb[t].status = "DELAY"
    BY <2>1 DEF KernelState, OS_TCB, ReadyInv, Status
  <2> HIDE DEF s
  <2> QED
    BY <2>1, <2>2, <2>3, OffTheQueue
<1>4. UNCHANGED k => ReadyInv(k', {})
  BY <1>0
<1>5. ReadyInv(k', {})
  BY <1>1, <1>2, <1>3, <1>4 DEF Next
<1> QED
  BY <1>5 DEF Inv, ReadyInv, TypeOK, MapsMatchLists, LinkedOnce, HighestIsFirst

\* For every set of tasks, number of priorities and width of a bit-map word,
\* after any sequence of readyQ_put and readyQ_remove the bit maps match the
\* lists, each ready task is linked once, and highest_tcb is the task to run.
THEOREM ReadyQueueIsCorrect ==
  Spec => [](TypeOK /\ MapsMatchLists /\ LinkedOnce /\ HighestIsFirst)
<1>1. Spec => []Inv
  BY InitHolds, StepKeeps, PTL DEF Spec
<1>2. Inv => TypeOK /\ MapsMatchLists /\ LinkedOnce /\ HighestIsFirst
  BY DEF Inv
<1> QED
  BY <1>1, <1>2, PTL
-----------------------------------------------------------------------------
(* The order in which the lists are read.                                  *)

Lists == [Priority -> Seq(Task)]

\* a is at position i of the list of priority p, b at position j of that of q,
\* and the one is read before the other.
ReadAt(l, a, p, i, b, q, j) ==
  /\ p \in Priority /\ i \in 1 .. Len(l[p]) /\ l[p][i] = a
  /\ q \in Priority /\ j \in 1 .. Len(l[q]) /\ l[q][j] = b
  /\ p < q \/ (p = q /\ i < j)

ReadBefore(l, a, b) == \E p, i, q, j : ReadAt(l, a, p, i, b, q, j)

InLists(l, a) == \E p \in Priority : dlist_check(l[p], a)

\* The queue holds the tasks that are in a list.
LEMMA InQueued ==
  ASSUME NEW l \in Lists, NEW a
  PROVE  a \in Queued(l) <=> InLists(l, a)
  BY DEF Queued, From, InLists, dlist_check

\* What is behind a position is what is read after it.
LEMMA InReadOrder ==
  ASSUME NEW l \in Lists, NEW a, NEW b
  PROVE  <<a, b>> \in ReadOrder(l) <=> ReadBefore(l, a, b)
<1>0. \A p \in Priority : Len(l[p]) \in Nat /\ p \in Int
  BY ReadyQAssumption DEF Lists, Priority
<1>1. ASSUME NEW p \in Priority, NEW i \in 1 .. Len(l[p])
      PROVE  b \in Behind(l, p, i) <=> \E q, j : ReadAt(l, l[p][i], p, i, b, q, j)
  <2>1. b \in From(l, p, i + 1) <=> \E j \in 1 .. Len(l[p]) : i < j /\ l[p][j] = b
    <3>1. \A j : j \in i + 1 .. Len(l[p]) <=> j \in 1 .. Len(l[p]) /\ i < j
      BY <1>0
    <3>2. b \in From(l, p, i + 1) <=> \E j \in i + 1 .. Len(l[p]) : l[p][j] = b
      BY DEF From
    <3> QED
      BY <3>1, <3>2, Zenon
  <2>2. b \in UNION {From(l, q, 1) : q \in {q \in Priority : p < q}}
          <=> \E q \in Priority : p < q /\ \E j \in 1 .. Len(l[q]) : l[q][j] = b
    BY DEF From
  <2>3. b \in Behind(l, p, i)
          <=> \/ \E j \in 1 .. Len(l[p]) : i < j /\ l[p][j] = b
              \/ \E q \in Priority : p < q /\ \E j \in 1 .. Len(l[q]) : l[q][j] = b
    BY <2>1, <2>2 DEF Behind
  <2> QED
    BY <2>3, <1>0 DEF ReadAt
<1>2. <<a, b>> \in ReadOrder(l)
        <=> \E p \in Priority : \E i \in 1 .. Len(l[p]) :
              a = l[p][i] /\ b \in Behind(l, p, i)
  BY DEF ReadOrder
<1>3. ASSUME NEW p \in Priority, NEW i \in 1 .. Len(l[p]),
             a = l[p][i], b \in Behind(l, p, i)
      PROVE  ReadBefore(l, a, b)
  BY <1>1, <1>3 DEF ReadBefore
<1>4. ASSUME NEW p, NEW i, NEW q, NEW j, ReadAt(l, a, p, i, b, q, j)
      PROVE  \E x \in Priority : \E y \in 1 .. Len(l[x]) :
               a = l[x][y] /\ b \in Behind(l, x, y)
  <2>1. p \in Priority /\ i \in 1 .. Len(l[p]) /\ a = l[p][i]
    BY <1>4 DEF ReadAt
  <2>2. b \in Behind(l, p, i)
    BY <1>1, <1>4, <2>1
  <2> QED
    BY <2>1, <2>2
<1> QED
  BY <1>2, <1>3, <1>4 DEF ReadBefore

\* The last place of the list of priority p is behind the tasks of p and of more
\* important priorities, and before the others.
AddedTo(l, p, t, m) ==
  \A a, b :
    ReadBefore(m, a, b)
      <=> \/ ReadBefore(l, a, b)
          \/ b = t /\ \E q \in Priority : q <= p /\ dlist_check(l[q], a)
          \/ a = t /\ \E q \in Priority : p < q /\ dlist_check(l[q], b)

LEMMA AddedOrder ==
  ASSUME NEW l \in Lists, NEW p \in Priority, NEW t \in Task,
         NEW m, m = [l EXCEPT ![p] = dlist_add(l[p], t)]
  PROVE  AddedTo(l, p, t, m)
<1> SUFFICES ASSUME NEW a, NEW b
             PROVE  ReadBefore(m, a, b)
                      <=> \/ ReadBefore(l, a, b)
                          \/ b = t /\ \E q \in Priority : q <= p /\ dlist_check(l[q], a)
                          \/ a = t /\ \E q \in Priority : p < q /\ dlist_check(l[q], b)
  BY Zenon DEF AddedTo
<1>0. \A q \in Priority : Len(l[q]) \in Nat /\ q \in Int
  BY ReadyQAssumption DEF Lists, Priority
<1> DEFINE n == Len(l[p]) + 1
<1>1. /\ \A q \in Priority \ {p} : m[q] = l[q]
      /\ Len(m[p]) = n /\ m[p][n] = t
      /\ \A i \in 1 .. Len(l[p]) : m[p][i] = l[p][i]
  BY <1>0 DEF Lists, dlist_add
<1>2. \A q \in Priority : \A i \in 1 .. Len(l[q]) :
        i \in 1 .. Len(m[q]) /\ m[q][i] = l[q][i]
  BY <1>0, <1>1
<1>3. \A q \in Priority : \A i \in 1 .. Len(m[q]) :
        \/ i \in 1 .. Len(l[q]) /\ m[q][i] = l[q][i]
        \/ q = p /\ i = n /\ m[q][i] = t
  BY <1>0, <1>1
<1>4. ASSUME NEW x, NEW i, NEW y, NEW j, ReadAt(l, a, x, i, b, y, j)
      PROVE  ReadAt(m, a, x, i, b, y, j)
  BY <1>2, <1>4 DEF ReadAt
<1>5. ASSUME b = t, NEW q \in Priority, q <= p, NEW i \in 1 .. Len(l[q]), l[q][i] = a
      PROVE  ReadAt(m, a, q, i, b, p, n)
  BY <1>0, <1>1, <1>2, <1>5 DEF ReadAt
<1>6. ASSUME a = t, NEW q \in Priority, p < q, NEW i \in 1 .. Len(l[q]), l[q][i] = b
      PROVE  ReadAt(m, a, p, n, b, q, i)
  BY <1>0, <1>1, <1>2, <1>6 DEF ReadAt
<1>7. ASSUME NEW x, NEW i, NEW y, NEW j, ReadAt(m, a, x, i, b, y, j)
      PROVE  \/ ReadAt(l, a, x, i, b, y, j)
             \/ b = t /\ x \in Priority /\ x <= p /\ dlist_check(l[x], a)
             \/ a = t /\ y \in Priority /\ p < y /\ dlist_check(l[y], b)
  <2>1. /\ x \in Priority /\ i \in 1 .. Len(m[x]) /\ m[x][i] = a
        /\ y \in Priority /\ j \in 1 .. Len(m[y]) /\ m[y][j] = b
        /\ x < y \/ (x = y /\ i < j)
    BY <1>7 DEF ReadAt
  <2>2. CASE i \in 1 .. Len(l[x]) /\ j \in 1 .. Len(l[y])
    BY <2>1, <2>2, <1>2 DEF ReadAt
  <2>3. CASE i \in 1 .. Len(l[x]) /\ y = p /\ j = n
    BY <2>1, <2>3, <1>0, <1>1, <1>2 DEF dlist_check
  <2>4. CASE x = p /\ i = n
    <3>1. j \in 1 .. Len(l[y]) /\ p < y
      BY <2>1, <2>4, <1>0, <1>1, <1>3
    <3> QED
      BY <2>1, <2>4, <3>1, <1>1, <1>2 DEF dlist_check
  <2> QED
    BY <2>1, <2>2, <2>3, <2>4, <1>3
<1> HIDE DEF n
<1>8. ReadBefore(l, a, b) => ReadBefore(m, a, b)
  BY <1>4, Zenon DEF ReadBefore
<1>9. b = t /\ (\E q \in Priority : q <= p /\ dlist_check(l[q], a))
        => ReadBefore(m, a, b)
  BY <1>5, Zenon DEF ReadBefore, dlist_check
<1>10. a = t /\ (\E q \in Priority : p < q /\ dlist_check(l[q], b))
         => ReadBefore(m, a, b)
  BY <1>6, Zenon DEF ReadBefore, dlist_check
<1>11. ReadBefore(m, a, b)
         => \/ ReadBefore(l, a, b)
            \/ b = t /\ \E q \in Priority : q <= p /\ dlist_check(l[q], a)
            \/ a = t /\ \E q \in Priority : p < q /\ dlist_check(l[q], b)
  BY <1>7, Zenon DEF ReadBefore
<1> QED
  BY <1>8, <1>9, <1>10, <1>11, Zenon

\* The tasks that stay keep their order when one is taken out.
OnlyIn(l, p, t) ==
  NoDuplicates(l[p]) /\ \A q \in Priority : dlist_check(l[q], t) <=> q = p

TakenFrom(l, t, m) ==
  \A a, b : ReadBefore(m, a, b) <=> ReadBefore(l, a, b) /\ a # t /\ b # t

LEMMA RemovedOrder ==
  ASSUME NEW l \in Lists, NEW p \in Priority, NEW t \in Task, OnlyIn(l, p, t),
         NEW m, m = [l EXCEPT ![p] = dlist_remove(l[p], t)]
  PROVE  TakenFrom(l, t, m)
<1> SUFFICES ASSUME NEW a, NEW b
             PROVE  ReadBefore(m, a, b) <=> ReadBefore(l, a, b) /\ a # t /\ b # t
  BY Zenon DEF TakenFrom
<1> USE DEF OnlyIn
<1>0. \A q \in Priority : Len(l[q]) \in Nat /\ q \in Int
  BY ReadyQAssumption DEF Lists, Priority
<1>1. PICK c \in 1 .. Len(l[p]) : l[p][c] = t
  BY DEF dlist_check
<1>2. /\ \A q \in Priority \ {p} : m[q] = l[q]
      /\ m[p] = dlist_remove(l[p], t) /\ l[p] \in Seq(Task)
  BY DEF Lists
<1>3. /\ Len(m[p]) = Len(l[p]) - 1
      /\ \A j \in 1 .. Len(l[p]) - 1 : m[p][j] = IF j < c THEN l[p][j] ELSE l[p][j + 1]
  <2>1. /\ Len(dlist_remove(l[p], l[p][c])) = Len(l[p]) - 1
        /\ \A j \in 1 .. Len(l[p]) - 1 :
             dlist_remove(l[p], l[p][c])[j] = IF j < c THEN l[p][j] ELSE l[p][j + 1]
    BY <1>2, RemovedList, Zenon
  <2> QED
    BY <2>1, <1>1, <1>2
<1> DEFINE old(q, j) == IF q = p /\ j >= c THEN j + 1 ELSE j
           new(q, j) == IF q = p /\ j > c THEN j - 1 ELSE j
<1>4. ASSUME NEW q \in Priority, NEW j \in 1 .. Len(m[q])
      PROVE  /\ old(q, j) \in 1 .. Len(l[q])
             /\ l[q][old(q, j)] = m[q][j]
             /\ ~ (q = p /\ old(q, j) = c)
  BY <1>0, <1>2, <1>3
<1>5. ASSUME NEW q \in Priority, NEW j \in 1 .. Len(l[q]), l[q][j] # t
      PROVE  /\ new(q, j) \in 1 .. Len(m[q])
             /\ m[q][new(q, j)] = l[q][j]
  <2>1. CASE q # p
    BY <2>1, <1>2
  <2>2. CASE q = p
    <3>1. j # c /\ j \in Int /\ c \in Int
      BY <1>0, <1>1, <1>5, <2>2
    <3>2. CASE j < c
      BY <3>1, <3>2, <2>2, <1>0, <1>3
    <3>3. CASE j > c
      <4>1. j - 1 \in 1 .. Len(l[p]) - 1 /\ ~ (j - 1 < c) /\ (j - 1) + 1 = j
        BY <3>1, <3>3, <2>2, <1>0
      <4> QED
        BY <4>1, <3>3, <2>2, <1>3
    <3> QED
      BY <3>1, <3>2, <3>3
  <2> QED
    BY <2>1, <2>2
<1>6. ASSUME NEW q \in Priority, NEW j \in 1 .. Len(l[q]), l[q][j] = t
      PROVE  q = p /\ j = c
  <2>1. q = p
    BY <1>6 DEF dlist_check
  <2> QED
    BY <2>1, <1>1, <1>6 DEF NoDuplicates
<1>7. ASSUME NEW x, NEW i, NEW y, NEW j, ReadAt(m, a, x, i, b, y, j)
      PROVE  ReadAt(l, a, x, old(x, i), b, y, old(y, j)) /\ a # t /\ b # t
  <2>1. /\ x \in Priority /\ i \in 1 .. Len(m[x]) /\ m[x][i] = a
        /\ y \in Priority /\ j \in 1 .. Len(m[y]) /\ m[y][j] = b
        /\ x < y \/ (x = y /\ i < j)
    BY <1>7 DEF ReadAt
  <2>2. x = y /\ i < j => old(x, i) < old(y, j)
    BY <2>1, <1>0
  <2>3. /\ old(x, i) \in 1 .. Len(l[x]) /\ l[x][old(x, i)] = a /\ a # t
        /\ old(y, j) \in 1 .. Len(l[y]) /\ l[y][old(y, j)] = b /\ b # t
    <3> HIDE DEF old
    <3>1. /\ old(x, i) \in 1 .. Len(l[x]) /\ l[x][old(x, i)] = m[x][i]
          /\ ~ (x = p /\ old(x, i) = c)
      BY <2>1, <1>4, Zenon
    <3>2. /\ old(y, j) \in 1 .. Len(l[y]) /\ l[y][old(y, j)] = m[y][j]
          /\ ~ (y = p /\ old(y, j) = c)
      BY <2>1, <1>4, Zenon
    <3>3. a # t
      BY <2>1, <3>1, <1>6, Zenon
    <3>4. b # t
      BY <2>1, <3>2, <1>6, Zenon
    <3> QED
      BY <2>1, <3>1, <3>2, <3>3, <3>4, Zenon
  <2> HIDE DEF old
  <2> QED
    BY <2>1, <2>2, <2>3 DEF ReadAt
<1>8. ASSUME NEW x, NEW i, NEW y, NEW j, ReadAt(l, a, x, i, b, y, j), a # t, b # t
      PROVE  ReadAt(m, a, x, new(x, i), b, y, new(y, j))
  <2>1. /\ x \in Priority /\ i \in 1 .. Len(l[x]) /\ l[x][i] = a
        /\ y \in Priority /\ j \in 1 .. Len(l[y]) /\ l[y][j] = b
        /\ x < y \/ (x = y /\ i < j)
    BY <1>8 DEF ReadAt
  <2>2. x = y /\ i < j => new(x, i) < new(y, j)
    <3>1. x = p => i # c
      BY <2>1, <1>1, <1>8
    <3>2. x = p /\ x = y => j # c
      BY <2>1, <1>1, <1>8
    <3> QED
      BY <2>1, <3>1, <3>2, <1>0
  <2>3. /\ new(x, i) \in 1 .. Len(m[x]) /\ m[x][new(x, i)] = a
        /\ new(y, j) \in 1 .. Len(m[y]) /\ m[y][new(y, j)] = b
    <3> HIDE DEF new
    <3> QED
      BY <2>1, <1>5, <1>8
  <2> HIDE DEF new
  <2> QED
    BY <2>1, <2>2, <2>3 DEF ReadAt
<1> HIDE DEF old, new
<1> QED
  BY <1>7, <1>8 DEF ReadBefore
\* Sets of pairs of tasks are equal when they agree on every pair.
LEMMA SamePairs ==
  ASSUME NEW R \in SUBSET (Task \X Task), NEW S \in SUBSET (Task \X Task),
         \A a, b \in Task : <<a, b>> \in R <=> <<a, b>> \in S
  PROVE  R = S
<1> DEFINE P == Task \X Task
<1>1. \A e \in P : e \in R <=> e \in S
  <2> SUFFICES ASSUME NEW e \in P PROVE e \in R <=> e \in S
    OBVIOUS
  <2>1. PICK a \in Task, b \in Task : e = <<a, b>>
    OBVIOUS
  <2> QED
    BY <2>1
<1>2. R \subseteq P /\ S \subseteq P
  OBVIOUS
<1> HIDE DEF P
<1> QED
  BY <1>1, <1>2, Zenon

\* The order is one of the queued tasks.
LEMMA OrderOfQueued ==
  ASSUME NEW l \in Lists
  PROVE  /\ Queued(l) \subseteq Task
         /\ ReadOrder(l) \subseteq Queued(l) \X Queued(l)
<1>0. \A p \in Priority : Len(l[p]) \in Nat /\ l[p] \in Seq(Task)
  BY DEF Lists
<1>1. Queued(l) \subseteq Task
  BY <1>0 DEF Queued, From
<1>2. ASSUME NEW p \in Priority, NEW i \in 1 .. Len(l[p])
      PROVE  l[p][i] \in Queued(l) /\ Behind(l, p, i) \subseteq Queued(l)
  <2>1. \A q \in Priority : \A j \in 1 .. Len(l[q]) : l[q][j] \in Queued(l)
    BY DEF Queued, From
  <2>2. \A j \in i + 1 .. Len(l[p]) : j \in 1 .. Len(l[p])
    BY <1>0
  <2> QED
    BY <2>1, <2>2 DEF Behind, From
<1>3. ReadOrder(l) \subseteq Queued(l) \X Queued(l)
  BY <1>2 DEF ReadOrder
<1> QED
  BY <1>1, <1>3

-----------------------------------------------------------------------------
(* The ready queue implements the queue ordered by priority and arrival.   *)

PriOf(s) == [t \in Task |-> s.tcb[t].task_priority]

\* A queued task is ready and in the list of its priority.
LEMMA ListOfTask ==
  ASSUME NEW s, NEW Off, ReadyInv(s, Off)
  PROVE  /\ s.readyQ.listArray \in Lists
         /\ \A p \in Priority : NoDuplicates(s.readyQ.listArray[p])
         /\ \A t \in Task : s.tcb[t].task_priority \in Priority
         /\ \A t \in Task : InLists(s.readyQ.listArray, t)
                              <=> t \notin Off /\ s.tcb[t].status = "READY"
         /\ \A t \in Task, p \in Priority :
              dlist_check(s.readyQ.listArray[p], t)
                => s.tcb[t].task_priority = p
<1>1. /\ s.readyQ.listArray \in Lists
      /\ \A t \in Task : s.tcb[t].task_priority \in Priority
  BY DEF ReadyInv, KernelState, READY_QUEUE, OS_TCB, Lists
<1> QED
  BY <1>1 DEF ReadyInv, LinkedBut, InLists

\* highest_tcb is the first of the order, NULL when nothing is queued.
LEMMA TopOfOrder ==
  ASSUME NEW s, NEW Off, ReadyInv(s, Off)
  PROVE  Abs!TopIsFirst(Queued(s.readyQ.listArray), ReadOrder(s.readyQ.listArray),
                        s.readyQ.highest_tcb)
<1> DEFINE l == s.readyQ.listArray
           h == s.readyQ.highest_tcb
<1>0. /\ l \in Lists /\ Highest(s) /\ h \in Task \cup {NULL} /\ NULL \notin Task
      /\ \A t \in Task : s.tcb[t].task_priority \in Priority
      /\ \A p \in Priority : Len(l[p]) \in Nat /\ p \in Int
      /\ \A p \in Priority : NoDuplicates(l[p])
  <2>1. /\ l \in Lists
        /\ \A t \in Task : s.tcb[t].task_priority \in Priority
        /\ \A p \in Priority : NoDuplicates(l[p])
    BY ListOfTask
  <2>2. Highest(s) /\ h \in Task \cup {NULL} /\ NULL \notin Task
    BY ReadyQAssumption DEF ReadyInv, KernelState, READY_QUEUE
  <2> HIDE DEF l, h
  <2>3. \A p \in Priority : Len(l[p]) \in Nat /\ p \in Int
    BY <2>1, ReadyQAssumption DEF Lists, Priority
  <2> QED
    BY <2>1, <2>2, <2>3
<1>1. CASE h = NULL
  <2>1. \A p \in Priority : Len(l[p]) = 0
    BY <1>0, <1>1 DEF Highest
  <2>2. Queued(l) = {}
    BY <2>1, <1>0 DEF Queued, From
  <2> QED
    BY <1>1, <2>2 DEF Abs!TopIsFirst
<1>2. CASE h # NULL
  <2> DEFINE p == s.tcb[h].task_priority
  <2>1. h \in Task /\ p \in Priority
    BY <1>0, <1>2
  <2>2. /\ Len(l[p]) > 0 /\ l[p][1] = h
        /\ \A q \in Priority : q < p => Len(l[q]) = 0
    BY <1>0, <1>2 DEF Highest
  <2> HIDE DEF p, l, h
  <2>3. 1 \in 1 .. Len(l[p])
    BY <1>0, <2>1, <2>2
  <2>4. h \in Queued(l)
    BY <1>0, <2>1, <2>2, <2>3, InQueued DEF InLists, dlist_check
  <2>5. ASSUME NEW u \in Queued(l), u # h
        PROVE  <<h, u>> \in ReadOrder(l)
    <3>0. PICK q \in Priority : \E j \in 1 .. Len(l[q]) : l[q][j] = u
      BY <1>0, InQueued DEF InLists, dlist_check
    <3>1. PICK j \in 1 .. Len(l[q]) : l[q][j] = u
      BY <3>0
    <3>2. j \in Int /\ j >= 1 /\ Len(l[q]) > 0
      BY <1>0, <3>1
    <3>3. p <= q
      BY <3>2, <2>1, <2>2, <1>0
    <3>4. p = q => 1 < j
      BY <3>1, <3>2, <2>2, <2>5
    <3>5. ReadAt(l, h, p, 1, u, q, j)
      BY <1>0, <2>1, <2>2, <2>3, <3>1, <3>3, <3>4 DEF ReadAt
    <3> QED
      BY <3>5, <1>0, InReadOrder DEF ReadBefore
  <2> QED
    BY <2>4, <2>5 DEF Abs!TopIsFirst, l, h
<1> QED
  BY <1>1, <1>2

\* readyQ_put places the task by its priority and behind its equals.
LEMMA PutOrder ==
  ASSUME NEW s, NEW t \in Task, ReadyInv(s, {t}), NEW n, n = readyQ_put(s, t)
  PROVE  /\ PriOf(n) = PriOf(s)
         /\ Queued(n.readyQ.listArray) = Queued(s.readyQ.listArray) \cup {t}
         /\ ReadOrder(n.readyQ.listArray)
              = ReadOrder(s.readyQ.listArray)
                  \cup Abs!Placed(Queued(s.readyQ.listArray), PriOf(s), t)
<1> DEFINE l == s.readyQ.listArray
           m == n.readyQ.listArray
           p == s.tcb[t].task_priority
           P == Abs!Placed(Queued(l), PriOf(s), t)
<1>0. /\ l \in Lists /\ p \in Priority
      /\ \A q \in Priority : Len(l[q]) \in Nat /\ q \in Int
      /\ \A u \in Task : InLists(l, u) => u # t
      /\ \A u \in Task, q \in Priority : dlist_check(l[q], u) => PriOf(s)[u] = q
      /\ PriOf(s)[t] = p
  BY ListOfTask, ReadyQAssumption DEF Lists, Priority, PriOf
<1>1. ReadyInv(n, {}) /\ n.tcb = [s.tcb EXCEPT ![t].status = "READY", ![t].pend_obj = NULL]
  BY PutKeeps
<1>2. PriOf(n) = PriOf(s)
  BY <1>1 DEF PriOf, ReadyInv, KernelState, OS_TCB
<1>3. m \in Lists
  BY <1>1, ListOfTask
<1>4. m = [l EXCEPT ![p] = dlist_add(l[p], t)]
  BY DEF readyQ_put
<1> HIDE DEF l, m, p
<1>5. AddedTo(l, p, t, m)
  BY <1>0, <1>4, AddedOrder, Zenon
<1>6. ASSUME NEW a \in Task
      PROVE  a \in Queued(m) <=> a \in Queued(l) \/ a = t
  <2>1. \A q \in Priority \ {p} : m[q] = l[q]
    BY <1>0, <1>4 DEF Lists
  <2>2. m[p] = Append(l[p], t) /\ l[p] \in Seq(Task)
    BY <1>0, <1>4 DEF Lists, dlist_add
  <2>3. dlist_check(m[p], a) <=> dlist_check(l[p], a) \/ a = t
    BY <2>2 DEF dlist_check
  <2> QED
    BY <1>0, <1>3, <2>1, <2>3, InQueued DEF InLists
<1>7. Queued(m) = Queued(l) \cup {t}
  BY <1>0, <1>3, <1>6, OrderOfQueued
<1>8. ASSUME NEW a \in Task, NEW b \in Task
      PROVE  <<a, b>> \in P
               <=> \/ b = t /\ \E q \in Priority : q <= p /\ dlist_check(l[q], a)
                   \/ a = t /\ \E q \in Priority : p < q /\ dlist_check(l[q], b)
  <2>1. <<a, b>> \in P
          <=> \/ b = t /\ a \in Queued(l) /\ PriOf(s)[a] <= PriOf(s)[t]
              \/ a = t /\ b \in Queued(l) /\ PriOf(s)[b] > PriOf(s)[t]
    BY DEF Abs!Placed
  <2>2. \A u \in Task : u \in Queued(l) <=> \E q \in Priority : dlist_check(l[q], u)
    BY <1>0, InQueued DEF InLists
  <2> HIDE DEF P
  <2>3. a \in Queued(l) /\ PriOf(s)[a] <= PriOf(s)[t]
          <=> \E q \in Priority : q <= p /\ dlist_check(l[q], a)
    BY <1>0, <2>2
  <2>4. b \in Queued(l) /\ PriOf(s)[b] > PriOf(s)[t]
          <=> \E q \in Priority : p < q /\ dlist_check(l[q], b)
    BY <1>0, <2>2
  <2> QED
    BY <2>1, <2>3, <2>4
<1>9. P \in SUBSET (Task \X Task)
  <2>1. Queued(l) \subseteq Task
    BY <1>0, OrderOfQueued
  <2> QED
    BY <2>1 DEF Abs!Placed
<1> HIDE DEF P
<1>10. ReadOrder(m) = ReadOrder(l) \cup P
  <2>1. ReadOrder(m) \in SUBSET (Task \X Task) /\ ReadOrder(l) \in SUBSET (Task \X Task)
    BY <1>0, <1>3, OrderOfQueued
  <2>2. \A a, b \in Task : /\ <<a, b>> \in ReadOrder(m) <=> ReadBefore(m, a, b)
                           /\ <<a, b>> \in ReadOrder(l) <=> ReadBefore(l, a, b)
    BY <1>0, <1>3, InReadOrder
  <2>3. \A a, b \in Task : <<a, b>> \in ReadOrder(m) <=> <<a, b>> \in ReadOrder(l) \cup P
    BY <2>2, <1>5, <1>8 DEF AddedTo
  <2> QED
    BY <2>1, <2>3, <1>9, SamePairs
<1> QED
  BY <1>2, <1>7, <1>10 DEF l, m, P

\* readyQ_remove leaves the other tasks and their order.
LEMMA RemoveOrder ==
  ASSUME NEW s, NEW t \in Task, ReadyInv(s, {}), s.tcb[t].status = "READY",
         NEW n, n = readyQ_remove(s, t)
  PROVE  /\ Queued(n.readyQ.listArray) = Queued(s.readyQ.listArray) \ {t}
         /\ ReadOrder(n.readyQ.listArray)
              = Abs!Among(Queued(s.readyQ.listArray) \ {t}, ReadOrder(s.readyQ.listArray))
<1> DEFINE l == s.readyQ.listArray
           m == n.readyQ.listArray
           p == s.tcb[t].task_priority
           A == Abs!Among(Queued(l) \ {t}, ReadOrder(l))
<1>0. /\ l \in Lists /\ p \in Priority /\ NoDuplicates(l[p])
      /\ \A q \in Priority : dlist_check(l[q], t) <=> q = p
      /\ \A u \in Task : InLists(l, u) <=> s.tcb[u].status = "READY"
  BY ListOfTask DEF InLists
<1>1. ReadyInv(n, {t}) /\ n.tcb = s.tcb
  BY RemoveKeeps
<1>2. /\ m \in Lists
      /\ \A u \in Task : InLists(m, u) <=> u # t /\ s.tcb[u].status = "READY"
  BY <1>1, ListOfTask
<1>3. m = [l EXCEPT ![p] = dlist_remove(l[p], t)]
  <2> DEFINE q  == s.readyQ
             d  == dlist_remove(l[p], t)
             q1 == [q EXCEPT !.listArray[p] = d]
             r  == IF DL_EMPTY(d) THEN clear_maps(q1, p) ELSE q1
             top == IF t # r.highest_tcb THEN r.highest_tcb
                    ELSE IF DL_EMPTY(d) THEN readyQ_first(r) ELSE DL_FIRST(d)
  <2>1. q \in READY_QUEUE /\ s = [readyQ |-> q, tcb |-> s.tcb]
    BY DEF ReadyInv, KernelState
  <2>2. n.readyQ = [r EXCEPT !.highest_tcb = top]
    BY <2>1 DEF readyQ_remove
  <2> HIDE DEF d, top
  <2>3. q1.listArray = [l EXCEPT ![p] = d]
    BY <2>1 DEF READY_QUEUE
  <2>4. r.listArray = q1.listArray /\ [r EXCEPT !.highest_tcb = top].listArray = r.listArray
    BY <2>1 DEF READY_QUEUE, clear_maps
  <2> HIDE DEF r, q1
  <2> QED
    BY <2>2, <2>3, <2>4 DEF d
<1> HIDE DEF l, m, p
<1>4. TakenFrom(l, t, m)
  <2>1. OnlyIn(l, p, t)
    BY <1>0 DEF OnlyIn
  <2> QED
    BY <1>0, <1>3, <2>1, RemovedOrder, Zenon
<1>5. Queued(m) = Queued(l) \ {t}
  BY <1>0, <1>2, InQueued, OrderOfQueued
<1>6. ReadOrder(m) = A
  <2>1. /\ ReadOrder(m) \in SUBSET (Task \X Task)
        /\ ReadOrder(l) \subseteq Queued(l) \X Queued(l)
        /\ Queued(l) \subseteq Task
    BY <1>0, <1>2, OrderOfQueued
  <2>2. A \in SUBSET (Task \X Task)
    BY <2>1 DEF Abs!Among
  <2>3. \A a, b \in Task : <<a, b>> \in A <=> <<a, b>> \in ReadOrder(l) /\ a # t /\ b # t
    BY <2>1 DEF Abs!Among
  <2>4. \A a, b \in Task : /\ <<a, b>> \in ReadOrder(m) <=> ReadBefore(m, a, b)
                           /\ <<a, b>> \in ReadOrder(l) <=> ReadBefore(l, a, b)
    BY <1>0, <1>2, InReadOrder
  <2> HIDE DEF A
  <2>5. \A a, b \in Task : <<a, b>> \in ReadOrder(m) <=> <<a, b>> \in A
    BY <2>3, <2>4, <1>4 DEF TakenFrom
  <2> QED
    BY <2>1, <2>2, <2>5, SamePairs
<1> QED
  BY <1>5, <1>6 DEF l, m
-----------------------------------------------------------------------------
(* The steps of the ready queue as steps of the abstract queue.            *)

\* A put, after the priority was assigned off the queue, is an Enter.
LEMMA EnterStep ==
  ASSUME Inv, NEW t \in Task, NEW p \in Priority, Enter(t, p)
  PROVE  Abs!Enter(t, p)
<1> DEFINE s == [k EXCEPT !.tcb[t].task_priority = p]
<1>0. ReadyInv(k, {}) /\ k.tcb \in [Task -> OS_TCB]
  BY InvIsReadyInv DEF ReadyInv, KernelState
<1>1. k.tcb[t].status # "READY" /\ k' = readyQ_put(s, t)
  BY DEF Enter
<1>2. /\ s \in KernelState /\ s.readyQ = k.readyQ
      /\ \A u \in Task \ {t} : s.tcb[u] = k.tcb[u]
      /\ PriOf(s) = [PriOf(k) EXCEPT ![t] = p]
  BY <1>0 DEF ReadyInv, KernelState, OS_TCB, PriOf
<1> HIDE DEF s
<1>3. ReadyInv(s, {t})
  <2>1. ReadyInv(k, {t})
    BY <1>0, <1>1 DEF ReadyInv, LinkedBut
  <2> QED
    BY <2>1, <1>2, OffTheQueue
<1>4. t \notin Queued(k.readyQ.listArray)
  BY <1>0, <1>1, ListOfTask, InQueued
<1>5. /\ PriOf(k') = PriOf(s)
      /\ Queued(k'.readyQ.listArray) = Queued(s.readyQ.listArray) \cup {t}
      /\ ReadOrder(k'.readyQ.listArray)
           = ReadOrder(s.readyQ.listArray)
               \cup Abs!Placed(Queued(s.readyQ.listArray), PriOf(s), t)
  BY <1>1, <1>3, PutOrder
<1>6. Abs!TopIsFirst(Queued(k'.readyQ.listArray), ReadOrder(k'.readyQ.listArray),
                     k'.readyQ.highest_tcb)
  BY <1>1, <1>3, PutKeeps, TopOfOrder
<1> QED
  BY <1>2, <1>4, <1>5, <1>6 DEF Abs!Enter, PriOf

\* A remove, whatever becomes of the status, is a Leave.
LEMMA LeaveStep ==
  ASSUME Inv, NEW t \in Task, Leave(t)
  PROVE  Abs!Leave(t)
<1> DEFINE n == readyQ_remove(k, t)
           s == [n EXCEPT !.tcb[t].status = "DELAY"]
<1>0. ReadyInv(k, {}) /\ k.tcb \in [Task -> OS_TCB]
  BY InvIsReadyInv DEF ReadyInv, KernelState
<1>1. k.tcb[t].status = "READY" /\ k' = s
  BY DEF Leave
<1>2. ReadyInv(n, {t}) /\ n.tcb = k.tcb
  BY <1>0, <1>1, RemoveKeeps
<1>3. t \in Queued(k.readyQ.listArray)
  BY <1>0, <1>1, ListOfTask, InQueued
<1>4. /\ Queued(n.readyQ.listArray) = Queued(k.readyQ.listArray) \ {t}
      /\ ReadOrder(n.readyQ.listArray)
           = Abs!Among(Queued(k.readyQ.listArray) \ {t}, ReadOrder(k.readyQ.listArray))
  BY <1>0, <1>1, RemoveOrder
<1> HIDE DEF n
<1>5. k'.readyQ = n.readyQ /\ PriOf(k') = PriOf(k)
  BY <1>0, <1>1, <1>2 DEF ReadyInv, KernelState, OS_TCB, PriOf
<1>6. Abs!TopIsFirst(Queued(n.readyQ.listArray), ReadOrder(n.readyQ.listArray),
                     n.readyQ.highest_tcb)
  BY <1>2, TopOfOrder
<1> QED
  BY <1>3, <1>4, <1>5, <1>6 DEF Abs!Leave, PriOf

\* A remove and a put with another priority is a Move.
LEMMA MoveStep ==
  ASSUME Inv, NEW t \in Task, NEW p \in Priority, Move(t, p)
  PROVE  Abs!Move(t, p)
<1> DEFINE n == readyQ_remove(k, t)
           s == [n EXCEPT !.tcb[t].task_priority = p]
<1>0. ReadyInv(k, {}) /\ k.tcb \in [Task -> OS_TCB]
  BY InvIsReadyInv DEF ReadyInv, KernelState
<1>1. k.tcb[t].status = "READY" /\ k' = readyQ_put(s, t)
  BY DEF Move
<1>2. ReadyInv(n, {t}) /\ n.tcb = k.tcb
  BY <1>0, <1>1, RemoveKeeps
<1>3. t \in Queued(k.readyQ.listArray)
  BY <1>0, <1>1, ListOfTask, InQueued
<1>4. /\ Queued(n.readyQ.listArray) = Queued(k.readyQ.listArray) \ {t}
      /\ ReadOrder(n.readyQ.listArray)
           = Abs!Among(Queued(k.readyQ.listArray) \ {t}, ReadOrder(k.readyQ.listArray))
  BY <1>0, <1>1, RemoveOrder
<1> HIDE DEF n
<1>5. /\ s \in KernelState /\ s.readyQ = n.readyQ
      /\ \A u \in Task \ {t} : s.tcb[u] = n.tcb[u]
      /\ PriOf(s) = [PriOf(k) EXCEPT ![t] = p]
  BY <1>0, <1>2 DEF ReadyInv, KernelState, OS_TCB, PriOf
<1> HIDE DEF s
<1>6. ReadyInv(s, {t})
  BY <1>2, <1>5, OffTheQueue
<1>7. /\ PriOf(k') = PriOf(s)
      /\ Queued(k'.readyQ.listArray) = Queued(s.readyQ.listArray) \cup {t}
      /\ ReadOrder(k'.readyQ.listArray)
           = ReadOrder(s.readyQ.listArray)
               \cup Abs!Placed(Queued(s.readyQ.listArray), PriOf(s), t)
  BY <1>1, <1>6, PutOrder
<1>8. Abs!TopIsFirst(Queued(k'.readyQ.listArray), ReadOrder(k'.readyQ.listArray),
                     k'.readyQ.highest_tcb)
  BY <1>1, <1>6, PutKeeps, TopOfOrder
<1>9. Queued(k'.readyQ.listArray) = Queued(k.readyQ.listArray)
  BY <1>3, <1>4, <1>5, <1>7
<1> QED
  BY <1>3, <1>4, <1>5, <1>7, <1>8, <1>9 DEF Abs!Move, PriOf

\* Empty lists hold an empty queue.
LEMMA InitOrder == Init => Abs!Init
<1> SUFFICES ASSUME Init PROVE Abs!Init
  OBVIOUS
<1>1. /\ k.readyQ.highest_tcb = NULL
      /\ \A p \in Priority : k.readyQ.listArray[p] = << >>
      /\ \A t \in Task : k.tcb[t].task_priority = 0
  BY DEF Init, readyQ_init, tcb_free
<1>2. \A p \in Priority : Len(k.readyQ.listArray[p]) = 0
  BY <1>1
<1>3. Queued(k.readyQ.listArray) = {} /\ ReadOrder(k.readyQ.listArray) = {}
  BY <1>2 DEF Queued, From, ReadOrder
<1>4. 0 \in Priority
  BY ReadyQAssumption DEF Priority
<1> QED
  BY <1>1, <1>3, <1>4 DEF Abs!Init

\* For every set of tasks, number of priorities and width of a bit-map word the
\* bit-mapped lists implement one queue ordered by priority and arrival, and
\* highest_tcb, which scheduler.S loads, is always its first task.
THEOREM ReadyQueueIsPrioQueue == Spec => ImplementsPrioQueue
<1>1. Init => Abs!Init
  BY InitOrder
<1>2. Inv /\ [Next]_k => [UNCHANGED k \/ Abs!Next]_(Abs!vars)
  <2> SUFFICES ASSUME Inv, [Next]_k PROVE UNCHANGED k \/ Abs!Next
    OBVIOUS
  <2>1. ASSUME NEW t \in Task, NEW p \in Priority, Enter(t, p) PROVE Abs!Next
    BY <2>1, EnterStep DEF Abs!Next
  <2>2. ASSUME NEW t \in Task, NEW p \in Priority, Move(t, p) PROVE Abs!Next
    BY <2>2, MoveStep DEF Abs!Next
  <2>3. ASSUME NEW t \in Task, Leave(t) PROVE Abs!Next
    BY <2>3, LeaveStep DEF Abs!Next
  <2> QED
    BY <2>1, <2>2, <2>3 DEF Next
<1> QED
  BY <1>1, <1>2, InitHolds, StepKeeps, PTL DEF Spec, ImplementsPrioQueue
=============================================================================
