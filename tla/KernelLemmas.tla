---------------------------- MODULE KernelLemmas ----------------------------
(***************************************************************************)
(* What the pieces of the kernel calls keep: a task that pends, a task     *)
(* that is woken, a list that is flushed, a list that a tick walks over.   *)
(* They are functions of a kernel state, so the lemmas are about states    *)
(* inside a step as well.  Then the inductive invariant of the kernel, in  *)
(* parts that say what each component contributes, and what the parts      *)
(* survive: the steps of the other components, a tick, a chain of priority *)
(* boosts, the release of the mutexes of a deleted task.                   *)
(***************************************************************************)
EXTENDS KernelProps, ReadyQLemmas, FiniteSetTheorems

LOCAL INSTANCE FiniteSetsExt
LOCAL INSTANCE SequencesExt

\* The list holds, once each, the tasks with this status and pend_obj that are
\* not in Off.
HoldsBut(ks, list, st, obj, Off) ==
  /\ list \in Seq(Task)
  /\ NoDuplicates(list)
  /\ \A t \in Task : dlist_check(list, t)
                       <=> /\ t \notin Off
                           /\ ks.tcb[t].status = st /\ ks.tcb[t].pend_obj = obj

\* From ks to n at most the control block of t changed.
OnlyTask(ks, n, t) == \A u \in Task : u # t => n.tcb[u] = ks.tcb[u]

\* The priorities of t are the same in ks and n.
SamePriority(ks, n, t) ==
  /\ n.tcb[t].task_priority = ks.tcb[t].task_priority
  /\ n.tcb[t].origin_pri = ks.tcb[t].origin_pri

\* A waiting task has ticks left.
TicksLeft(ks) ==
  \A t \in Task : ks.tcb[t].status \notin {"READY", "FREE"}
                    => ks.tcb[t].delay_ticks > 0

\* From ks to n, tasks with a status in S may have become ready; all else that
\* the lists depend on is as it was.
Woke(ks, n, S) ==
  \A t \in Task :
    /\ SamePriority(ks, n, t)
    /\ \/ /\ n.tcb[t].status = ks.tcb[t].status
          /\ n.tcb[t].pend_obj = ks.tcb[t].pend_obj
       \/ ks.tcb[t].status \in S /\ n.tcb[t].status = "READY"

\* t is ready or waits with this status for this object.
ReadyOrAt(ks, t, st, o) ==
  \/ ks.tcb[t].status = "READY"
  \/ ks.tcb[t].status = st /\ ks.tcb[t].pend_obj = o

\* From ks to n, tasks moved only between the ready queue and one wait list.
MovesOn(ks, n, st, o) ==
  \A t \in Task :
    \/ /\ n.tcb[t].status = ks.tcb[t].status
       /\ n.tcb[t].pend_obj = ks.tcb[t].pend_obj
    \/ ReadyOrAt(ks, t, st, o) /\ ReadyOrAt(n, t, st, o)

\* From ks to n, the same tasks wait with this status, for the same objects.
Still(ks, n, st) ==
  \A t \in Task : (ks.tcb[t].status = st \/ n.tcb[t].status = st)
                    => /\ n.tcb[t].status = ks.tcb[t].status
                       /\ n.tcb[t].pend_obj = ks.tcb[t].pend_obj

\* From ks to n, the ready tasks are untouched and those that became ready have
\* no ticks left: they were woken by the clock or by a flush.
Expired(ks, n) ==
  \A t \in Task :
    /\ ks.tcb[t].status = "READY" => n.tcb[t] = ks.tcb[t]
    /\ (ks.tcb[t].status # "READY" /\ n.tcb[t].status = "READY")
         => n.tcb[t].delay_ticks = 0

\* From ks to n, the ready tasks and those of Off are untouched, and no task's
\* ticks changed.
TicksKept(ks, n, Off) ==
  \A t \in Task :
    /\ (ks.tcb[t].status = "READY" \/ t \in Off) => n.tcb[t] = ks.tcb[t]
    /\ n.tcb[t].delay_ticks = ks.tcb[t].delay_ticks

Waiting == Status \ {"READY", "FREE"}

-----------------------------------------------------------------------------
(* Frames.                                                                 *)

LEMMA StillFrame ==
  ASSUME NEW ks, NEW n, NEW st, Still(ks, n, st), NEW l, NEW o, NEW Off,
         HoldsBut(ks, l, st, o, Off)
  PROVE  HoldsBut(n, l, st, o, Off)
  BY DEF Still, HoldsBut

LEMMA WokeStill ==
  ASSUME NEW ks, NEW n, NEW S, Woke(ks, n, S), NEW st, st \notin S, st # "READY"
  PROVE  Still(ks, n, st)
  BY DEF Woke, Still

LEMMA MovesStill ==
  ASSUME NEW ks, NEW n, NEW st, NEW o, MovesOn(ks, n, st, o),
         NEW st2, st2 # st, st2 # "READY"
  PROVE  Still(ks, n, st2)
  BY DEF MovesOn, ReadyOrAt, Still

LEMMA WokeTrans ==
  ASSUME NEW a, NEW b, NEW c, NEW S, Woke(a, b, S), Woke(b, c, S), "READY" \notin S
  PROVE  Woke(a, c, S)
  BY DEF Woke, SamePriority

\* One task became ready.
LEMMA WokeOne ==
  ASSUME NEW ks, NEW n, NEW t \in Task, NEW S, OnlyTask(ks, n, t),
         SamePriority(ks, n, t), ks.tcb[t].status \in S, n.tcb[t].status = "READY"
  PROVE  Woke(ks, n, S)
  BY DEF Woke, OnlyTask, SamePriority

LEMMA ExpiredTrans ==
  ASSUME NEW a, NEW b, NEW c, Expired(a, b), Expired(b, c)
  PROVE  Expired(a, c)
  BY DEF Expired

\* A list is as good as before when tasks moved on another one.
LEMMA MovesFrame ==
  ASSUME NEW ks, NEW n, NEW st, NEW o, MovesOn(ks, n, st, o),
         NEW l, NEW st2, NEW o2, NEW Off, st2 # st \/ o2 # o, st2 # "READY",
         HoldsBut(ks, l, st2, o2, Off)
  PROVE  HoldsBut(n, l, st2, o2, Off)
  BY DEF MovesOn, ReadyOrAt, HoldsBut

\* One task moved.
LEMMA OneMoves ==
  ASSUME NEW ks, NEW n, NEW t \in Task, NEW st, NEW o, OnlyTask(ks, n, t),
         ReadyOrAt(ks, t, st, o), ReadyOrAt(n, t, st, o)
  PROVE  MovesOn(ks, n, st, o)
  BY DEF MovesOn, OnlyTask

\* One task changed and came into the list.
LEMMA HoldsMore ==
  ASSUME NEW ks, NEW n, NEW t \in Task, NEW l, NEW st, NEW o, NEW Off, t \notin Off,
         HoldsBut(ks, l, st, o, Off),
         OnlyTask(ks, n, t),
         n.tcb[t].status = st, n.tcb[t].pend_obj = o,
         NEW m \in Seq(Task), NoDuplicates(m),
         \A x : dlist_check(m, x) <=> (x = t \/ dlist_check(l, x))
  PROVE  HoldsBut(n, m, st, o, Off)
  BY DEF HoldsBut, OnlyTask

\* One task changed and went from the list.
LEMMA HoldsLess ==
  ASSUME NEW ks, NEW n, NEW t \in Task, NEW l, NEW st, NEW o, NEW Off,
         HoldsBut(ks, l, st, o, Off),
         OnlyTask(ks, n, t),
         n.tcb[t].status # st \/ t \in Off,
         NEW m \in Seq(Task), NoDuplicates(m), ~ dlist_check(m, t),
         \A x : x # t => (dlist_check(m, x) <=> dlist_check(l, x))
  PROVE  HoldsBut(n, m, st, o, Off)
  BY DEF HoldsBut, OnlyTask

-----------------------------------------------------------------------------
(* A task is woken, a task pends.                                          *)

\* readyQ_put of a task that waits; its ticks may have been set before.
LEMMA WakeKeeps ==
  ASSUME NEW ks, NEW Off, ReadyInv(ks, Off),
         NEW t \in Task, t \notin Off, ks.tcb[t].status # "READY",
         NEW s \in KernelState, s.readyQ = ks.readyQ,
         OnlyTask(ks, s, t), SamePriority(ks, s, t)
  PROVE  /\ ReadyInv(readyQ_put(s, t), Off)
         /\ OnlyTask(ks, readyQ_put(s, t), t) /\ SamePriority(ks, readyQ_put(s, t), t)
         /\ readyQ_put(s, t).tcb[t].status = "READY"
         /\ readyQ_put(s, t).tcb[t].pend_obj = NULL
         /\ readyQ_put(s, t).tcb[t].delay_ticks = s.tcb[t].delay_ticks
<1> DEFINE n == readyQ_put(s, t)
<1>1. ReadyInv(ks, Off \cup {t})
  BY NotReadyIsOff
<1>2. ReadyInv(s, Off \cup {t})
  <2>1. \A u \in Task \ (Off \cup {t}) : s.tcb[u] = ks.tcb[u]
    BY DEF OnlyTask
  <2> QED
    BY <1>1, <2>1, OffTheQueue
<1>3. /\ ReadyInv(n, Off)
      /\ n.tcb = [s.tcb EXCEPT ![t].status = "READY", ![t].pend_obj = NULL]
  BY <1>2, PutKeepsOff
<1> HIDE DEF n
<1>4. s.tcb \in [Task -> OS_TCB] /\ s.tcb[t] \in OS_TCB
  BY DEF KernelState
<1>5. /\ \A u \in Task \ {t} : n.tcb[u] = ks.tcb[u]
      /\ n.tcb[t] = [s.tcb[t] EXCEPT !.status = "READY", !.pend_obj = NULL]
  BY <1>3, <1>4 DEF OnlyTask
<1>6. /\ n.tcb[t].status = "READY" /\ n.tcb[t].pend_obj = NULL
      /\ n.tcb[t].delay_ticks = s.tcb[t].delay_ticks
      /\ SamePriority(ks, n, t)
  BY <1>4, <1>5 DEF OS_TCB, SamePriority
<1>7. OnlyTask(ks, n, t)
  BY <1>5 DEF OnlyTask
<1> QED
  BY <1>3, <1>6, <1>7 DEF n

\* SetTicks changes one field of one control block.
LEMMA SetTicksIs ==
  ASSUME NEW ks \in KernelState, NEW t \in Task, NEW x \in Nat,
         NEW n, n = SetTicks(ks, t, x)
  PROVE  /\ n \in KernelState /\ n.readyQ = ks.readyQ
         /\ OnlyTask(ks, n, t) /\ SamePriority(ks, n, t)
         /\ n.tcb[t].status = ks.tcb[t].status
         /\ n.tcb[t].pend_obj = ks.tcb[t].pend_obj
         /\ n.tcb[t].delay_ticks = x
<1>1. /\ ks.tcb \in [Task -> OS_TCB] /\ ks.tcb[t] \in OS_TCB
      /\ ks = [readyQ |-> ks.readyQ, tcb |-> ks.tcb] /\ ks.readyQ \in READY_QUEUE
  BY DEF KernelState
<1> DEFINE r == [ks.tcb[t] EXCEPT !.delay_ticks = x]
<1>2. /\ r \in OS_TCB /\ r.task_priority = ks.tcb[t].task_priority
      /\ r.origin_pri = ks.tcb[t].origin_pri /\ r.status = ks.tcb[t].status
      /\ r.pend_obj = ks.tcb[t].pend_obj /\ r.delay_ticks = x
  BY <1>1 DEF OS_TCB
<1>3. n.readyQ = ks.readyQ /\ n.tcb = [ks.tcb EXCEPT ![t] = r]
      /\ n = [readyQ |-> n.readyQ, tcb |-> n.tcb]
  BY <1>1 DEF SetTicks
<1> HIDE DEF r
<1>4. n.tcb[t] = r /\ n.tcb \in [Task -> OS_TCB] /\ \A u \in Task \ {t} : n.tcb[u] = ks.tcb[u]
  BY <1>1, <1>2, <1>3
<1>5. n \in KernelState
  BY <1>1, <1>3, <1>4 DEF KernelState
<1> QED
  BY <1>2, <1>3, <1>4, <1>5 DEF r, OnlyTask, SamePriority

\* The running task leaves the ready queue and waits.
LEMMA PendKeeps ==
  ASSUME NEW ks, ReadyInv(ks, {}), TicksLeft(ks),
         current \in Task, ks.tcb[current].status = "READY",
         NEW st \in Waiting, NEW o \in Obj \cup {NULL}, NEW ticks \in Nat \ {0},
         NEW n, n = pend(ks, st, o, ticks)
  PROVE  /\ ReadyInv(n, {}) /\ TicksLeft(n)
         /\ OnlyTask(ks, n, current) /\ SamePriority(ks, n, current)
         /\ n.tcb[current].status = st /\ n.tcb[current].pend_obj = o
         /\ n.tcb[current].delay_ticks = ticks
<1> DEFINE a == readyQ_remove(ks, current)
           r == [ks.tcb[current] EXCEPT !.delay_ticks = ticks, !.status = st,
                                        !.pend_obj = o]
<1>1. ReadyInv(a, {current}) /\ a.tcb = ks.tcb
  BY RemoveKeeps
<1>2. /\ a \in KernelState /\ a.tcb \in [Task -> OS_TCB] /\ a.readyQ \in READY_QUEUE
      /\ a = [readyQ |-> a.readyQ, tcb |-> a.tcb] /\ ks.tcb[current] \in OS_TCB
  BY <1>1 DEF ReadyInv, KernelState
<1>3. n = [a EXCEPT !.tcb[current] = [@ EXCEPT !.delay_ticks = ticks, !.status = st,
                                                !.pend_obj = o]]
  BY DEF pend
<1> HIDE DEF a
<1>4. /\ r \in OS_TCB /\ r.status = st /\ r.pend_obj = o /\ r.delay_ticks = ticks
      /\ r.task_priority = ks.tcb[current].task_priority
      /\ r.origin_pri = ks.tcb[current].origin_pri
  BY <1>2 DEF OS_TCB, Waiting
<1>5. n.readyQ = a.readyQ /\ n.tcb = [ks.tcb EXCEPT ![current] = r]
      /\ n = [readyQ |-> n.readyQ, tcb |-> n.tcb]
  BY <1>1, <1>2, <1>3
<1> HIDE DEF r
<1>6. /\ n.tcb[current] = r /\ n.tcb \in [Task -> OS_TCB]
      /\ \A u \in Task \ {current} : n.tcb[u] = ks.tcb[u]
  BY <1>1, <1>2, <1>4, <1>5
<1>7. n \in KernelState
  BY <1>2, <1>5, <1>6 DEF KernelState
<1>8. ReadyInv(n, {})
  BY <1>1, <1>4, <1>5, <1>6, <1>7, OffTheQueue DEF Waiting
<1>9. TicksLeft(n)
  BY <1>4, <1>6 DEF TicksLeft
<1> QED
  BY <1>4, <1>6, <1>8, <1>9 DEF r, OnlyTask, SamePriority

-----------------------------------------------------------------------------
(* A flush.                                                                *)

\* flushed applies flush_one to the tasks of the list one after the other.
LEMMA FlushSteps ==
  ASSUME NEW ks, NEW T, NEW s \in Seq(T)
  PROVE  \E f : /\ f[0] = ks
                /\ \A i \in 1 .. Len(s) : f[i] = flush_one(f[i - 1], s[i])
                /\ flushed(ks, s) = f[Len(s)]
<1> DEFINE Eq(g, m) == g = [i \in 0 .. m |-> IF i = 0 THEN ks
                                              ELSE flush_one(g[i - 1], s[i])]
           S == {m \in Nat : \E g : Eq(g, m)}
<1>1. 0 \in S
  <2>1. Eq([i \in 0 .. 0 |-> ks], 0)
    OBVIOUS
  <2> QED
    BY <2>1
<1>2. ASSUME NEW m \in Nat, m \in S PROVE m + 1 \in S
  <2>1. PICK g : Eq(g, m)
    BY <1>2
  <2> DEFINE h == [i \in 0 .. m + 1 |-> IF i <= m THEN g[i] ELSE flush_one(g[m], s[m + 1])]
  <2>2. ASSUME NEW i \in 0 .. m + 1
        PROVE  h[i] = IF i = 0 THEN ks ELSE flush_one(h[i - 1], s[i])
    BY <2>1
  <2>3. Eq(h, m + 1)
    BY <2>2
  <2> HIDE DEF h, Eq
  <2> QED
    BY <2>3
<1>3. Len(s) \in S
  <2> HIDE DEF S
  <2> QED
    BY <1>1, <1>2, Induction
<1> DEFINE f == CHOOSE g : Eq(g, Len(s))
<1>4. Eq(f, Len(s))
  BY <1>3
<1>5. flushed(ks, s) = f[Len(s)]
  BY DEF flushed
<1>6. f[0] = ks /\ \A i \in 1 .. Len(s) : f[i] = flush_one(f[i - 1], s[i])
  <2> HIDE DEF f
  <2> QED
    BY <1>4
<1> QED
  BY <1>5, <1>6

\* Exactly the tasks of the list become ready, with no ticks left.
LEMMA FlushKeeps ==
  ASSUME NEW ks, ReadyInv(ks, {}), TicksLeft(ks), NEW st \in Waiting, NEW o,
         NEW s, HoldsBut(ks, s, st, o, {}), NEW n, n = flushed(ks, s)
  PROVE  /\ ReadyInv(n, {}) /\ TicksLeft(n)
         /\ Woke(ks, n, {st}) /\ Expired(ks, n) /\ MovesOn(ks, n, st, o)
         /\ HoldsBut(n, << >>, st, o, {})
         /\ \A t \in Task : IF ks.tcb[t].status = st /\ ks.tcb[t].pend_obj = o
                            THEN n.tcb[t].status = "READY"
                            ELSE n.tcb[t] = ks.tcb[t]
<1>0. s \in Seq(Task) /\ Len(s) \in Nat /\ \A i \in 1 .. Len(s) : s[i] \in Task
  BY DEF HoldsBut, OnlyTask
<1>1. PICK f : /\ f[0] = ks
               /\ \A i \in 1 .. Len(s) : f[i] = flush_one(f[i - 1], s[i])
               /\ flushed(ks, s) = f[Len(s)]
  BY <1>0, FlushSteps
<1> DEFINE Seen(i, t) == \E j \in 1 .. i : s[j] = t
           P(i) == /\ ReadyInv(f[i], {}) /\ TicksLeft(f[i])
                   /\ \A t \in Task :
                        IF Seen(i, t)
                        THEN /\ f[i].tcb[t].status = "READY"
                             /\ f[i].tcb[t].delay_ticks = 0
                             /\ SamePriority(ks, f[i], t)
                        ELSE f[i].tcb[t] = ks.tcb[t]
           S == {i \in Nat : i <= Len(s) => P(i)}
<1>2. 0 \in S
  BY <1>1
<1>3. ASSUME NEW i \in Nat, i \in S PROVE i + 1 \in S
  <2> SUFFICES ASSUME i + 1 <= Len(s) PROVE P(i + 1)
    OBVIOUS
  <2> DEFINE a == f[i]
             t == s[i + 1]
             b == SetTicks(a, t, 0)
             c == f[i + 1]
  <2>1. P(i)
    BY <1>0, <1>3
  <2>2. i + 1 \in 1 .. Len(s) /\ (i + 1) - 1 = i /\ t \in Task
    BY <1>0
  <2>3. c = readyQ_put(b, t)
    BY <1>1, <2>2 DEF flush_one
  <2>4. ~ Seen(i, t)
    BY <1>0, <2>2 DEF HoldsBut, NoDuplicates
  <2>5. a.tcb[t] = ks.tcb[t] /\ ks.tcb[t].status = st
    BY <2>1, <2>2, <2>4 DEF HoldsBut, dlist_check
  <2>6. a \in KernelState
    BY <2>1 DEF ReadyInv
  <2>7. \A u \in Task : Seen(i + 1, u) <=> (u = t \/ Seen(i, u))
    BY <2>2
  <2> HIDE DEF a, b, c, t, Seen, P
  <2>8. /\ b \in KernelState /\ b.readyQ = a.readyQ /\ OnlyTask(a, b, t)
        /\ SamePriority(a, b, t) /\ b.tcb[t].delay_ticks = 0
    BY <2>2, <2>6, SetTicksIs DEF b
  <2>9. a.tcb[t].status # "READY"
    BY <2>5 DEF Waiting
  <2>10. ReadyInv(a, {}) /\ TicksLeft(a)
    BY <2>1 DEF a, P
  <2>11. /\ ReadyInv(c, {}) /\ OnlyTask(a, c, t) /\ SamePriority(a, c, t)
         /\ c.tcb[t].status = "READY" /\ c.tcb[t].delay_ticks = 0
    <3>1. t \notin {}
      OBVIOUS
    <3> QED
      BY <3>1, <2>2, <2>3, <2>8, <2>9, <2>10, WakeKeeps
  <2>12. SamePriority(ks, c, t)
    BY <2>2, <2>5, <2>11 DEF SamePriority
  <2>13. ASSUME NEW u \in Task
         PROVE  IF Seen(i + 1, u)
                THEN /\ c.tcb[u].status = "READY" /\ c.tcb[u].delay_ticks = 0
                     /\ SamePriority(ks, c, u)
                ELSE c.tcb[u] = ks.tcb[u]
    <3>1. CASE u = t
      BY <3>1, <2>7, <2>11, <2>12
    <3>2. CASE u # t
      <4>1. c.tcb[u] = a.tcb[u] /\ (Seen(i + 1, u) <=> Seen(i, u))
        BY <3>2, <2>7, <2>11 DEF OnlyTask
      <4> QED
        BY <4>1, <2>1 DEF P, a, SamePriority
    <3> QED
      BY <3>1, <3>2
  <2>14. TicksLeft(c)
    BY <2>10, <2>11 DEF TicksLeft, OnlyTask
  <2> QED
    BY <2>11, <2>13, <2>14 DEF P, c
<1>4. P(Len(s))
  <2> HIDE DEF S
  <2>1. Len(s) \in S
    BY <1>0, <1>2, <1>3, Induction
  <2> QED
    BY <2>1 DEF S
<1>5. n = f[Len(s)]
  BY <1>1
<1>6. \A t \in Task : Seen(Len(s), t) <=> (ks.tcb[t].status = st /\ ks.tcb[t].pend_obj = o)
  BY DEF HoldsBut, dlist_check
<1>7. Woke(ks, n, {st}) /\ Expired(ks, n)
  BY <1>4, <1>5, <1>6 DEF Woke, Expired, Waiting, SamePriority
<1>8. MovesOn(ks, n, st, o)
  BY <1>4, <1>5, <1>6 DEF MovesOn, ReadyOrAt
<1>9. HoldsBut(n, << >>, st, o, {})
  BY <1>4, <1>5, <1>6 DEF HoldsBut, NoDuplicates, dlist_check, Waiting
<1> QED
  BY <1>4, <1>5, <1>6, <1>7, <1>8, <1>9

-----------------------------------------------------------------------------
(* A give: the first task of a list is woken.                              *)

\* With tasks of Off off all queues (one that task_delete is about to free).
LEMMA WakeFirstKeeps ==
  ASSUME NEW ks, NEW Off, ReadyInv(ks, Off), TicksLeft(ks), NEW st \in Waiting, NEW o,
         NEW s, HoldsBut(ks, s, st, o, Off), NEW n, n = wake_first(ks, s)
  PROVE  /\ ReadyInv(n, Off) /\ TicksLeft(n) /\ Woke(ks, n, {st})
         /\ HoldsBut(n, rest(s), st, o, Off) /\ MovesOn(ks, n, st, o)
         /\ TicksKept(ks, n, Off)
<1>1. CASE DL_EMPTY(s)
  <2>1. n = ks /\ rest(s) = s
    BY <1>1 DEF wake_first, rest
  <2> QED
    BY <2>1 DEF Woke, MovesOn, SamePriority, TicksKept
<1>2. CASE ~ DL_EMPTY(s)
  <2> DEFINE t == DL_FIRST(s)
             r == dlist_rest(s)
  <2>1. n = readyQ_put(ks, t) /\ rest(s) = r
    BY <1>2 DEF wake_first, rest
  <2>2. s \in Seq(Task) /\ NoDuplicates(s)
    BY DEF HoldsBut
  <2>3. /\ t \in Task /\ dlist_check(s, t)
        /\ r \in Seq(Task) /\ NoDuplicates(r) /\ ~ dlist_check(r, t)
        /\ \A x : x # t => (dlist_check(r, x) <=> dlist_check(s, x))
    BY <1>2, <2>2, RestMembers
  <2>4. t \notin Off /\ ks.tcb[t].status = st /\ ks.tcb[t].pend_obj = o /\ st # "READY"
    BY <2>3 DEF HoldsBut, Waiting
  <2> HIDE DEF t, r
  <2>5. OnlyTask(ks, ks, t) /\ SamePriority(ks, ks, t) /\ ks \in KernelState
    BY DEF OnlyTask, SamePriority, ReadyInv
  <2>6. /\ ReadyInv(n, Off) /\ OnlyTask(ks, n, t) /\ SamePriority(ks, n, t)
        /\ n.tcb[t].status = "READY" /\ n.tcb[t].delay_ticks = ks.tcb[t].delay_ticks
    BY <2>1, <2>3, <2>4, <2>5, WakeKeeps
  <2>7. Woke(ks, n, {st})
    BY <2>3, <2>4, <2>6, WokeOne
  <2>8. TicksLeft(n)
    BY <2>6 DEF TicksLeft, OnlyTask
  <2>9. HoldsBut(n, r, st, o, Off)
    BY <2>3, <2>4, <2>6, HoldsLess
  <2>10. MovesOn(ks, n, st, o)
    BY <2>3, <2>4, <2>6, OneMoves DEF ReadyOrAt
  <2> QED
    BY <2>1, <2>4, <2>6, <2>7, <2>8, <2>9, <2>10 DEF OnlyTask, TicksKept
<1> QED
  BY <1>1, <1>2

-----------------------------------------------------------------------------
(* A tick.                                                                 *)

\* The walk over one list: the tasks up to the first one that is due are counted
\* down, that one becomes ready and leaves the list.
LEMMA EachTickKeeps ==
  ASSUME NEW ks, ReadyInv(ks, {}), TicksLeft(ks), NEW st \in Waiting, NEW o,
         NEW s, HoldsBut(ks, s, st, o, {}), NEW left,
         \A t \in Task : ks.tcb[t].delay_ticks > 0 => left[t] \in Nat,
         NEW e, e = each_tick(ks, s, left)
  PROVE  /\ ReadyInv(e.k, {}) /\ TicksLeft(e.k)
         /\ Woke(ks, e.k, {st}) /\ Expired(ks, e.k) /\ MovesOn(ks, e.k, st, o)
         /\ HoldsBut(e.k, e.list, st, o, {}) /\ InOrder(s, e.list)
<1> DEFINE due  == {i \in 1 .. Len(s) : left[s[i]] = 0}
           last == IF due = {} THEN Len(s) ELSE Min(due)
           seen == {s[i] : i \in 1 .. last}
           blocks == [t \in Task |-> IF t \in seen
                                     THEN [ks.tcb[t] EXCEPT !.delay_ticks = left[t]]
                                     ELSE ks.tcb[t]]
           k1   == [ks EXCEPT !.tcb = blocks]
<1>1. e = IF due = {} THEN [k |-> k1, list |-> s]
          ELSE [k |-> readyQ_put(k1, s[last]), list |-> dlist_remove(s, s[last])]
  BY DEF each_tick
<1>2. /\ s \in Seq(Task) /\ NoDuplicates(s) /\ Len(s) \in Nat
      /\ \A i \in 1 .. Len(s) : s[i] \in Task
      /\ \A i \in 1 .. Len(s) : /\ ks.tcb[s[i]].status = st
                                /\ ks.tcb[s[i]].pend_obj = o
  BY DEF HoldsBut, dlist_check
<1>3. /\ ks \in KernelState /\ ks.tcb \in [Task -> OS_TCB] /\ ks.readyQ \in READY_QUEUE
      /\ ks = [readyQ |-> ks.readyQ, tcb |-> ks.tcb]
  BY DEF ReadyInv, KernelState
<1>4. \A i \in 1 .. Len(s) : left[s[i]] \in Nat
  BY <1>2 DEF TicksLeft, Waiting
<1>5. /\ last \in 0 .. Len(s)
      /\ due # {} => last \in due /\ last \in 1 .. Len(s) /\ left[s[last]] = 0
      /\ \A i \in 1 .. last : i # last \/ due = {} => left[s[i]] # 0
  <2>1. CASE due = {}
    BY <2>1, <1>2
  <2>2. CASE due # {}
    <3>1. due \in SUBSET Nat
      OBVIOUS
    <3>2. last \in due /\ \A i \in due : last <= i
      BY <2>2, <3>1, MinIsLeast
    <3> HIDE DEF last
    <3> QED
      BY <2>2, <3>2, <1>2
  <2> QED
    BY <2>1, <2>2
<1> HIDE DEF due, last
<1>6. /\ seen \in SUBSET Task
      /\ \A t \in seen : /\ left[t] \in Nat
                         /\ ks.tcb[t].status = st /\ ks.tcb[t].pend_obj = o
  BY <1>2, <1>4, <1>5
<1>7. \A t \in seen : left[t] # 0 \/ (due # {} /\ t = s[last])
  BY <1>5
<1>8. due # {} => s[last] \in seen
  BY <1>5
<1> HIDE DEF seen
<1>9. ASSUME NEW t \in Task
      PROVE  /\ blocks[t] \in OS_TCB
             /\ blocks[t].task_priority = ks.tcb[t].task_priority
             /\ blocks[t].origin_pri = ks.tcb[t].origin_pri
             /\ blocks[t].status = ks.tcb[t].status
             /\ blocks[t].pend_obj = ks.tcb[t].pend_obj
             /\ t \in seen => blocks[t].delay_ticks = left[t]
             /\ t \notin seen => blocks[t] = ks.tcb[t]
  <2>1. ks.tcb[t] \in OS_TCB
    BY <1>3
  <2>2. CASE t \in seen
    <3>1. left[t] \in Nat /\ blocks[t] = [ks.tcb[t] EXCEPT !.delay_ticks = left[t]]
      BY <2>2, <1>6
    <3> HIDE DEF blocks
    <3> QED
      BY <2>1, <2>2, <3>1 DEF OS_TCB
  <2>3. CASE t \notin seen
    BY <2>1, <2>3
  <2> QED
    BY <2>2, <2>3
<1>10. blocks \in [Task -> OS_TCB]
  BY <1>9
<1>11. k1 \in KernelState /\ k1.readyQ = ks.readyQ /\ k1.tcb = blocks
  <2> HIDE DEF blocks
  <2> QED
    BY <1>3, <1>10 DEF KernelState
<1> HIDE DEF blocks, k1
<1>12. ReadyInv(k1, {})
  <2>1. ReadyInv(ks, {} \cup seen)
    BY <1>6, NotReadyIsOff DEF Waiting
  <2>2. \A u \in Task \ ({} \cup seen) : k1.tcb[u] = ks.tcb[u]
    BY <1>9, <1>11
  <2>3. \A u \in Task \cap ({} \cup seen) : k1.tcb[u].status # "READY"
    BY <1>6, <1>9, <1>11 DEF Waiting
  <2> QED
    BY <2>1, <2>2, <2>3, <1>11, OffTheQueue
<1>13. CASE due = {}
  <2>1. e.k = k1 /\ e.list = s
    BY <1>1, <1>13
  <2>2. TicksLeft(k1)
    BY <1>6, <1>7, <1>9, <1>11, <1>13 DEF TicksLeft
  <2>3. Woke(ks, k1, {st})
    BY <1>9, <1>11 DEF Woke, SamePriority
  <2>4. Expired(ks, k1)
    BY <1>6, <1>9, <1>11 DEF Expired, Waiting
  <2>5. MovesOn(ks, k1, st, o)
    BY <1>9, <1>11 DEF MovesOn
  <2>6. HoldsBut(k1, s, st, o, {})
    BY <1>9, <1>11 DEF HoldsBut
  <2> QED
    BY <2>1, <2>2, <2>3, <2>4, <2>5, <2>6, <1>12, InOrderSame
<1>14. CASE due # {}
  <2> DEFINE t == s[last]
             n == readyQ_put(k1, t)
             r == dlist_remove(s, t)
  <2>1. e.k = n /\ e.list = r
    BY <1>1, <1>14
  <2>2. t \in Task /\ t \in seen /\ left[t] = 0 /\ dlist_check(s, t)
    BY <1>2, <1>5, <1>8, <1>14 DEF dlist_check
  <2>3. /\ r \in Seq(Task) /\ NoDuplicates(r) /\ ~ dlist_check(r, t)
        /\ \A x : x # t => (dlist_check(r, x) <=> dlist_check(s, x))
    BY <1>2, <2>2, RemovedMembers
  <2>15. InOrder(s, r)
    BY <1>2, <2>2, InOrderRemove
  <2>4. k1.tcb[t].status # "READY" /\ k1.tcb[t].delay_ticks = 0
    BY <2>2, <1>6, <1>9, <1>11 DEF Waiting
  <2>5. \A u \in Task : u # t => (u \in seen => left[u] > 0)
    BY <1>6, <1>7
  <2> HIDE DEF t, r
  <2>6. OnlyTask(k1, k1, t) /\ SamePriority(k1, k1, t)
    BY DEF OnlyTask, SamePriority
  <2>7. /\ ReadyInv(n, {}) /\ OnlyTask(k1, n, t) /\ SamePriority(k1, n, t)
        /\ n.tcb[t].status = "READY" /\ n.tcb[t].delay_ticks = 0
    <3>1. t \notin {}
      OBVIOUS
    <3> QED
      BY <3>1, <1>11, <1>12, <2>2, <2>4, <2>6, WakeKeeps
  <2> HIDE DEF n
  <2>8. /\ ks.tcb[t].status = st /\ ks.tcb[t].pend_obj = o /\ st # "READY"
    BY <2>2, <1>6 DEF Waiting
  <2>9. Woke(ks, n, {st})
    BY <1>9, <1>11, <2>2, <2>7, <2>8 DEF Woke, SamePriority, OnlyTask
  <2>10. TicksLeft(n)
    <3> SUFFICES ASSUME NEW u \in Task, n.tcb[u].status \notin {"READY", "FREE"}
                 PROVE  n.tcb[u].delay_ticks > 0
      BY DEF TicksLeft
    <3>1. u # t /\ n.tcb[u] = k1.tcb[u]
      BY <2>7 DEF OnlyTask
    <3>2. CASE u \in seen
      BY <3>1, <3>2, <2>5, <1>9, <1>11
    <3>3. CASE u \notin seen
      BY <3>1, <3>3, <1>9, <1>11 DEF TicksLeft
    <3> QED
      BY <3>2, <3>3
  <2>11. Expired(ks, n)
    BY <1>6, <1>9, <1>11, <2>2, <2>7, <2>8 DEF Expired, OnlyTask
  <2>12. MovesOn(ks, n, st, o)
    BY <1>9, <1>11, <2>7, <2>8 DEF MovesOn, ReadyOrAt, OnlyTask
  <2>13. HoldsBut(k1, s, st, o, {})
    BY <1>9, <1>11 DEF HoldsBut
  <2>14. HoldsBut(n, r, st, o, {})
    BY <2>2, <2>3, <2>7, <2>8, <2>13, HoldsLess
  <2> QED
    BY <2>1, <2>7, <2>9, <2>10, <2>11, <2>12, <2>14, <2>15
<1> QED
  BY <1>13, <1>14

\* What a tick leaves of the ticks of a waiting task is a natural number.
LEMMA TicksAreNat ==
  ASSUME NEW ks \in KernelState, NEW t \in Task, ks.tcb[t].delay_ticks > 0
  PROVE  waits_left(ks)[t] \in Nat /\ delays_left(ks)[t] \in Nat
<1>1. ks.tcb[t].delay_ticks \in Nat
  BY DEF KernelState, OS_TCB
<1> QED
  BY <1>1 DEF waits_left, delays_left, wait_left, delay_left

-----------------------------------------------------------------------------
(* The running task.                                                       *)

\* The highest task is one of the ready ones, when there are any.
LEMMA HighestIsReady ==
  ASSUME NEW ks, ReadyInv(ks, {}), NEW t \in Task, ks.tcb[t].status = "READY"
  PROVE  ks.readyQ.highest_tcb \in Task
         /\ ks.tcb[ks.readyQ.highest_tcb].status = "READY"
<1> DEFINE q == ks.readyQ
           p == ks.tcb[t].task_priority
           h == ks.tcb[q.highest_tcb].task_priority
<1>1. /\ ks.tcb \in [Task -> OS_TCB] /\ q \in READY_QUEUE
      /\ LinkedBut(ks, {}) /\ Highest(ks)
  BY DEF ReadyInv, KernelState
<1>2. p \in Priority
  BY <1>1 DEF OS_TCB
<1>3. q.listArray[p] \in Seq(Task) /\ dlist_check(q.listArray[p], t)
  BY <1>1, <1>2 DEF LinkedBut, READY_QUEUE
<1>4. Len(q.listArray[p]) # 0
  BY <1>3 DEF dlist_check
<1>5. q.highest_tcb # NULL
  BY <1>1, <1>2, <1>4 DEF Highest
<1>6. q.highest_tcb \in Task
  BY <1>1, <1>5 DEF READY_QUEUE
<1>7. h \in Priority
  BY <1>1, <1>6 DEF OS_TCB
<1>8. Len(q.listArray[h]) > 0 /\ q.listArray[h][1] = q.highest_tcb
  BY <1>1, <1>5 DEF Highest
<1> HIDE DEF h
<1>9. q.listArray[h] \in Seq(Task)
  BY <1>1, <1>7 DEF READY_QUEUE
<1>10. dlist_check(q.listArray[h], q.highest_tcb)
  BY <1>8, <1>9 DEF dlist_check
<1> QED
  BY <1>1, <1>6, <1>7, <1>10 DEF LinkedBut

\* A ready task's ticks are reset.
LEMMA ResetTicksKeeps ==
  ASSUME NEW ks, ReadyInv(ks, {}), TicksLeft(ks),
         NEW t \in Task, ks.tcb[t].status = "READY", NEW n, n = SetTicks(ks, t, 0)
  PROVE  /\ ReadyInv(n, {}) /\ TicksLeft(n) /\ OnlyTask(ks, n, t) /\ SamePriority(ks, n, t)
         /\ n.tcb[t].status = "READY" /\ n.tcb[t].delay_ticks = 0
         /\ \A st, o : MovesOn(ks, n, st, o)
<1>1. ks \in KernelState
  BY DEF ReadyInv
<1>2. /\ n \in KernelState /\ n.readyQ = ks.readyQ
      /\ OnlyTask(ks, n, t) /\ SamePriority(ks, n, t)
      /\ n.tcb[t].status = "READY" /\ n.tcb[t].delay_ticks = 0
      /\ n.tcb[t].pend_obj = ks.tcb[t].pend_obj
  BY <1>1, SetTicksIs
<1>3. LinkedBut(n, {})
  BY <1>2 DEF ReadyInv, LinkedBut, OnlyTask, SamePriority
<1>4. Highest(n)
  <2>1. ks.readyQ.highest_tcb \in Task
    BY HighestIsReady
  <2>2. n.tcb[ks.readyQ.highest_tcb].task_priority
          = ks.tcb[ks.readyQ.highest_tcb].task_priority
    BY <1>2, <2>1 DEF OnlyTask, SamePriority
  <2> QED
    BY <1>2, <2>2 DEF ReadyInv, Highest
<1>5. ReadyInv(n, {})
  BY <1>2, <1>3, <1>4 DEF ReadyInv
<1>6. TicksLeft(n)
  BY <1>2 DEF TicksLeft, OnlyTask
<1>7. ASSUME NEW st, NEW o PROVE MovesOn(ks, n, st, o)
  BY <1>2 DEF MovesOn, OnlyTask
<1> QED
  BY <1>2, <1>5, <1>6, <1>7

\* A ready task goes to the end of the ready list of priority p.
LEMMA RequeueKeeps ==
  ASSUME NEW ks, ReadyInv(ks, {}), TicksLeft(ks),
         NEW t \in Task, ks.tcb[t].status = "READY", NEW p \in Priority,
         NEW n, n = readyQ_put([readyQ_remove(ks, t) EXCEPT !.tcb[t].task_priority = p], t)
  PROVE  /\ ReadyInv(n, {}) /\ TicksLeft(n) /\ OnlyTask(ks, n, t)
         /\ n.tcb[t].status = "READY" /\ n.tcb[t].task_priority = p
         /\ n.tcb[t].origin_pri = ks.tcb[t].origin_pri
         /\ n.tcb[t].delay_ticks = ks.tcb[t].delay_ticks
         /\ \A st, o : MovesOn(ks, n, st, o)
<1> DEFINE a == readyQ_remove(ks, t)
           b == [a EXCEPT !.tcb[t].task_priority = p]
           r == [ks.tcb[t] EXCEPT !.task_priority = p]
<1>1. ReadyInv(a, {t}) /\ a.tcb = ks.tcb
  BY RemoveKeeps
<1>2. /\ a \in KernelState /\ a.tcb \in [Task -> OS_TCB] /\ a.readyQ \in READY_QUEUE
      /\ a = [readyQ |-> a.readyQ, tcb |-> a.tcb] /\ ks.tcb[t] \in OS_TCB
  BY <1>1 DEF ReadyInv, KernelState
<1> HIDE DEF a
<1>3. /\ r \in OS_TCB /\ r.task_priority = p
      /\ r.status = "READY" /\ r.origin_pri = ks.tcb[t].origin_pri
      /\ r.delay_ticks = ks.tcb[t].delay_ticks
  BY <1>2 DEF OS_TCB
<1>4. b.readyQ = a.readyQ /\ b.tcb = [ks.tcb EXCEPT ![t] = r]
      /\ b = [readyQ |-> b.readyQ, tcb |-> b.tcb]
  BY <1>1, <1>2
<1>5. n = readyQ_put(b, t)
  BY DEF a
<1> HIDE DEF b, r
<1>6. /\ b.tcb[t] = r /\ b.tcb \in [Task -> OS_TCB]
      /\ \A u \in Task \ {t} : b.tcb[u] = ks.tcb[u]
  BY <1>1, <1>2, <1>3, <1>4
<1>7. b \in KernelState
  BY <1>2, <1>4, <1>6 DEF KernelState
<1>8. ReadyInv(b, {t})
  BY <1>1, <1>4, <1>6, <1>7, OffTheQueue
<1>9. /\ ReadyInv(n, {})
      /\ n.tcb = [b.tcb EXCEPT ![t].status = "READY", ![t].pend_obj = NULL]
  BY <1>5, <1>8, PutKeeps
<1>10. OnlyTask(ks, n, t)
  BY <1>6, <1>9 DEF OnlyTask
<1>11. n.tcb[t] = [r EXCEPT !.status = "READY", !.pend_obj = NULL]
  BY <1>6, <1>9
<1>12. /\ n.tcb[t].status = "READY" /\ n.tcb[t].task_priority = p
       /\ n.tcb[t].origin_pri = ks.tcb[t].origin_pri
       /\ n.tcb[t].delay_ticks = ks.tcb[t].delay_ticks
  BY <1>3, <1>11 DEF OS_TCB
<1>13. TicksLeft(n)
  BY <1>10, <1>12 DEF TicksLeft, OnlyTask
<1>14. ASSUME NEW st, NEW o PROVE MovesOn(ks, n, st, o)
  BY <1>10, <1>12, OneMoves DEF ReadyOrAt
<1> QED
  BY <1>9, <1>10, <1>12, <1>13, <1>14

\* A ready task goes to the end of its ready list.
LEMMA RotateKeeps ==
  ASSUME NEW ks, ReadyInv(ks, {}), TicksLeft(ks),
         NEW t \in Task, ks.tcb[t].status = "READY",
         NEW n, n = readyQ_put(readyQ_remove(ks, t), t)
  PROVE  /\ ReadyInv(n, {}) /\ TicksLeft(n) /\ OnlyTask(ks, n, t) /\ SamePriority(ks, n, t)
         /\ n.tcb[t].status = "READY"
         /\ n.tcb[t].delay_ticks = ks.tcb[t].delay_ticks
         /\ \A st, o : MovesOn(ks, n, st, o)
<1>1. ReadyInv(readyQ_remove(ks, t), {t}) /\ readyQ_remove(ks, t).tcb = ks.tcb
  BY RemoveKeeps
<1>2. /\ ReadyInv(n, {})
      /\ n.tcb = [ks.tcb EXCEPT ![t].status = "READY", ![t].pend_obj = NULL]
  BY <1>1, PutKeeps
<1>3. ks.tcb \in [Task -> OS_TCB] /\ ks.tcb[t] \in OS_TCB
  BY DEF ReadyInv, KernelState
<1>4. /\ OnlyTask(ks, n, t)
      /\ n.tcb[t] = [ks.tcb[t] EXCEPT !.status = "READY", !.pend_obj = NULL]
  BY <1>2, <1>3 DEF OnlyTask
<1>5. /\ n.tcb[t].status = "READY" /\ SamePriority(ks, n, t)
      /\ n.tcb[t].delay_ticks = ks.tcb[t].delay_ticks
  BY <1>3, <1>4 DEF OS_TCB, SamePriority
<1>6. TicksLeft(n)
  BY <1>4, <1>5 DEF TicksLeft, OnlyTask
<1>7. ASSUME NEW st, NEW o PROVE MovesOn(ks, n, st, o)
  BY <1>4, <1>5, OneMoves DEF ReadyOrAt
<1> QED
  BY <1>2, <1>4, <1>5, <1>6, <1>7

-----------------------------------------------------------------------------
(* The inductive invariant.                                                *)

\* The ready queue is right, waiting tasks have ticks, the idle task is ready.
KInv(ks) == ReadyInv(ks, {}) /\ TicksLeft(ks) /\ ks.tcb[IDLE].status = "READY"

\* The running task is ready.
CurInv(ks, cur) == cur \in Task /\ ks.tcb[cur].status = "READY"

DInv(ks, dq) ==
  /\ HoldsBut(ks, dq, "DELAY", NULL, {})
  /\ \A t \in Task : ks.tcb[t].status = "DELAY" => ks.tcb[t].pend_obj = NULL

\* The list of the objects of a kind that are in use.
ListInv(l, Os) == l \in Seq(Os) /\ NoDuplicates(l)

\* The tasks that pend on a semaphore are in its list.  One that is initialised
\* while the system runs has no waiters before that.
BInv(ks, f, l) ==
  /\ f \in [SemBs -> SEM_BIN]
  /\ \A s \in SemBs : HoldsBut(ks, f[s].wait_list, "PEND_SEM_B", s, {})
  /\ \A t \in Task : ks.tcb[t].status = "PEND_SEM_B"
       => /\ ks.tcb[t].pend_obj \in SemBs
          /\ ks.tcb[t].pend_obj \in Later => dlist_check(l, ks.tcb[t].pend_obj)

CInv(ks, f, l) ==
  /\ f \in [SemCs -> SEM_CNT]
  /\ \A s \in SemCs : HoldsBut(ks, f[s].wait_list, "PEND_SEM_C", s, {})
  /\ \A t \in Task : ks.tcb[t].status = "PEND_SEM_C"
       => /\ ks.tcb[t].pend_obj \in SemCs
          /\ ks.tcb[t].pend_obj \in Later => dlist_check(l, ks.tcb[t].pend_obj)

\* A mutex that a task waits for is in use and has an owner.  The tasks of Off
\* are off the lists: task_delete is about to free their control blocks.
MInv(ks, f, l, Off) ==
  /\ f \in [SemMs -> SEM_MUX]
  /\ \A s \in SemMs : HoldsBut(ks, f[s].wait_list, "PEND_SEM_M", s, Off)
  /\ \A t \in Task : ks.tcb[t].status = "PEND_SEM_M" /\ t \notin Off
       => /\ ks.tcb[t].pend_obj \in SemMs
          /\ f[ks.tcb[t].pend_obj].owner_tcb # NULL
          /\ dlist_check(l, ks.tcb[t].pend_obj)

QInv(ks, f, l) ==
  /\ f \in [MsgQs -> MSG_QUE]
  /\ \A q \in MsgQs : /\ HoldsBut(ks, f[q].wait_send_list, "PEND_MSG_S", q, {})
                      /\ HoldsBut(ks, f[q].wait_recv_list, "PEND_MSG_R", q, {})
                      /\ f[q].cur_num = Len(f[q].msg_list)
  /\ \A t \in Task : ks.tcb[t].status \in {"PEND_MSG_S", "PEND_MSG_R"}
       => /\ ks.tcb[t].pend_obj \in MsgQs
          /\ dlist_check(l, ks.tcb[t].pend_obj)

\* No task is in the _up_owner_pri of a dead owner.
Contexts == [call : Calls \ {"up_owner_pri"}, obj : Obj \cup {NULL}, msg : Msg \cup {NULL}]

\* A suspended call is on an object of its kind; a semaphore is deleted by one
\* task at a time and is in use until that task unlinks it.

BCalls(c, l) ==
  \A t \in Task :
    /\ c[t].call = "semB_take"
         => c[t].obj \in SemBs /\ (c[t].obj \in Later => dlist_check(l, c[t].obj))
    /\ c[t].call = "semB_delete"
         => /\ c[t].obj \in SemBs \ Later /\ dlist_check(l, c[t].obj)
            /\ \A u \in Task : (c[u].call = "semB_delete" /\ c[u].obj = c[t].obj) => u = t

CCalls(c, l) ==
  \A t \in Task :
    /\ c[t].call = "semC_take"
         => c[t].obj \in SemCs /\ (c[t].obj \in Later => dlist_check(l, c[t].obj))
    /\ c[t].call = "semC_delete"
         => /\ c[t].obj \in SemCs \ Later /\ dlist_check(l, c[t].obj)
            /\ \A u \in Task : (c[u].call = "semC_delete" /\ c[u].obj = c[t].obj) => u = t

QCalls(c, l) ==
  \A t \in Task :
    /\ c[t].call = "msgQ_send"
         => c[t].obj \in MsgQs /\ c[t].msg \in Msg /\ dlist_check(l, c[t].obj)
    /\ c[t].call = "msgQ_receive"
         => c[t].obj \in MsgQs /\ dlist_check(l, c[t].obj)

\* The idle task is in no call.
CtxInv(c, lb, lc, lq) ==
  /\ c \in [Task -> Contexts] /\ c[IDLE] = Run
  /\ BCalls(c, lb) /\ CCalls(c, lc) /\ QCalls(c, lq)

ListsInv == /\ ListInv(semB_list, SemBs) /\ ListInv(semC_list, SemCs)
            /\ ListInv(semM_list, SemMs) /\ ListInv(msgQ_list, MsgQs)

\* The inductive invariant.
Inv ==
  /\ KInv(k) /\ CurInv(k, current) /\ DInv(k, delayQ)
  /\ BInv(k, semB, semB_list) /\ CInv(k, semC, semC_list)
  /\ MInv(k, semM, semM_list, {}) /\ QInv(k, msgQ, msgQ_list)
  /\ CtxInv(ctx, semB_list, semC_list, msgQ_list) /\ ListsInv

\* It says what the runs check.
LEMMA InvImplies ==
  Inv => TypeOK /\ TasksLinked /\ WaitersHaveTicks /\ CountMatchesMessages
<1> SUFFICES ASSUME Inv
             PROVE  TypeOK /\ TasksLinked /\ WaitersHaveTicks /\ CountMatchesMessages
  OBVIOUS
<1>1. TypeOK
  BY DEF Inv, KInv, ReadyInv, CurInv, DInv, HoldsBut, BInv, CInv, MInv, QInv, CtxInv,
         Contexts, ListsInv, ListInv, TypeOK
<1>2. TasksLinked
  BY DEF Inv, KInv, ReadyInv, CurInv, DInv, HoldsBut, BInv, CInv, MInv, QInv,
         TasksLinked, Holds, PendObjOfKind
<1>3. WaitersHaveTicks
  BY DEF Inv, KInv, TicksLeft, WaitersHaveTicks
<1>4. CountMatchesMessages
  BY DEF Inv, QInv, CountMatchesMessages
<1> QED
  BY <1>1, <1>2, <1>3, <1>4

LEMMA InvRuns == Inv => ~ Astray
  BY DEF Inv, CurInv, CtxInv, Contexts, Astray

-----------------------------------------------------------------------------
(* Frames: a step on one wait list leaves the other parts alone.           *)

LEMMA DFrame ==
  ASSUME NEW ks, NEW n, NEW dq, DInv(ks, dq), Still(ks, n, "DELAY")
  PROVE  DInv(n, dq)
  BY StillFrame DEF DInv, Still

LEMMA BFrame ==
  ASSUME NEW ks, NEW n, NEW f, NEW l, BInv(ks, f, l), Still(ks, n, "PEND_SEM_B")
  PROVE  BInv(n, f, l)
<1>1. ASSUME NEW s \in SemBs PROVE HoldsBut(n, f[s].wait_list, "PEND_SEM_B", s, {})
  BY StillFrame DEF BInv
<1> QED
  BY <1>1 DEF BInv, Still

LEMMA CFrame ==
  ASSUME NEW ks, NEW n, NEW f, NEW l, CInv(ks, f, l), Still(ks, n, "PEND_SEM_C")
  PROVE  CInv(n, f, l)
<1>1. ASSUME NEW s \in SemCs PROVE HoldsBut(n, f[s].wait_list, "PEND_SEM_C", s, {})
  BY StillFrame DEF CInv
<1> QED
  BY <1>1 DEF CInv, Still

LEMMA MFrame ==
  ASSUME NEW ks, NEW n, NEW f, NEW l, NEW Off, MInv(ks, f, l, Off),
         Still(ks, n, "PEND_SEM_M")
  PROVE  MInv(n, f, l, Off)
<1>1. ASSUME NEW s \in SemMs PROVE HoldsBut(n, f[s].wait_list, "PEND_SEM_M", s, Off)
  BY StillFrame DEF MInv
<1> QED
  BY <1>1 DEF MInv, Still

LEMMA QFrame ==
  ASSUME NEW ks, NEW n, NEW f, NEW l, QInv(ks, f, l),
         Still(ks, n, "PEND_MSG_S"), Still(ks, n, "PEND_MSG_R")
  PROVE  QInv(n, f, l)
<1>1. ASSUME NEW q \in MsgQs
      PROVE  /\ HoldsBut(n, f[q].wait_send_list, "PEND_MSG_S", q, {})
             /\ HoldsBut(n, f[q].wait_recv_list, "PEND_MSG_R", q, {})
  BY StillFrame DEF QInv
<1> QED
  BY <1>1 DEF QInv, Still

LEMMA OthersFrame ==
  ASSUME Inv, NEW n, NEW st, NEW o, MovesOn(k, n, st, o)
  PROVE  /\ st # "DELAY" => DInv(n, delayQ)
         /\ st # "PEND_SEM_B" => BInv(n, semB, semB_list)
         /\ st # "PEND_SEM_C" => CInv(n, semC, semC_list)
         /\ st # "PEND_SEM_M" => MInv(n, semM, semM_list, {})
         /\ st \notin {"PEND_MSG_S", "PEND_MSG_R"} => QInv(n, msgQ, msgQ_list)
<1>1. /\ DInv(k, delayQ) /\ BInv(k, semB, semB_list) /\ CInv(k, semC, semC_list)
      /\ MInv(k, semM, semM_list, {}) /\ QInv(k, msgQ, msgQ_list)
  BY DEF Inv
<1>2. \A s2 : s2 # st /\ s2 # "READY" => Still(k, n, s2)
  BY MovesStill
<1> QED
  BY <1>1, <1>2, DFrame, BFrame, CFrame, MFrame, QFrame

-----------------------------------------------------------------------------
(* A step on one wait list keeps the part that the list belongs to.        *)

LEMMA BStep ==
  ASSUME NEW ks, NEW n, NEW f, NEW g, NEW l, NEW s \in SemBs, BInv(ks, f, l),
         MovesOn(ks, n, "PEND_SEM_B", s), g \in [SemBs -> SEM_BIN],
         \A x \in SemBs : x # s => g[x].wait_list = f[x].wait_list,
         HoldsBut(n, g[s].wait_list, "PEND_SEM_B", s, {}),
         s \in Later => dlist_check(l, s)
  PROVE  BInv(n, g, l)
<1>1. ASSUME NEW x \in SemBs PROVE HoldsBut(n, g[x].wait_list, "PEND_SEM_B", x, {})
  <2>1. CASE x = s
    BY <2>1
  <2>2. CASE x # s
    <3>1. HoldsBut(ks, f[x].wait_list, "PEND_SEM_B", x, {})
      BY DEF BInv
    <3> QED
      BY <2>2, <3>1, MovesFrame
  <2> QED
    BY <2>1, <2>2
<1> QED
  BY <1>1 DEF BInv, MovesOn, ReadyOrAt

LEMMA CStep ==
  ASSUME NEW ks, NEW n, NEW f, NEW g, NEW l, NEW s \in SemCs, CInv(ks, f, l),
         MovesOn(ks, n, "PEND_SEM_C", s), g \in [SemCs -> SEM_CNT],
         \A x \in SemCs : x # s => g[x].wait_list = f[x].wait_list,
         HoldsBut(n, g[s].wait_list, "PEND_SEM_C", s, {}),
         s \in Later => dlist_check(l, s)
  PROVE  CInv(n, g, l)
<1>1. ASSUME NEW x \in SemCs PROVE HoldsBut(n, g[x].wait_list, "PEND_SEM_C", x, {})
  <2>1. CASE x = s
    BY <2>1
  <2>2. CASE x # s
    <3>1. HoldsBut(ks, f[x].wait_list, "PEND_SEM_C", x, {})
      BY DEF CInv
    <3> QED
      BY <2>2, <3>1, MovesFrame
  <2> QED
    BY <2>1, <2>2
<1> QED
  BY <1>1 DEF CInv, MovesOn, ReadyOrAt

\* The mutex s has an owner after the step, or nobody waits for it.
LEMMA MStep ==
  ASSUME NEW ks, NEW n, NEW f, NEW g, NEW l, NEW Off, NEW s \in SemMs,
         MInv(ks, f, l, Off),
         MovesOn(ks, n, "PEND_SEM_M", s), g \in [SemMs -> SEM_MUX],
         \A x \in SemMs : x # s => /\ g[x].wait_list = f[x].wait_list
                                   /\ g[x].owner_tcb = f[x].owner_tcb,
         HoldsBut(n, g[s].wait_list, "PEND_SEM_M", s, Off),
         g[s].owner_tcb # NULL \/ Len(g[s].wait_list) = 0,
         dlist_check(l, s)
  PROVE  MInv(n, g, l, Off)
<1>1. ASSUME NEW x \in SemMs PROVE HoldsBut(n, g[x].wait_list, "PEND_SEM_M", x, Off)
  <2>1. CASE x = s
    BY <2>1
  <2>2. CASE x # s
    <3>1. HoldsBut(ks, f[x].wait_list, "PEND_SEM_M", x, Off)
      BY DEF MInv
    <3> QED
      BY <2>2, <3>1, MovesFrame
  <2> QED
    BY <2>1, <2>2
<1>2. ASSUME NEW t \in Task, n.tcb[t].status = "PEND_SEM_M", t \notin Off
      PROVE  /\ n.tcb[t].pend_obj \in SemMs
             /\ g[n.tcb[t].pend_obj].owner_tcb # NULL
             /\ dlist_check(l, n.tcb[t].pend_obj)
  <2>1. CASE n.tcb[t].pend_obj = s
    <3>1. dlist_check(g[s].wait_list, t)
      BY <1>2, <2>1 DEF HoldsBut
    <3>2. Len(g[s].wait_list) # 0
      BY <3>1 DEF dlist_check
    <3> QED
      BY <2>1, <3>2
  <2>2. CASE n.tcb[t].pend_obj # s
    <3>1. ks.tcb[t].status = "PEND_SEM_M" /\ n.tcb[t].pend_obj = ks.tcb[t].pend_obj
      BY <1>2, <2>2 DEF MovesOn, ReadyOrAt
    <3> QED
      BY <1>2, <2>2, <3>1 DEF MInv
  <2> QED
    BY <2>1, <2>2
<1> QED
  BY <1>1, <1>2 DEF MInv

LEMMA QStep ==
  ASSUME NEW ks, NEW n, NEW f, NEW g, NEW l, NEW q \in MsgQs, QInv(ks, f, l),
         NEW st \in {"PEND_MSG_S", "PEND_MSG_R"},
         MovesOn(ks, n, st, q), g \in [MsgQs -> MSG_QUE],
         \A x \in MsgQs : x # q => g[x] = f[x],
         HoldsBut(n, g[q].wait_send_list, "PEND_MSG_S", q, {}),
         HoldsBut(n, g[q].wait_recv_list, "PEND_MSG_R", q, {}),
         g[q].cur_num = Len(g[q].msg_list),
         dlist_check(l, q)
  PROVE  QInv(n, g, l)
<1>1. ASSUME NEW x \in MsgQs
      PROVE  /\ HoldsBut(n, g[x].wait_send_list, "PEND_MSG_S", x, {})
             /\ HoldsBut(n, g[x].wait_recv_list, "PEND_MSG_R", x, {})
             /\ g[x].cur_num = Len(g[x].msg_list)
  <2>1. CASE x = q
    BY <2>1
  <2>2. CASE x # q
    <3>1. /\ HoldsBut(ks, f[x].wait_send_list, "PEND_MSG_S", x, {})
          /\ HoldsBut(ks, f[x].wait_recv_list, "PEND_MSG_R", x, {})
          /\ f[x].cur_num = Len(f[x].msg_list) /\ g[x] = f[x]
      BY <2>2 DEF QInv
    <3>2. HoldsBut(n, f[x].wait_send_list, "PEND_MSG_S", x, {})
      BY <2>2, <3>1, MovesFrame
    <3>3. HoldsBut(n, f[x].wait_recv_list, "PEND_MSG_R", x, {})
      BY <2>2, <3>1, MovesFrame
    <3> QED
      BY <3>1, <3>2, <3>3
  <2> QED
    BY <2>1, <2>2
<1> QED
  BY <1>1 DEF QInv, MovesOn, ReadyOrAt

-----------------------------------------------------------------------------
(* The tick over the wait lists of the semaphores of one kind.             *)

\* The status, the objects and the type of one kind of semaphores.
SemKind(st, Os, Rec) ==
  \/ st = "PEND_SEM_B" /\ Os = SemBs /\ Rec = SEM_BIN
  \/ st = "PEND_SEM_C" /\ Os = SemCs /\ Rec = SEM_CNT
  \/ st = "PEND_SEM_M" /\ Os = SemMs /\ Rec = SEM_MUX

SemsHold(ks, f, st, Os, Rec) ==
  f \in [Os -> Rec] /\ \A x \in Os : HoldsBut(ks, f[x].wait_list, st, x, {})

\* Mutexes f and g differ in their wait lists only.
SameOwners(f, g) ==
  \A x \in SemMs : /\ g[x].owner_tcb = f[x].owner_tcb
                   /\ g[x].take_count = f[x].take_count
                   /\ g[x].wait_pri = f[x].wait_pri

\* The tasks that are left in the wait lists of the objects Os are in their order.
ListsInOrder(Os, f, g) == \A x \in Os : InOrder(f[x].wait_list, g[x].wait_list)

\* The semaphores or mutexes f and g differ in their wait lists only.
SameValues(st, f, g) ==
  /\ st = "PEND_SEM_B" => \A x \in SemBs : g[x].owner_tcb = f[x].owner_tcb
  /\ st = "PEND_SEM_C" => \A x \in SemCs : g[x].count = f[x].count
  /\ st = "PEND_SEM_M" => SameOwners(f, g)

WithList(f, o, l) == [f EXCEPT ![o].wait_list = l]

LEMMA WithListIs ==
  ASSUME NEW st, NEW Os, NEW Rec, SemKind(st, Os, Rec), NEW f \in [Os -> Rec],
         NEW o \in Os, NEW l \in Seq(Task)
  PROVE  /\ WithList(f, o, l) \in [Os -> Rec] /\ WithList(f, o, l)[o].wait_list = l
         /\ \A x \in Os : x # o => WithList(f, o, l)[x] = f[x]
         /\ SameValues(st, f, WithList(f, o, l))
<1> DEFINE r == [f[o] EXCEPT !.wait_list = l]
           g == WithList(f, o, l)
<1>1. g = [f EXCEPT ![o] = r]
  BY DEF WithList
<1>2. f[o] \in Rec
  OBVIOUS
<1>3. r \in Rec /\ r.wait_list = l
  <2>1. CASE Rec = SEM_BIN
    BY <2>1, <1>2 DEF SEM_BIN
  <2>2. CASE Rec = SEM_CNT
    BY <2>2, <1>2 DEF SEM_CNT
  <2>3. CASE Rec = SEM_MUX
    BY <2>3, <1>2 DEF SEM_MUX
  <2> QED
    BY <2>1, <2>2, <2>3 DEF SemKind
<1>4. /\ st \in {"PEND_SEM_B", "PEND_SEM_M"} => r.owner_tcb = f[o].owner_tcb
      /\ st = "PEND_SEM_C" => r.count = f[o].count
      /\ st = "PEND_SEM_M" => /\ r.take_count = f[o].take_count
                             /\ r.wait_pri = f[o].wait_pri
  <2>1. /\ st = "PEND_SEM_B" => f[o] \in SEM_BIN
        /\ st = "PEND_SEM_C" => f[o] \in SEM_CNT
        /\ st = "PEND_SEM_M" => f[o] \in SEM_MUX
    BY <1>2 DEF SemKind
  <2> QED
    BY <2>1 DEF SEM_BIN, SEM_CNT, SEM_MUX
<1> HIDE DEF r, g
<1>5. g \in [Os -> Rec] /\ g[o] = r /\ \A x \in Os : x # o => g[x] = f[x]
  BY <1>1, <1>3
<1>6. SameValues(st, f, g)
  BY <1>4, <1>5 DEF SameValues, SameOwners, SemKind
<1> QED
  BY <1>3, <1>5, <1>6 DEF g

LEMMA ListTickKeeps ==
  ASSUME NEW st, NEW Os, NEW Rec, SemKind(st, Os, Rec),
         NEW a, ReadyInv(a.k, {}), TicksLeft(a.k), SemsHold(a.k, a.objs, st, Os, Rec),
         NEW o \in Os
  PROVE  /\ ReadyInv(list_tick(a, o).k, {}) /\ TicksLeft(list_tick(a, o).k)
         /\ SemsHold(list_tick(a, o).k, list_tick(a, o).objs, st, Os, Rec)
         /\ Woke(a.k, list_tick(a, o).k, {st}) /\ Expired(a.k, list_tick(a, o).k)
         /\ SameValues(st, a.objs, list_tick(a, o).objs)
         /\ ListsInOrder(Os, a.objs, list_tick(a, o).objs)
<1> DEFINE f == a.objs
           e == each_tick(a.k, f[o].wait_list, waits_left(a.k))
           n == list_tick(a, o)
           g == WithList(f, o, e.list)
<1>1. n.k = e.k /\ n.objs = g
  BY DEF list_tick, WithList
<1>2. f \in [Os -> Rec] /\ HoldsBut(a.k, f[o].wait_list, st, o, {})
  BY DEF SemsHold
<1>3. \A t \in Task : a.k.tcb[t].delay_ticks > 0 => waits_left(a.k)[t] \in Nat
  BY TicksAreNat DEF ReadyInv
<1>4. st \in Waiting /\ st # "READY"
  BY DEF SemKind, Waiting, Status
<1>5. /\ ReadyInv(e.k, {}) /\ TicksLeft(e.k)
      /\ Woke(a.k, e.k, {st}) /\ Expired(a.k, e.k) /\ MovesOn(a.k, e.k, st, o)
      /\ HoldsBut(e.k, e.list, st, o, {}) /\ InOrder(f[o].wait_list, e.list)
  BY <1>2, <1>3, <1>4, EachTickKeeps
<1>6. e.list \in Seq(Task)
  BY <1>5 DEF HoldsBut
<1> HIDE DEF e, n
<1>7. /\ g \in [Os -> Rec] /\ g[o].wait_list = e.list
      /\ \A x \in Os : x # o => g[x] = f[x]
      /\ SameValues(st, f, g)
  BY <1>2, <1>6, WithListIs
<1> HIDE DEF g
<1>8. ASSUME NEW x \in Os PROVE HoldsBut(e.k, g[x].wait_list, st, x, {})
  <2>1. CASE x = o
    BY <2>1, <1>5, <1>7
  <2>2. CASE x # o
    <3>1. HoldsBut(a.k, f[x].wait_list, st, x, {}) /\ g[x] = f[x]
      BY <2>2, <1>7 DEF SemsHold
    <3> QED
      BY <2>2, <3>1, <1>4, <1>5, MovesFrame
  <2> QED
    BY <2>1, <2>2
<1>9. SemsHold(e.k, g, st, Os, Rec)
  BY <1>7, <1>8 DEF SemsHold
<1>10. ListsInOrder(Os, f, g)
  BY <1>5, <1>7, InOrderSame DEF ListsInOrder
<1> QED
  BY <1>1, <1>5, <1>7, <1>9, <1>10 DEF n

\* lists_tick applies list_tick to the semaphores of the list one after the other.
LEMMA ListsTickSteps ==
  ASSUME NEW ks, NEW objs, NEW Os, NEW s \in Seq(Os)
  PROVE  \E f : /\ f[0] = [k |-> ks, objs |-> objs]
                /\ \A i \in 1 .. Len(s) : f[i] = list_tick(f[i - 1], s[i])
                /\ lists_tick(ks, objs, s) = f[Len(s)]
<1> DEFINE first == [k |-> ks, objs |-> objs]
           Eq(g, m) == g = [i \in 0 .. m |-> IF i = 0 THEN first
                                              ELSE list_tick(g[i - 1], s[i])]
           S == {m \in Nat : \E g : Eq(g, m)}
<1>1. 0 \in S
  <2>1. Eq([i \in 0 .. 0 |-> first], 0)
    OBVIOUS
  <2> QED
    BY <2>1
<1>2. ASSUME NEW m \in Nat, m \in S PROVE m + 1 \in S
  <2>1. PICK g : Eq(g, m)
    BY <1>2
  <2> DEFINE h == [i \in 0 .. m + 1 |-> IF i <= m THEN g[i] ELSE list_tick(g[m], s[m + 1])]
  <2> HIDE DEF first
  <2>2. ASSUME NEW i \in 0 .. m + 1
        PROVE  h[i] = IF i = 0 THEN first ELSE list_tick(h[i - 1], s[i])
    BY <2>1
  <2>3. Eq(h, m + 1)
    BY <2>2
  <2> HIDE DEF h, Eq
  <2> QED
    BY <2>3
<1>3. Len(s) \in S
  <2> HIDE DEF S
  <2> QED
    BY <1>1, <1>2, Induction
<1> DEFINE f == CHOOSE g : Eq(g, Len(s))
<1>4. Eq(f, Len(s))
  BY <1>3
<1>5. lists_tick(ks, objs, s) = f[Len(s)]
  BY DEF lists_tick
<1>6. f[0] = first /\ \A i \in 1 .. Len(s) : f[i] = list_tick(f[i - 1], s[i])
  <2> HIDE DEF f, first
  <2> QED
    BY <1>4
<1> QED
  BY <1>5, <1>6

LEMMA ListsTickKeeps ==
  ASSUME NEW st, NEW Os, NEW Rec, SemKind(st, Os, Rec),
         NEW ks, ReadyInv(ks, {}), TicksLeft(ks), NEW objs, SemsHold(ks, objs, st, Os, Rec),
         NEW s \in Seq(Os), NEW n, n = lists_tick(ks, objs, s)
  PROVE  /\ ReadyInv(n.k, {}) /\ TicksLeft(n.k)
         /\ SemsHold(n.k, n.objs, st, Os, Rec)
         /\ Woke(ks, n.k, {st}) /\ Expired(ks, n.k)
         /\ SameValues(st, objs, n.objs)
         /\ ListsInOrder(Os, objs, n.objs)
<1>1. PICK f : /\ f[0] = [k |-> ks, objs |-> objs]
               /\ \A i \in 1 .. Len(s) : f[i] = list_tick(f[i - 1], s[i])
               /\ lists_tick(ks, objs, s) = f[Len(s)]
  BY ListsTickSteps
<1>2. Len(s) \in Nat /\ \A i \in 1 .. Len(s) : s[i] \in Os
  OBVIOUS
<1>3. "READY" \notin {st}
  BY DEF SemKind
<1> DEFINE P(i) == /\ ReadyInv(f[i].k, {}) /\ TicksLeft(f[i].k)
                   /\ SemsHold(f[i].k, f[i].objs, st, Os, Rec)
                   /\ Woke(ks, f[i].k, {st}) /\ Expired(ks, f[i].k)
                   /\ SameValues(st, objs, f[i].objs)
                   /\ ListsInOrder(Os, objs, f[i].objs)
           S == {i \in Nat : i <= Len(s) => P(i)}
<1>4. 0 \in S
  <2>1. f[0].k = ks /\ f[0].objs = objs
    BY <1>1
  <2> QED
    BY <2>1, InOrderSame DEF Woke, Expired, SamePriority, SameValues, SameOwners, ListsInOrder
<1>5. ASSUME NEW i \in Nat, i \in S PROVE i + 1 \in S
  <2> SUFFICES ASSUME i + 1 <= Len(s) PROVE P(i + 1)
    OBVIOUS
  <2> DEFINE a == f[i]
             b == f[i + 1]
             o == s[i + 1]
  <2>1. P(i)
    BY <1>2, <1>5
  <2>2. b = list_tick(a, o) /\ o \in Os
    <3>1. i + 1 \in 1 .. Len(s) /\ (i + 1) - 1 = i
      BY <1>2
    <3> QED
      BY <1>1, <1>2, <3>1
  <2> HIDE DEF a, b, o, P
  <2>3. /\ ReadyInv(a.k, {}) /\ TicksLeft(a.k) /\ SemsHold(a.k, a.objs, st, Os, Rec)
        /\ Woke(ks, a.k, {st}) /\ Expired(ks, a.k)
        /\ SameValues(st, objs, a.objs)
        /\ ListsInOrder(Os, objs, a.objs)
    BY <2>1 DEF a, P
  <2>4. /\ ReadyInv(b.k, {}) /\ TicksLeft(b.k) /\ SemsHold(b.k, b.objs, st, Os, Rec)
        /\ Woke(a.k, b.k, {st}) /\ Expired(a.k, b.k)
        /\ SameValues(st, a.objs, b.objs)
        /\ ListsInOrder(Os, a.objs, b.objs)
    BY <2>2, <2>3, ListTickKeeps
  <2>5. Woke(ks, b.k, {st}) /\ Expired(ks, b.k)
    BY <1>3, <2>3, <2>4, WokeTrans, ExpiredTrans
  <2>6. SameValues(st, objs, b.objs)
    BY <2>3, <2>4 DEF SameValues, SameOwners, SemKind
  <2>7. ListsInOrder(Os, objs, b.objs)
    BY <2>3, <2>4, InOrderTrans DEF ListsInOrder
  <2> QED
    BY <2>4, <2>5, <2>6, <2>7 DEF P, b
<1>6. P(Len(s))
  <2> HIDE DEF S
  <2>1. Len(s) \in S
    BY <1>2, <1>4, <1>5, Induction
  <2> QED
    BY <1>2, <2>1 DEF S
<1>7. n = f[Len(s)]
  BY <1>1
<1> QED
  BY <1>6, <1>7

-----------------------------------------------------------------------------
(* The tick over the wait lists of the message queues.                     *)

\* Exactly the tasks that wait for a queue are in its lists.
QueuesHold(ks, f) ==
  /\ f \in [MsgQs -> MSG_QUE]
  /\ \A q \in MsgQs : /\ HoldsBut(ks, f[q].wait_send_list, "PEND_MSG_S", q, {})
                      /\ HoldsBut(ks, f[q].wait_recv_list, "PEND_MSG_R", q, {})

SameMessages(f, g) ==
  \A q \in MsgQs : g[q].cur_num = f[q].cur_num /\ g[q].msg_list = f[q].msg_list

QueueLists(f, q, s, r) ==
  [f EXCEPT ![q].wait_send_list = s, ![q].wait_recv_list = r]

LEMMA QueueListsIs ==
  ASSUME NEW f \in [MsgQs -> MSG_QUE], NEW q \in MsgQs,
         NEW s \in Seq(Task), NEW r \in Seq(Task)
  PROVE  /\ QueueLists(f, q, s, r) \in [MsgQs -> MSG_QUE]
         /\ QueueLists(f, q, s, r)[q].wait_send_list = s
         /\ QueueLists(f, q, s, r)[q].wait_recv_list = r
         /\ \A x \in MsgQs : x # q => QueueLists(f, q, s, r)[x] = f[x]
         /\ SameMessages(f, QueueLists(f, q, s, r))
<1> DEFINE m == [f[q] EXCEPT !.wait_send_list = s, !.wait_recv_list = r]
           g == QueueLists(f, q, s, r)
<1>1. g = [f EXCEPT ![q] = m]
  BY DEF QueueLists
<1>2. f[q] \in MSG_QUE
  OBVIOUS
<1>3. /\ m \in MSG_QUE /\ m.wait_send_list = s /\ m.wait_recv_list = r
      /\ m.cur_num = f[q].cur_num /\ m.msg_list = f[q].msg_list
  BY <1>2 DEF MSG_QUE
<1> HIDE DEF m, g
<1>4. g \in [MsgQs -> MSG_QUE] /\ g[q] = m /\ \A x \in MsgQs : x # q => g[x] = f[x]
  BY <1>1, <1>3
<1> QED
  BY <1>3, <1>4 DEF g, SameMessages

MsgWait == {"PEND_MSG_S", "PEND_MSG_R"}

LEMMA QueueTickKeeps ==
  ASSUME NEW a, ReadyInv(a.k, {}), TicksLeft(a.k), QueuesHold(a.k, a.objs), NEW q \in MsgQs
  PROVE  /\ ReadyInv(queue_tick(a, q).k, {}) /\ TicksLeft(queue_tick(a, q).k)
         /\ QueuesHold(queue_tick(a, q).k, queue_tick(a, q).objs)
         /\ Woke(a.k, queue_tick(a, q).k, MsgWait) /\ Expired(a.k, queue_tick(a, q).k)
         /\ SameMessages(a.objs, queue_tick(a, q).objs)
<1> DEFINE f == a.objs
           s == each_tick(a.k, f[q].wait_send_list, waits_left(a.k))
           r == each_tick(s.k, f[q].wait_recv_list, waits_left(s.k))
           n == queue_tick(a, q)
           g == QueueLists(f, q, s.list, r.list)
<1>1. n.k = r.k /\ n.objs = g
  BY DEF queue_tick, QueueLists
<1>2. /\ f \in [MsgQs -> MSG_QUE]
      /\ HoldsBut(a.k, f[q].wait_send_list, "PEND_MSG_S", q, {})
      /\ HoldsBut(a.k, f[q].wait_recv_list, "PEND_MSG_R", q, {})
  BY DEF QueuesHold
<1>3. "PEND_MSG_S" \in Waiting /\ "PEND_MSG_R" \in Waiting
  BY DEF Waiting, Status
<1>4. \A t \in Task : a.k.tcb[t].delay_ticks > 0 => waits_left(a.k)[t] \in Nat
  BY TicksAreNat DEF ReadyInv
<1>5. /\ ReadyInv(s.k, {}) /\ TicksLeft(s.k) /\ Woke(a.k, s.k, {"PEND_MSG_S"})
      /\ Expired(a.k, s.k) /\ MovesOn(a.k, s.k, "PEND_MSG_S", q)
      /\ HoldsBut(s.k, s.list, "PEND_MSG_S", q, {})
  BY <1>2, <1>3, <1>4, EachTickKeeps
<1> HIDE DEF s
<1>6. \A t \in Task : s.k.tcb[t].delay_ticks > 0 => waits_left(s.k)[t] \in Nat
  BY <1>5, TicksAreNat DEF ReadyInv
<1>7. HoldsBut(s.k, f[q].wait_recv_list, "PEND_MSG_R", q, {})
  BY <1>2, <1>5, MovesFrame
<1>8. /\ ReadyInv(r.k, {}) /\ TicksLeft(r.k) /\ Woke(s.k, r.k, {"PEND_MSG_R"})
      /\ Expired(s.k, r.k) /\ MovesOn(s.k, r.k, "PEND_MSG_R", q)
      /\ HoldsBut(r.k, r.list, "PEND_MSG_R", q, {})
  BY <1>3, <1>5, <1>6, <1>7, EachTickKeeps
<1> HIDE DEF r, n
<1>9. HoldsBut(r.k, s.list, "PEND_MSG_S", q, {})
  BY <1>5, <1>8, MovesFrame
<1>10. s.list \in Seq(Task) /\ r.list \in Seq(Task)
  BY <1>5, <1>8 DEF HoldsBut
<1>11. /\ g \in [MsgQs -> MSG_QUE]
       /\ g[q].wait_send_list = s.list /\ g[q].wait_recv_list = r.list
       /\ \A x \in MsgQs : x # q => g[x] = f[x]
       /\ SameMessages(f, g)
  BY <1>2, <1>10, QueueListsIs
<1> HIDE DEF g
<1>12. ASSUME NEW x \in MsgQs
       PROVE  /\ HoldsBut(r.k, g[x].wait_send_list, "PEND_MSG_S", x, {})
              /\ HoldsBut(r.k, g[x].wait_recv_list, "PEND_MSG_R", x, {})
  <2>1. CASE x = q
    BY <2>1, <1>8, <1>9, <1>11
  <2>2. CASE x # q
    <3>1. /\ HoldsBut(a.k, f[x].wait_send_list, "PEND_MSG_S", x, {})
          /\ HoldsBut(a.k, f[x].wait_recv_list, "PEND_MSG_R", x, {}) /\ g[x] = f[x]
      BY <2>2, <1>11 DEF QueuesHold
    <3>2. /\ HoldsBut(s.k, f[x].wait_send_list, "PEND_MSG_S", x, {})
          /\ HoldsBut(s.k, f[x].wait_recv_list, "PEND_MSG_R", x, {})
      BY <2>2, <3>1, <1>5, MovesFrame
    <3> QED
      BY <2>2, <3>1, <3>2, <1>8, MovesFrame
  <2> QED
    BY <2>1, <2>2
<1>13. QueuesHold(r.k, g)
  BY <1>11, <1>12 DEF QueuesHold
<1>14. Woke(a.k, r.k, MsgWait)
  BY <1>5, <1>8 DEF Woke, MsgWait, SamePriority
<1>15. Expired(a.k, r.k)
  BY <1>5, <1>8, ExpiredTrans
<1> QED
  BY <1>1, <1>8, <1>11, <1>13, <1>14, <1>15 DEF n

\* msgQ_decrease applies queue_tick to the queues of the list one after the other.
LEMMA MsgQDecreaseSteps ==
  ASSUME NEW ks, msgQ_list \in Seq(MsgQs)
  PROVE  \E f : /\ f[0] = [k |-> ks, objs |-> msgQ]
                /\ \A i \in 1 .. Len(msgQ_list) : f[i] = queue_tick(f[i - 1], msgQ_list[i])
                /\ msgQ_decrease(ks) = f[Len(msgQ_list)]
<1> DEFINE first == [k |-> ks, objs |-> msgQ]
           s == msgQ_list
           Eq(g, m) == g = [i \in 0 .. m |-> IF i = 0 THEN first
                                              ELSE queue_tick(g[i - 1], s[i])]
           S == {m \in Nat : \E g : Eq(g, m)}
<1>1. 0 \in S
  <2>1. Eq([i \in 0 .. 0 |-> first], 0)
    OBVIOUS
  <2> QED
    BY <2>1
<1>2. ASSUME NEW m \in Nat, m \in S PROVE m + 1 \in S
  <2>1. PICK g : Eq(g, m)
    BY <1>2
  <2> DEFINE h == [i \in 0 .. m + 1 |-> IF i <= m THEN g[i] ELSE queue_tick(g[m], s[m + 1])]
  <2> HIDE DEF first
  <2>2. ASSUME NEW i \in 0 .. m + 1
        PROVE  h[i] = IF i = 0 THEN first ELSE queue_tick(h[i - 1], s[i])
    BY <2>1
  <2>3. Eq(h, m + 1)
    BY <2>2
  <2> HIDE DEF h, Eq
  <2> QED
    BY <2>3
<1>3. Len(s) \in S
  <2> HIDE DEF S
  <2> QED
    BY <1>1, <1>2, Induction
<1> DEFINE f == CHOOSE g : Eq(g, Len(s))
<1>4. Eq(f, Len(s))
  BY <1>3
<1>5. msgQ_decrease(ks) = f[Len(s)]
  BY DEF msgQ_decrease
<1>6. f[0] = first /\ \A i \in 1 .. Len(s) : f[i] = queue_tick(f[i - 1], s[i])
  <2> HIDE DEF f, first
  <2> QED
    BY <1>4
<1> QED
  BY <1>5, <1>6

LEMMA MsgQDecreaseKeeps ==
  ASSUME NEW ks, ReadyInv(ks, {}), TicksLeft(ks), QueuesHold(ks, msgQ),
         msgQ_list \in Seq(MsgQs), NEW n, n = msgQ_decrease(ks)
  PROVE  /\ ReadyInv(n.k, {}) /\ TicksLeft(n.k) /\ QueuesHold(n.k, n.objs)
         /\ Woke(ks, n.k, MsgWait) /\ Expired(ks, n.k)
         /\ SameMessages(msgQ, n.objs)
<1> DEFINE s == msgQ_list
<1>1. PICK f : /\ f[0] = [k |-> ks, objs |-> msgQ]
               /\ \A i \in 1 .. Len(s) : f[i] = queue_tick(f[i - 1], s[i])
               /\ msgQ_decrease(ks) = f[Len(s)]
  BY MsgQDecreaseSteps
<1>2. Len(s) \in Nat /\ \A i \in 1 .. Len(s) : s[i] \in MsgQs
  OBVIOUS
<1>3. "READY" \notin MsgWait
  BY DEF MsgWait
<1> DEFINE P(i) == /\ ReadyInv(f[i].k, {}) /\ TicksLeft(f[i].k)
                   /\ QueuesHold(f[i].k, f[i].objs)
                   /\ Woke(ks, f[i].k, MsgWait) /\ Expired(ks, f[i].k)
                   /\ SameMessages(msgQ, f[i].objs)
           S == {i \in Nat : i <= Len(s) => P(i)}
<1>4. 0 \in S
  <2>1. f[0].k = ks /\ f[0].objs = msgQ
    BY <1>1
  <2> QED
    BY <2>1 DEF Woke, Expired, SamePriority, SameMessages
<1>5. ASSUME NEW i \in Nat, i \in S PROVE i + 1 \in S
  <2> SUFFICES ASSUME i + 1 <= Len(s) PROVE P(i + 1)
    OBVIOUS
  <2> DEFINE a == f[i]
             b == f[i + 1]
             q == s[i + 1]
  <2>1. P(i)
    BY <1>2, <1>5
  <2>2. b = queue_tick(a, q) /\ q \in MsgQs
    <3>1. i + 1 \in 1 .. Len(s) /\ (i + 1) - 1 = i
      BY <1>2
    <3> QED
      BY <1>1, <1>2, <3>1
  <2> HIDE DEF a, b, q, P
  <2>3. /\ ReadyInv(a.k, {}) /\ TicksLeft(a.k) /\ QueuesHold(a.k, a.objs)
        /\ Woke(ks, a.k, MsgWait) /\ Expired(ks, a.k) /\ SameMessages(msgQ, a.objs)
    BY <2>1 DEF a, P
  <2>4. /\ ReadyInv(b.k, {}) /\ TicksLeft(b.k) /\ QueuesHold(b.k, b.objs)
        /\ Woke(a.k, b.k, MsgWait) /\ Expired(a.k, b.k) /\ SameMessages(a.objs, b.objs)
    BY <2>2, <2>3, QueueTickKeeps
  <2>5. Woke(ks, b.k, MsgWait) /\ Expired(ks, b.k)
    BY <1>3, <2>3, <2>4, WokeTrans, ExpiredTrans
  <2>6. SameMessages(msgQ, b.objs)
    BY <2>3, <2>4 DEF SameMessages
  <2> QED
    BY <2>4, <2>5, <2>6 DEF P, b
<1>6. P(Len(s))
  <2> HIDE DEF S
  <2>1. Len(s) \in S
    BY <1>2, <1>4, <1>5, Induction
  <2> QED
    BY <1>2, <2>1 DEF S
<1>7. n = f[Len(s)]
  BY <1>1
<1> QED
  BY <1>6, <1>7

-----------------------------------------------------------------------------
(* The whole tick.                                                         *)

\* From ks to n, waiting tasks may have become ready, with no ticks left; the
\* ready tasks keep their status and their ticks, and nobody's priority changed.
TimePassed(ks, n) ==
  \A t \in Task :
    /\ SamePriority(ks, n, t)
    /\ ks.tcb[t].status = "FREE" <=> n.tcb[t].status = "FREE"
    /\ ks.tcb[t].status = "READY" => /\ n.tcb[t].status = "READY"
                                     /\ n.tcb[t].delay_ticks = ks.tcb[t].delay_ticks
    /\ (ks.tcb[t].status # "READY" /\ n.tcb[t].status = "READY")
         => n.tcb[t].delay_ticks = 0
    /\ n.tcb[t].status # "READY" => /\ n.tcb[t].status = ks.tcb[t].status
                                    /\ n.tcb[t].pend_obj = ks.tcb[t].pend_obj

LEMMA TimeTrans ==
  ASSUME NEW a, NEW b, NEW c, NEW S, "FREE" \notin S,
         TimePassed(a, b), Woke(b, c, S), Expired(b, c)
  PROVE  TimePassed(a, c)
  BY DEF TimePassed, Woke, Expired, SamePriority

LEMMA TickKeeps ==
  ASSUME Inv, NEW r, r = ticked
  PROVE  /\ KInv(r.k) /\ CurInv(r.k, r.k.readyQ.highest_tcb) /\ DInv(r.k, r.delayQ)
         /\ BInv(r.k, r.semB, semB_list) /\ CInv(r.k, r.semC, semC_list)
         /\ MInv(r.k, r.semM, semM_list, {}) /\ QInv(r.k, r.msgQ, msgQ_list)
         /\ TimePassed(k, r.k) /\ SameMessages(msgQ, r.msgQ)
         /\ SameValues("PEND_SEM_B", semB, r.semB) /\ SameValues("PEND_SEM_C", semC, r.semC)
         /\ SameOwners(semM, r.semM)
         /\ ListsInOrder(SemMs, semM, r.semM)
<1> DEFINE b == semB_decrease(k)
           c == semC_decrease(b.k)
           m == semM_decrease(c.k)
           q == msgQ_decrease(m.k)
           d == delayQ_decrease(q.k, delayQ)
           n == rotate(d.k)
<1>0. /\ r.k = n /\ r.semB = b.objs /\ r.semC = c.objs /\ r.semM = m.objs
      /\ r.msgQ = q.objs /\ r.delayQ = d.list
  BY DEF ticked
<1>1. /\ ReadyInv(k, {}) /\ TicksLeft(k) /\ k.tcb[IDLE].status = "READY" /\ IDLE \in Task
      /\ current \in Task /\ k.tcb[current].status = "READY" /\ DInv(k, delayQ)
      /\ BInv(k, semB, semB_list) /\ CInv(k, semC, semC_list)
      /\ MInv(k, semM, semM_list, {}) /\ QInv(k, msgQ, msgQ_list)
      /\ semB_list \in Seq(SemBs) /\ semC_list \in Seq(SemCs)
      /\ semM_list \in Seq(SemMs) /\ msgQ_list \in Seq(MsgQs)
  BY SchedAssumption DEF Inv, KInv, CurInv, ListsInv, ListInv
<1>2. /\ SemKind("PEND_SEM_B", SemBs, SEM_BIN) /\ SemKind("PEND_SEM_C", SemCs, SEM_CNT)
      /\ SemKind("PEND_SEM_M", SemMs, SEM_MUX)
  BY DEF SemKind
<1>3. /\ ReadyInv(b.k, {}) /\ TicksLeft(b.k)
      /\ SemsHold(b.k, b.objs, "PEND_SEM_B", SemBs, SEM_BIN)
      /\ Woke(k, b.k, {"PEND_SEM_B"}) /\ Expired(k, b.k)
      /\ SameValues("PEND_SEM_B", semB, b.objs)
  <2>1. SemsHold(k, semB, "PEND_SEM_B", SemBs, SEM_BIN)
    BY <1>1 DEF BInv, SemsHold
  <2> QED
    BY <1>1, <1>2, <2>1, ListsTickKeeps DEF semB_decrease
<1> HIDE DEF b
<1>4. CInv(b.k, semC, semC_list) /\ MInv(b.k, semM, semM_list, {})
      /\ QInv(b.k, msgQ, msgQ_list) /\ DInv(b.k, delayQ)
  <2>1. \A st : st \notin {"PEND_SEM_B"} /\ st # "READY" => Still(k, b.k, st)
    BY <1>3, WokeStill
  <2> QED
    BY <1>1, <2>1, CFrame, MFrame, QFrame, DFrame
<1>5. /\ ReadyInv(c.k, {}) /\ TicksLeft(c.k)
      /\ SemsHold(c.k, c.objs, "PEND_SEM_C", SemCs, SEM_CNT)
      /\ Woke(b.k, c.k, {"PEND_SEM_C"}) /\ Expired(b.k, c.k)
      /\ SameValues("PEND_SEM_C", semC, c.objs)
  <2>1. SemsHold(b.k, semC, "PEND_SEM_C", SemCs, SEM_CNT)
    BY <1>4 DEF CInv, SemsHold
  <2> QED
    BY <1>1, <1>2, <1>3, <2>1, ListsTickKeeps DEF semC_decrease
<1> HIDE DEF c
<1>6. MInv(c.k, semM, semM_list, {}) /\ QInv(c.k, msgQ, msgQ_list) /\ DInv(c.k, delayQ)
  <2>1. \A st : st \notin {"PEND_SEM_C"} /\ st # "READY" => Still(b.k, c.k, st)
    BY <1>5, WokeStill
  <2> QED
    BY <1>4, <2>1, MFrame, QFrame, DFrame
<1>7. /\ ReadyInv(m.k, {}) /\ TicksLeft(m.k)
      /\ SemsHold(m.k, m.objs, "PEND_SEM_M", SemMs, SEM_MUX)
      /\ Woke(c.k, m.k, {"PEND_SEM_M"}) /\ Expired(c.k, m.k) /\ SameOwners(semM, m.objs)
      /\ ListsInOrder(SemMs, semM, m.objs)
  <2>1. SemsHold(c.k, semM, "PEND_SEM_M", SemMs, SEM_MUX)
    BY <1>6 DEF MInv, SemsHold
  <2> QED
    BY <1>1, <1>2, <1>5, <2>1, ListsTickKeeps DEF semM_decrease, SameValues
<1> HIDE DEF m
<1>8. QInv(m.k, msgQ, msgQ_list) /\ DInv(m.k, delayQ)
  <2>1. \A st : st \notin {"PEND_SEM_M"} /\ st # "READY" => Still(c.k, m.k, st)
    BY <1>7, WokeStill
  <2> QED
    BY <1>6, <2>1, QFrame, DFrame
<1>9. /\ ReadyInv(q.k, {}) /\ TicksLeft(q.k) /\ QueuesHold(q.k, q.objs)
      /\ Woke(m.k, q.k, MsgWait) /\ Expired(m.k, q.k) /\ SameMessages(msgQ, q.objs)
  <2>1. QueuesHold(m.k, msgQ)
    BY <1>8 DEF QInv, QueuesHold
  <2> QED
    BY <1>1, <1>7, <2>1, MsgQDecreaseKeeps
<1> HIDE DEF q
<1>10. DInv(q.k, delayQ)
  <2>1. Still(m.k, q.k, "DELAY")
    BY <1>9, WokeStill DEF MsgWait
  <2> QED
    BY <1>8, <2>1, DFrame
<1>11. /\ ReadyInv(d.k, {}) /\ TicksLeft(d.k) /\ HoldsBut(d.k, d.list, "DELAY", NULL, {})
       /\ Woke(q.k, d.k, {"DELAY"}) /\ Expired(q.k, d.k)
  <2>1. \A t \in Task : q.k.tcb[t].delay_ticks > 0 => delays_left(q.k)[t] \in Nat
    BY <1>9, TicksAreNat DEF ReadyInv
  <2>2. "DELAY" \in Waiting
    BY DEF Waiting, Status
  <2> QED
    BY <1>9, <1>10, <2>1, <2>2, EachTickKeeps DEF DInv, delayQ_decrease
<1> HIDE DEF d
<1>12. d.k.tcb[current].status = "READY" /\ d.k.tcb[IDLE].status = "READY"
  <2>1. Expired(k, c.k)
    BY <1>3, <1>5, ExpiredTrans
  <2>2. Expired(k, q.k)
    BY <2>1, <1>7, <1>9, ExpiredTrans
  <2>3. Expired(k, d.k)
    BY <2>2, <1>11, ExpiredTrans
  <2> QED
    BY <2>3, <1>1 DEF Expired
<1>13. /\ ReadyInv(n, {}) /\ TicksLeft(n) /\ OnlyTask(d.k, n, current)
       /\ SamePriority(d.k, n, current) /\ n.tcb[current].status = "READY"
       /\ n.tcb[current].delay_ticks = d.k.tcb[current].delay_ticks
       /\ \A st, o : MovesOn(d.k, n, st, o)
  BY <1>1, <1>11, <1>12, RotateKeeps DEF rotate
<1> HIDE DEF n
<1>14. n.tcb[IDLE].status = "READY"
  BY <1>1, <1>12, <1>13 DEF OnlyTask
<1>15. CurInv(n, n.readyQ.highest_tcb)
  BY <1>1, <1>13, <1>14, HighestIsReady DEF CurInv
<1>16. \A st : st # "READY" => Still(d.k, n, st)
  <2> SUFFICES ASSUME NEW st, st # "READY" PROVE Still(d.k, n, st)
    OBVIOUS
  <2>1. MovesOn(d.k, n, "READY", NULL)
    BY <1>13
  <2> QED
    BY <2>1, MovesStill
<1>17. TimePassed(k, n)
  <2>1. TimePassed(k, d.k)
    <3>1. TimePassed(k, b.k)
      BY <1>3 DEF Woke, Expired, TimePassed
    <3>2. TimePassed(k, c.k)
      BY <3>1, <1>5, TimeTrans
    <3>3. TimePassed(k, m.k)
      BY <3>2, <1>7, TimeTrans
    <3>4. TimePassed(k, q.k)
      BY <3>3, <1>9, TimeTrans DEF MsgWait
    <3> QED
      BY <3>4, <1>11, TimeTrans
  <2> QED
    BY <2>1, <1>12, <1>13 DEF TimePassed, OnlyTask, SamePriority
<1>18. DInv(n, d.list)
  <2>1. DInv(d.k, d.list)
    BY <1>10, <1>11 DEF DInv, Woke
  <2> QED
    BY <2>1, <1>16, DFrame
<1>19. BInv(n, b.objs, semB_list)
  <2>1. BInv(b.k, b.objs, semB_list)
    BY <1>1, <1>3 DEF SemsHold, BInv, Woke
  <2>2. Still(b.k, c.k, "PEND_SEM_B") /\ Still(c.k, m.k, "PEND_SEM_B")
        /\ Still(m.k, q.k, "PEND_SEM_B") /\ Still(q.k, d.k, "PEND_SEM_B")
    BY <1>5, <1>7, <1>9, <1>11, WokeStill DEF MsgWait
  <2> QED
    BY <2>1, <2>2, <1>16, BFrame
<1>20. CInv(n, c.objs, semC_list)
  <2>1. CInv(c.k, c.objs, semC_list)
    BY <1>4, <1>5 DEF SemsHold, CInv, Woke
  <2>2. Still(c.k, m.k, "PEND_SEM_C") /\ Still(m.k, q.k, "PEND_SEM_C")
        /\ Still(q.k, d.k, "PEND_SEM_C")
    BY <1>7, <1>9, <1>11, WokeStill DEF MsgWait
  <2> QED
    BY <2>1, <2>2, <1>16, CFrame
<1>21. MInv(n, m.objs, semM_list, {})
  <2>1. MInv(m.k, m.objs, semM_list, {})
    BY <1>6, <1>7 DEF SemsHold, MInv, Woke, SameOwners
  <2>2. Still(m.k, q.k, "PEND_SEM_M") /\ Still(q.k, d.k, "PEND_SEM_M")
    BY <1>9, <1>11, WokeStill DEF MsgWait
  <2> QED
    BY <2>1, <2>2, <1>16, MFrame
<1>22. QInv(n, q.objs, msgQ_list)
  <2>1. QInv(q.k, q.objs, msgQ_list)
    BY <1>8, <1>9 DEF QueuesHold, QInv, Woke, SameMessages, MsgWait
  <2>2. Still(q.k, d.k, "PEND_MSG_S") /\ Still(q.k, d.k, "PEND_MSG_R")
    BY <1>11, WokeStill
  <2> QED
    BY <2>1, <2>2, <1>16, QFrame
<1> QED
  BY <1>0, <1>3, <1>5, <1>7, <1>9, <1>13, <1>14, <1>15, <1>17, <1>18, <1>19, <1>20, <1>21, <1>22
     DEF KInv

-----------------------------------------------------------------------------
(* A chain of priority boosts.                                             *)

\* From ks to n, some tasks became more important; they wait as they did.
Boosted(ks, n) ==
  \A t \in Task :
    /\ n.tcb[t].status = ks.tcb[t].status
    /\ n.tcb[t].status # "READY" => n.tcb[t].pend_obj = ks.tcb[t].pend_obj
    /\ n.tcb[t].delay_ticks = ks.tcb[t].delay_ticks
    /\ n.tcb[t].origin_pri = ks.tcb[t].origin_pri
    /\ n.tcb[t].task_priority <= ks.tcb[t].task_priority

\* Mutexes f and g differ in wait_pri only.
SameButPri(f, g) ==
  \A x \in SemMs : /\ g[x].owner_tcb = f[x].owner_tcb
                   /\ g[x].take_count = f[x].take_count
                   /\ g[x].wait_list = f[x].wait_list

LEMMA PrioritiesAreInt ==
  ASSUME NEW ks \in KernelState, NEW t \in Task
  PROVE  ks.tcb[t].task_priority \in Priority /\ ks.tcb[t].task_priority \in Int
<1>1. ks.tcb[t].task_priority \in Priority
  BY DEF KernelState, OS_TCB
<1> QED
  BY <1>1, ReadyQAssumption DEF Priority

LEMMA BoostedTrans ==
  ASSUME NEW a \in KernelState, NEW b \in KernelState, NEW c \in KernelState,
         Boosted(a, b), Boosted(b, c)
  PROVE  Boosted(a, c)
  BY PrioritiesAreInt DEF Boosted

LEMMA BoostedMoves ==
  ASSUME NEW ks, NEW n, Boosted(ks, n), NEW st, NEW o
  PROVE  MovesOn(ks, n, st, o)
  BY DEF Boosted, MovesOn, ReadyOrAt

WithPri(ks, t, p) == [ks EXCEPT !.tcb[t].task_priority = p]

\* A task that is not ready gets priority p where it is.
LEMMA RaiseWaiting ==
  ASSUME NEW ks, ReadyInv(ks, {}), TicksLeft(ks), NEW t \in Task,
         ks.tcb[t].status # "READY", NEW p \in Priority,
         NEW n, n = WithPri(ks, t, p)
  PROVE  /\ ReadyInv(n, {}) /\ TicksLeft(n) /\ OnlyTask(ks, n, t)
         /\ n.tcb[t].status = ks.tcb[t].status /\ n.tcb[t].pend_obj = ks.tcb[t].pend_obj
         /\ n.tcb[t].delay_ticks = ks.tcb[t].delay_ticks
         /\ n.tcb[t].origin_pri = ks.tcb[t].origin_pri
         /\ n.tcb[t].task_priority = p
<1> DEFINE r == [ks.tcb[t] EXCEPT !.task_priority = p]
<1>1. /\ ks \in KernelState /\ ks.tcb \in [Task -> OS_TCB] /\ ks.readyQ \in READY_QUEUE
      /\ ks = [readyQ |-> ks.readyQ, tcb |-> ks.tcb] /\ ks.tcb[t] \in OS_TCB
  BY DEF ReadyInv, KernelState
<1>2. /\ r \in OS_TCB /\ r.task_priority = p /\ r.status = ks.tcb[t].status
      /\ r.pend_obj = ks.tcb[t].pend_obj /\ r.delay_ticks = ks.tcb[t].delay_ticks
      /\ r.origin_pri = ks.tcb[t].origin_pri
  BY <1>1 DEF OS_TCB
<1>3. n.readyQ = ks.readyQ /\ n.tcb = [ks.tcb EXCEPT ![t] = r]
      /\ n = [readyQ |-> n.readyQ, tcb |-> n.tcb]
  BY <1>1 DEF WithPri
<1> HIDE DEF r
<1>4. /\ n.tcb[t] = r /\ n.tcb \in [Task -> OS_TCB]
      /\ \A u \in Task : u # t => n.tcb[u] = ks.tcb[u]
  BY <1>1, <1>2, <1>3
<1>5. n \in KernelState
  BY <1>1, <1>3, <1>4 DEF KernelState
<1>6. ReadyInv(ks, {t})
  <2>1. ReadyInv(ks, {} \cup {t}) /\ {} \cup {t} = {t}
    BY NotReadyIsOff
  <2> QED
    BY <2>1
<1>7. ReadyInv(n, {})
  <2>1. \A u \in Task \ {t} : n.tcb[u] = ks.tcb[u]
    BY <1>4
  <2>2. \A u \in Task \cap {t} : n.tcb[u].status # "READY"
    BY <1>2, <1>4
  <2>3. n.readyQ = ks.readyQ
    BY <1>3
  <2> QED
    BY <1>5, <1>6, <2>1, <2>2, <2>3, OffTheQueue
<1>8. TicksLeft(n)
  BY <1>2, <1>4 DEF TicksLeft
<1> QED
  BY <1>2, <1>4, <1>7, <1>8 DEF OnlyTask

\* What a call of _up_owner_pri gets and leaves.
IsCall(a) == a = [k |-> a.k, objs |-> a.objs, s |-> a.s, ok |-> a.ok]

\* Where the chain is: the kernel is right.
ChainInv(a, l) == ReadyInv(a.k, {}) /\ TicksLeft(a.k) /\ MInv(a.k, a.objs, l, {})

\* A call that has met a dead owner does not forget it.
LEMMA CallIs ==
  ASSUME NEW a, IsCall(a), NEW p, NEW b, b = up_owner_pri(a, p)
  PROVE  IsCall(b) /\ (b.ok => a.ok)
<1>1. CASE a.s \notin SemMs
  <2>1. b = a
    BY <1>1 DEF up_owner_pri
  <2> QED
    BY <2>1
<1>2. CASE a.s \in SemMs /\ a.objs[a.s].owner_tcb = NULL
  <2>1. b = [a EXCEPT !.s = NULL, !.ok = FALSE]
    BY <1>2 DEF up_owner_pri
  <2>2. b = [k |-> a.k, objs |-> a.objs, s |-> NULL, ok |-> FALSE]
    BY <2>1 DEF IsCall
  <2> QED
    BY <2>2 DEF IsCall
<1>3. CASE a.s \in SemMs /\ a.objs[a.s].owner_tcb # NULL
  <2>1. \E n, g, x, d : b = [k |-> n, objs |-> g, s |-> x, ok |-> a.ok /\ ~ d]
    BY <1>3, Zenon DEF up_owner_pri
  <2>2. PICK n, g, x, d : b = [k |-> n, objs |-> g, s |-> x, ok |-> a.ok /\ ~ d]
    BY <2>1
  <2> DEFINE y == a.ok /\ ~ d
  <2>4. b = [k |-> n, objs |-> g, s |-> x, ok |-> y] /\ (y => a.ok)
    BY <2>2, Zenon
  <2> HIDE DEF y
  <2>3. IsCall(b) /\ b.ok = y
    BY <2>4 DEF IsCall
  <2> QED
    BY <2>3, <2>4, Zenon
<1> QED
  BY <1>1, <1>2, <1>3

\* From ks to n task t became more important and has priority p.
OneRaised(ks, n, t, p) ==
  /\ OnlyTask(ks, n, t) /\ p < ks.tcb[t].task_priority
  /\ n.tcb[t].task_priority = p /\ n.tcb[t].origin_pri = ks.tcb[t].origin_pri
  /\ n.tcb[t].status = ks.tcb[t].status /\ n.tcb[t].delay_ticks = ks.tcb[t].delay_ticks
  /\ n.tcb[t].status # "READY" => n.tcb[t].pend_obj = ks.tcb[t].pend_obj

LEMMA OneRaisedBoosted ==
  ASSUME NEW ks \in KernelState, NEW n, NEW t \in Task, NEW p \in Priority,
         OneRaised(ks, n, t, p)
  PROVE  Boosted(ks, n)
<1>1. p \in Int /\ \A u \in Task : ks.tcb[u].task_priority \in Int
  BY PrioritiesAreInt, ReadyQAssumption DEF Priority
<1> QED
  BY <1>1 DEF OneRaised, Boosted, OnlyTask

LEMMA ReadyRaised ==
  ASSUME NEW ks, ReadyInv(ks, {}), TicksLeft(ks), NEW o \in Task, NEW p \in Priority,
         ks.tcb[o].status = "READY", ks.tcb[o].task_priority > p,
         NEW n, n = readyQ_put(WithPri(readyQ_remove(ks, o), o, p), o)
  PROVE  ReadyInv(n, {}) /\ TicksLeft(n) /\ OneRaised(ks, n, o, p)
<1>1. ks \in KernelState
  BY DEF ReadyInv
<1>2. p \in Int /\ \A u \in Task : ks.tcb[u].task_priority \in Int
  BY <1>1, PrioritiesAreInt, ReadyQAssumption DEF Priority
<1>3. n = readyQ_put([readyQ_remove(ks, o) EXCEPT !.tcb[o].task_priority = p], o)
  BY DEF WithPri
<1>4. /\ ReadyInv(n, {}) /\ TicksLeft(n) /\ OnlyTask(ks, n, o)
      /\ n.tcb[o].status = "READY" /\ n.tcb[o].task_priority = p
      /\ n.tcb[o].origin_pri = ks.tcb[o].origin_pri
      /\ n.tcb[o].delay_ticks = ks.tcb[o].delay_ticks
  BY <1>3, RequeueKeeps
<1> QED
  BY <1>2, <1>4 DEF OneRaised

LEMMA WaiterRaised ==
  ASSUME NEW ks, ReadyInv(ks, {}), TicksLeft(ks), NEW o \in Task, NEW p \in Priority,
         ks.tcb[o].status # "READY", ks.tcb[o].task_priority > p,
         NEW n, n = WithPri(ks, o, p)
  PROVE  ReadyInv(n, {}) /\ TicksLeft(n) /\ OneRaised(ks, n, o, p)
<1>1. ks \in KernelState
  BY DEF ReadyInv
<1>2. p \in Int /\ \A u \in Task : ks.tcb[u].task_priority \in Int
  BY <1>1, PrioritiesAreInt, ReadyQAssumption DEF Priority
<1>3. /\ ReadyInv(n, {}) /\ TicksLeft(n) /\ OnlyTask(ks, n, o)
      /\ n.tcb[o].status = ks.tcb[o].status /\ n.tcb[o].pend_obj = ks.tcb[o].pend_obj
      /\ n.tcb[o].delay_ticks = ks.tcb[o].delay_ticks
      /\ n.tcb[o].origin_pri = ks.tcb[o].origin_pri
      /\ n.tcb[o].task_priority = p
  BY RaiseWaiting
<1> QED
  BY <1>2, <1>3 DEF OneRaised

\* From f to g mutex s has heard of a waiter of priority p.
Heard(f, g, s, p) ==
  /\ g[s].wait_pri <= p /\ g[s].wait_pri <= f[s].wait_pri
  /\ \A x \in SemMs : x # s => g[x].wait_pri = f[x].wait_pri

\* One call raises the owner o of the mutex, and goes on with the mutex that o
\* waits for.
LEMMA UpOwnerIs ==
  ASSUME NEW a, NEW l, ChainInv(a, l), IsCall(a), a.s \in SemMs, NEW p \in Priority,
         NEW o, o = a.objs[a.s].owner_tcb, NEW b, b = up_owner_pri(a, p), b.ok
  PROVE  /\ o \in Task
         /\ ReadyInv(b.k, {}) /\ TicksLeft(b.k)
         /\ \/ b.k = a.k /\ a.k.tcb[o].task_priority <= p
            \/ OneRaised(a.k, b.k, o, p)
         /\ b.objs \in [SemMs -> SEM_MUX] /\ SameButPri(a.objs, b.objs)
         /\ Heard(a.objs, b.objs, a.s, p)
         /\ b.s = IF a.k.tcb[o].task_priority > p /\ status_of(a.k.tcb[o]) = "PEND_SEM_M"
                  THEN a.k.tcb[o].pend_obj ELSE NULL
<1> DEFINE st == a.k.tcb[o].status
           up == a.k.tcb[o].task_priority > p
           k1 == IF st = "READY" THEN readyQ_remove(a.k, o) ELSE a.k
           k2 == WithPri(k1, o, p)
           m  == IF st = "READY" THEN readyQ_put(k2, o) ELSE k2
           n  == IF ~ up THEN a.k ELSE m
           g  == IF p < a.objs[a.s].wait_pri
                 THEN [a.objs EXCEPT ![a.s].wait_pri = p] ELSE a.objs
           x  == IF up /\ status_of(a.k.tcb[o]) = "PEND_SEM_M"
                 THEN a.k.tcb[o].pend_obj ELSE NULL
           dead == up /\ st = "FREE" /\ a.k.tcb[o].left = "READY"
           w  == [readyQ_put(k2, o) EXCEPT !.tcb[o].status = "FREE"]
           y  == a.ok /\ ~ dead
           n0 == IF ~ up THEN a.k
                 ELSE IF st = "READY" THEN readyQ_put(k2, o) ELSE IF dead THEN w ELSE k2
<1>0. o # NULL
  <2>1. CASE o = NULL
    <3>1. b = [a EXCEPT !.s = NULL, !.ok = FALSE]
      BY <2>1 DEF up_owner_pri
    <3>2. b = [k |-> a.k, objs |-> a.objs, s |-> NULL, ok |-> FALSE]
      BY <3>1 DEF IsCall
    <3> QED
      BY <3>2
  <2> QED
    BY <2>1
<1>1. b.k = n /\ b.objs = g /\ b.s = x
  <2>1. b = [k |-> n0, objs |-> g, s |-> x, ok |-> y]
    BY <1>0, Zenon DEF up_owner_pri, WithPri
  <2>2. ~ dead
    <3> HIDE DEF n0, g, x, y
    <3>1. b.ok = y
      BY <2>1
    <3> QED
      BY <3>1, Zenon DEF y
  <2>3. n0 = n
    BY <2>2, Zenon
  <2> HIDE DEF n, n0, g, x, y, dead
  <2> QED
    BY <2>1, <2>3
<1> HIDE DEF n0, w, y, dead
<1>2. /\ ReadyInv(a.k, {}) /\ TicksLeft(a.k) /\ MInv(a.k, a.objs, l, {})
      /\ a.objs \in [SemMs -> SEM_MUX] /\ a.k \in KernelState
  BY DEF ChainInv, MInv, ReadyInv
<1>3. p \in Int /\ \A u \in Task : a.k.tcb[u].task_priority \in Int
  BY <1>2, PrioritiesAreInt, ReadyQAssumption DEF Priority
<1>4. o \in Task
  BY <1>0, <1>2 DEF SEM_MUX
<1>5. /\ ReadyInv(n, {}) /\ TicksLeft(n)
      /\ \/ n = a.k /\ a.k.tcb[o].task_priority <= p
         \/ OneRaised(a.k, n, o, p)
  <2>1. CASE ~ up
    <3>1. n = a.k /\ a.k.tcb[o].task_priority <= p
      <4>1. a.k.tcb[o].task_priority \in Int
        BY <1>3, <1>4
      <4>2. a.k.tcb[o].task_priority <= p
        BY SMTT(30), <2>1, <1>3, <4>1
      <4>3. n = a.k
        BY <2>1, Zenon
      <4> QED
        BY <4>2, <4>3, Zenon
    <3>2. ReadyInv(n, {}) /\ TicksLeft(n)
      BY <3>1, <1>2, Zenon
    <3> HIDE DEF n
    <3> QED
      BY <3>1, <3>2, Zenon
  <2>2. CASE up
    <3>1. ReadyInv(m, {}) /\ TicksLeft(m) /\ OneRaised(a.k, m, o, p)
      <4>1. CASE st = "READY"
        <5>1. m = readyQ_put(WithPri(readyQ_remove(a.k, o), o, p), o)
          BY <4>1
        <5> HIDE DEF m
        <5> QED
          BY <5>1, <4>1, <2>2, <1>2, <1>4, ReadyRaised
      <4>2. CASE st # "READY"
        <5>1. m = WithPri(a.k, o, p)
          BY <4>2
        <5> HIDE DEF m
        <5> QED
          BY <5>1, <4>2, <2>2, <1>2, <1>4, WaiterRaised
      <4> QED
        BY <4>1, <4>2
    <3> HIDE DEF m
    <3>2. n = m
      BY <2>2
    <3> HIDE DEF n
    <3> QED
      BY <3>1, <3>2, Zenon
  <2> QED
    BY <2>1, <2>2
<1>6. g \in [SemMs -> SEM_MUX] /\ SameButPri(a.objs, g) /\ Heard(a.objs, g, a.s, p)
  <2>0. a.objs[a.s].wait_pri \in Int
    BY <1>2, ReadyQAssumption DEF SEM_MUX, Priority
  <2>1. CASE ~ (p < a.objs[a.s].wait_pri)
    <3>1. g = a.objs
      BY <2>1
    <3> HIDE DEF g
    <3> QED
      BY <1>2, <1>3, <2>0, <2>1, <3>1 DEF SameButPri, Heard
  <2>2. CASE p < a.objs[a.s].wait_pri
    <3> DEFINE r == [a.objs[a.s] EXCEPT !.wait_pri = p]
    <3>1. a.objs[a.s] \in SEM_MUX
      BY <1>2
    <3>2. /\ r \in SEM_MUX /\ r.owner_tcb = a.objs[a.s].owner_tcb
          /\ r.take_count = a.objs[a.s].take_count
          /\ r.wait_list = a.objs[a.s].wait_list /\ r.wait_pri = p
      BY <3>1 DEF SEM_MUX
    <3>3. g = [a.objs EXCEPT ![a.s] = r]
      BY <2>2
    <3> HIDE DEF r, g
    <3> QED
      BY <3>2, <3>3, <1>2, <1>3, <2>0, <2>2 DEF SameButPri, Heard
  <2> QED
    BY <2>1, <2>2
<1> HIDE DEF n, g
<1> QED
  BY <1>1, <1>2, <1>4, <1>5, <1>6

\* From ks to n, the priority of tasks changed that own one of the mutexes f.
OwnersOnly(ks, n, f) ==
  \A t \in Task : \/ n.tcb[t].task_priority = ks.tcb[t].task_priority
                  \/ \E x \in SemMs : f[x].owner_tcb = t

LEMMA UpOwnerKeeps ==
  ASSUME NEW a, NEW l, ChainInv(a, l), IsCall(a), NEW p \in Priority,
         NEW b, b = up_owner_pri(a, p), b.ok
  PROVE  /\ ChainInv(b, l) /\ Boosted(a.k, b.k) /\ SameButPri(a.objs, b.objs)
         /\ OwnersOnly(a.k, b.k, a.objs)
<1>1. /\ MInv(a.k, a.objs, l, {}) /\ a.k \in KernelState
  BY DEF ChainInv, ReadyInv
<1>2. Boosted(a.k, a.k)
  BY <1>1, PrioritiesAreInt DEF Boosted
<1>3. CASE a.s \notin SemMs
  <2>1. b = a
    BY <1>3 DEF up_owner_pri
  <2> QED
    BY <2>1, <1>2 DEF SameButPri, OwnersOnly
<1>4. CASE a.s \in SemMs
  <2> DEFINE o == a.objs[a.s].owner_tcb
  <2>1. /\ o \in Task
        /\ ReadyInv(b.k, {}) /\ TicksLeft(b.k)
        /\ \/ b.k = a.k /\ a.k.tcb[o].task_priority <= p
           \/ OneRaised(a.k, b.k, o, p)
        /\ b.objs \in [SemMs -> SEM_MUX] /\ SameButPri(a.objs, b.objs)
    BY <1>4, UpOwnerIs
  <2> HIDE DEF o
  <2>2. Boosted(a.k, b.k)
    BY <1>1, <1>2, <2>1, OneRaisedBoosted
  <2>3. MInv(b.k, a.objs, l, {})
    <3>1. MovesOn(a.k, b.k, "DELAY", NULL)
      BY <2>2, BoostedMoves
    <3>2. Still(a.k, b.k, "PEND_SEM_M")
      BY <3>1, MovesStill
    <3> QED
      BY <1>1, <3>2, MFrame
  <2>4. MInv(b.k, b.objs, l, {})
    BY <2>1, <2>3 DEF MInv, SameButPri
  <2>5. OwnersOnly(a.k, b.k, a.objs)
    <3>1. o = a.objs[a.s].owner_tcb
      BY DEF o
    <3> QED
      BY <1>4, <2>1, <3>1 DEF OwnersOnly, OneRaised, OnlyTask
  <2> QED
    BY <2>1, <2>2, <2>4, <2>5 DEF ChainInv
<1> QED
  BY <1>3, <1>4

\* raised applies up_owner_pri a fixed number of times.
LEMMA RaisedSteps ==
  ASSUME NEW ks, NEW s, NEW p, MaxCalls \in Nat
  PROVE  \E f : /\ f[0] = [k |-> ks, objs |-> semM, s |-> s, ok |-> TRUE]
                /\ \A i \in 1 .. MaxCalls : f[i] = up_owner_pri(f[i - 1], p)
                /\ raised(ks, s, p) = f[MaxCalls]
<1> DEFINE first == [k |-> ks, objs |-> semM, s |-> s, ok |-> TRUE]
           Eq(g, m) == g = [n \in 0 .. m |-> IF n = 0 THEN first
                                              ELSE up_owner_pri(g[n - 1], p)]
           S == {m \in Nat : \E g : Eq(g, m)}
<1>1. 0 \in S
  <2>1. Eq([i \in 0 .. 0 |-> first], 0)
    OBVIOUS
  <2> QED
    BY <2>1
<1>2. ASSUME NEW m \in Nat, m \in S PROVE m + 1 \in S
  <2>1. PICK g : Eq(g, m)
    BY <1>2
  <2> DEFINE h == [i \in 0 .. m + 1 |-> IF i <= m THEN g[i] ELSE up_owner_pri(g[m], p)]
  <2> HIDE DEF first
  <2>2. ASSUME NEW i \in 0 .. m + 1
        PROVE  h[i] = IF i = 0 THEN first ELSE up_owner_pri(h[i - 1], p)
    BY <2>1
  <2>3. Eq(h, m + 1)
    BY <2>2
  <2> HIDE DEF h, Eq
  <2> QED
    BY <2>3
<1>3. MaxCalls \in S
  <2> HIDE DEF S
  <2> QED
    BY <1>1, <1>2, Induction
<1> DEFINE f == CHOOSE g : Eq(g, MaxCalls)
<1>4. Eq(f, MaxCalls)
  BY <1>3
<1>5. raised(ks, s, p) = f[MaxCalls]
  BY DEF raised
<1>6. f[0] = first /\ \A i \in 1 .. MaxCalls : f[i] = up_owner_pri(f[i - 1], p)
  <2> HIDE DEF f, first
  <2> QED
    BY <1>4
<1> QED
  BY <1>5, <1>6

\* What _up_owner_pri leaves when a task is to wait for mutex s and no owner on the
\* way is dead.
LEMMA RaisedKeeps ==
  ASSUME NEW ks, ReadyInv(ks, {}), TicksLeft(ks), MInv(ks, semM, semM_list, {}),
         NEW s \in SemMs, NEW p \in Priority,
         NEW r, r = raised(ks, s, p), r.ok
  PROVE  /\ ReadyInv(r.k, {}) /\ TicksLeft(r.k) /\ MInv(r.k, r.objs, semM_list, {})
         /\ Boosted(ks, r.k) /\ OwnersOnly(ks, r.k, semM) /\ SameButPri(semM, r.objs)
<1>1. MaxCalls \in Nat
  BY ReadyQAssumption, FS_CardinalityType DEF MaxCalls
<1>2. PICK f : /\ f[0] = [k |-> ks, objs |-> semM, s |-> s, ok |-> TRUE]
               /\ \A i \in 1 .. MaxCalls : f[i] = up_owner_pri(f[i - 1], p)
               /\ raised(ks, s, p) = f[MaxCalls]
  BY <1>1, RaisedSteps
<1> DEFINE P(i) == /\ ChainInv(f[i], semM_list) /\ Boosted(ks, f[i].k)
                   /\ OwnersOnly(ks, f[i].k, semM) /\ SameButPri(semM, f[i].objs)
           S == {i \in Nat : i <= MaxCalls => IsCall(f[i]) /\ (f[i].ok => P(i))}
<1>3. ks \in KernelState
  BY DEF ReadyInv
<1>4. 0 \in S
  <2>1. f[0].k = ks /\ f[0].objs = semM /\ f[0].s = s
    BY <1>2
  <2>2. ChainInv(f[0], semM_list)
    BY <2>1 DEF ChainInv
  <2>3. Boosted(ks, f[0].k)
    BY <2>1, <1>3, PrioritiesAreInt DEF Boosted
  <2>4. OwnersOnly(ks, f[0].k, semM)
    BY <2>1 DEF OwnersOnly
  <2>5. IsCall(f[0])
    BY <1>2 DEF IsCall
  <2> QED
    BY <2>1, <2>2, <2>3, <2>4, <2>5 DEF SameButPri
<1>5. ASSUME NEW i \in Nat, i \in S PROVE i + 1 \in S
  <2> SUFFICES ASSUME i + 1 <= MaxCalls PROVE IsCall(f[i + 1]) /\ (f[i + 1].ok => P(i + 1))
    OBVIOUS
  <2> DEFINE a == f[i]
             b == f[i + 1]
  <2>1. IsCall(f[i]) /\ (f[i].ok => P(i))
    BY <1>1, <1>5
  <2>2. b = up_owner_pri(a, p)
    <3>1. i + 1 \in 1 .. MaxCalls /\ (i + 1) - 1 = i
      BY <1>1
    <3> QED
      BY <1>2, <3>1
  <2> HIDE DEF a, b, P
  <2>8. IsCall(a) /\ IsCall(b) /\ (b.ok => a.ok)
    BY <2>1, <2>2, CallIs DEF a
  <2> SUFFICES ASSUME b.ok PROVE P(i + 1)
    BY <2>8 DEF b
  <2>3. /\ ChainInv(a, semM_list) /\ Boosted(ks, a.k) /\ SameButPri(semM, a.objs)
        /\ OwnersOnly(ks, a.k, semM)
    BY <2>1, <2>8 DEF a, P
  <2>4. /\ ChainInv(b, semM_list) /\ Boosted(a.k, b.k) /\ SameButPri(a.objs, b.objs)
        /\ OwnersOnly(a.k, b.k, a.objs)
    BY <2>2, <2>3, <2>8, UpOwnerKeeps
  <2>5. Boosted(ks, b.k)
    <3>1. a.k \in KernelState /\ b.k \in KernelState
      BY <2>3, <2>4 DEF ChainInv, ReadyInv
    <3> QED
      BY <3>1, <1>3, <2>3, <2>4, BoostedTrans
  <2>6. SameButPri(semM, b.objs)
    BY <2>3, <2>4 DEF SameButPri
  <2>7. OwnersOnly(ks, b.k, semM)
    BY <2>3, <2>4 DEF OwnersOnly, SameButPri
  <2> QED
    BY <2>4, <2>5, <2>6, <2>7 DEF P, b
<1>7. r = f[MaxCalls]
  BY <1>2
<1>6. P(MaxCalls)
  <2> HIDE DEF S
  <2>1. MaxCalls \in S
    BY <1>1, <1>4, <1>5, Induction
  <2> QED
    BY <1>1, <1>7, <2>1 DEF S
<1> QED
  BY <1>6, <1>7 DEF ChainInv

\* The chain ends at an owner o that does not wait for a mutex.
LEMMA RaisedOne ==
  ASSUME NEW ks, ReadyInv(ks, {}), TicksLeft(ks), MInv(ks, semM, semM_list, {}),
         NEW s \in SemMs, NEW o, o = semM[s].owner_tcb, NEW p \in Priority,
         status_of(ks.tcb[o]) # "PEND_SEM_M", NEW r, r = raised(ks, s, p), r.ok
  PROVE  /\ \/ r.k = ks /\ ks.tcb[o].task_priority <= p
            \/ OneRaised(ks, r.k, o, p)
         /\ Heard(semM, r.objs, s, p)
<1>1. MaxCalls \in Nat /\ MaxCalls >= 1
  BY ReadyQAssumption, FS_CardinalityType DEF MaxCalls
<1>2. PICK f : /\ f[0] = [k |-> ks, objs |-> semM, s |-> s, ok |-> TRUE]
               /\ \A i \in 1 .. MaxCalls : f[i] = up_owner_pri(f[i - 1], p)
               /\ raised(ks, s, p) = f[MaxCalls]
  BY <1>1, RaisedSteps
<1> DEFINE a == f[0]
           b == f[1]
<1>3. a.k = ks /\ a.objs = semM /\ a.s = s /\ IsCall(a)
  BY <1>2 DEF IsCall
<1>4. b = up_owner_pri(a, p)
  BY <1>1, <1>2
<1> DEFINE S == {i \in Nat : i + 1 <= MaxCalls
                              => /\ IsCall(f[i + 1]) /\ (f[i + 1].ok => b.ok)
                                 /\ b.ok => f[i + 1] = b}
<1> HIDE DEF a, b
<1>5. NULL \notin SemMs
  BY KernelAssumption, ReadyQAssumption
<1>6. ChainInv(a, semM_list) /\ o = a.objs[a.s].owner_tcb
  BY <1>3 DEF ChainInv
<1>7. b.ok => /\ \/ b.k = a.k /\ a.k.tcb[o].task_priority <= p
                 \/ OneRaised(a.k, b.k, o, p)
              /\ Heard(a.objs, b.objs, a.s, p)
              /\ b.s = IF a.k.tcb[o].task_priority > p
                            /\ status_of(a.k.tcb[o]) = "PEND_SEM_M"
                       THEN a.k.tcb[o].pend_obj ELSE NULL
  BY <1>3, <1>4, <1>6, UpOwnerIs
<1>8. b.ok => b.s = NULL
  BY <1>3, <1>7
<1>9. 0 \in S
  <2>1. IsCall(b)
    BY <1>3, <1>4, CallIs
  <2> QED
    BY <2>1 DEF b
<1>10. ASSUME NEW i \in Nat, i \in S PROVE i + 1 \in S
  <2> DEFINE c == f[i + 1]
             d == f[i + 1 + 1]
  <2> SUFFICES ASSUME i + 1 + 1 <= MaxCalls
               PROVE  IsCall(d) /\ (d.ok => b.ok) /\ (b.ok => d = b)
    OBVIOUS
  <2>1. i + 1 + 1 \in 1 .. MaxCalls /\ (i + 1 + 1) - 1 = i + 1
    BY <1>1
  <2>2. IsCall(c) /\ (c.ok => b.ok) /\ (b.ok => c = b)
    BY <1>1, <1>10
  <2>3. d = up_owner_pri(c, p)
    BY <1>2, <2>1
  <2> HIDE DEF c, d
  <2>4. IsCall(d) /\ (d.ok => c.ok)
    BY <2>2, <2>3, CallIs
  <2>5. b.ok => d = b
    BY <1>5, <1>8, <2>2, <2>3 DEF up_owner_pri
  <2> QED
    BY <2>2, <2>4, <2>5
<1>11. f[MaxCalls] = b /\ b.ok
  <2>1. \A i \in Nat : i \in S
    <3> HIDE DEF S
    <3> QED
      BY <1>9, <1>10, Induction
  <2>2. MaxCalls - 1 \in Nat /\ (MaxCalls - 1) + 1 = MaxCalls
    BY <1>1
  <2>3. f[MaxCalls].ok
    BY <1>2
  <2> QED
    BY <2>1, <2>2, <2>3
<1> QED
  BY <1>2, <1>3, <1>7, <1>11

\* _sort_pri_put inserts the task somewhere.
LEMMA SortPutMembers ==
  ASSUME NEW ks \in KernelState, NEW s \in Seq(Task), NoDuplicates(s),
         NEW t \in Task, ~ dlist_check(s, t), NEW r, r = sort_pri_put(ks, s, t)
  PROVE  /\ r \in Seq(Task) /\ NoDuplicates(r)
         /\ \A x : dlist_check(r, x) <=> (x = t \/ dlist_check(s, x))
<1> DEFINE behind == {i \in 1 .. Len(s) :
                        ks.tcb[s[i]].task_priority >= ks.tcb[t].task_priority}
           atEnd == \/ DL_EMPTY(s)
                    \/ ks.tcb[Last(s)].task_priority < ks.tcb[t].task_priority
<1>1. r = IF atEnd THEN dlist_add(s, t) ELSE dlist_insert(s, Min(behind) - 1, t)
  BY DEF sort_pri_put
<1>2. CASE atEnd
  BY <1>1, <1>2, AddedMembers
<1>3. CASE ~ atEnd
  <2>1. Len(s) \in Nat /\ Len(s) # 0
    BY <1>3 DEF DL_EMPTY
  <2>2. Last(s) = s[Len(s)] /\ s[Len(s)] \in Task
    BY <2>1 DEF Last
  <2>3. ks.tcb[t].task_priority \in Int /\ ks.tcb[s[Len(s)]].task_priority \in Int
    BY <2>2, PrioritiesAreInt
  <2>4. Len(s) \in behind
    BY <1>3, <2>1, <2>2, <2>3
  <2>5. behind \in SUBSET Nat /\ \A i \in behind : i \in 1 .. Len(s)
    OBVIOUS
  <2> HIDE DEF behind
  <2>6. PICK i \in behind : i = Min(behind)
    BY <2>4, <2>5, MinIsLeast
  <2>7. i \in 1 .. Len(s)
    BY <2>5
  <2>8. i - 1 \in 0 .. Len(s)
    BY <2>1, <2>7
  <2> QED
    BY <1>1, <1>3, <2>6, <2>8, InsertedMembers
<1> QED
  BY <1>2, <1>3

-----------------------------------------------------------------------------
(* A mutex goes to its first waiter; the mutexes of a deleted task.        *)

LEMMA HandedIs ==
  ASSUME NEW ks \in KernelState, NEW m \in SEM_MUX, ~ DL_EMPTY(m.wait_list),
         NEW owner \in Task \cup {NULL}, NEW h, h = handed(ks, m, owner)
  PROVE  /\ h \in SEM_MUX /\ h.owner_tcb = owner /\ h.take_count = m.take_count
         /\ h.wait_list = dlist_rest(m.wait_list)
         /\ h.wait_pri = IF DL_EMPTY(h.wait_list) THEN LOWEST
                         ELSE ks.tcb[DL_FIRST(h.wait_list)].task_priority
<1> DEFINE l == dlist_rest(m.wait_list)
           p == IF DL_EMPTY(l) THEN LOWEST ELSE ks.tcb[DL_FIRST(l)].task_priority
           a == [m EXCEPT !.owner_tcb = owner, !.wait_list = dlist_rest(@)]
<1>1. m.wait_list \in Seq(Task) /\ m.take_count \in 0 .. UINT - 1
  BY DEF SEM_MUX
<1>2. l \in Seq(Task)
  BY <1>1 DEF DL_EMPTY, dlist_rest
<1>3. p \in Priority
  <2>1. CASE DL_EMPTY(l)
    BY <2>1, ReadyQAssumption DEF LOWEST, Priority
  <2>2. CASE ~ DL_EMPTY(l)
    <3>1. l[1] \in Task
      BY <1>2, <2>2 DEF DL_EMPTY
    <3> QED
      BY <2>2, <3>1, PrioritiesAreInt DEF DL_FIRST
  <2> QED
    BY <2>1, <2>2
<1>4. /\ a \in SEM_MUX /\ a.owner_tcb = owner /\ a.wait_list = l
      /\ a.take_count = m.take_count
  <2> HIDE DEF l
  <2>1. a = [m EXCEPT !.owner_tcb = owner, !.wait_list = l]
    BY DEF l, SEM_MUX
  <2> QED
    BY <2>1, <1>2 DEF SEM_MUX
<1>5. h = [a EXCEPT !.wait_pri = IF DL_EMPTY(a.wait_list) THEN LOWEST
                                 ELSE ks.tcb[DL_FIRST(a.wait_list)].task_priority]
  BY DEF handed, update_wait_pri
<1> HIDE DEF a, l
<1>6. h = [a EXCEPT !.wait_pri = p]
  BY <1>4, <1>5
<1> HIDE DEF p
<1>7. /\ h \in SEM_MUX /\ h.owner_tcb = owner /\ h.take_count = m.take_count
      /\ h.wait_list = l /\ h.wait_pri = p
  BY <1>3, <1>4, <1>6 DEF SEM_MUX
<1> QED
  BY <1>7 DEF l, p

\* What is left while the mutexes of t are given away: t is off all queues.
FreeInv(a, l, t) ==
  ReadyInv(a.k, {t}) /\ TicksLeft(a.k) /\ MInv(a.k, a.objs, l, {t})

\* What becomes of the mutexes f of task t: one that was t's is free or still t's.
GaveBack(f, g, t) ==
  \A x \in SemMs :
    /\ \/ g[x].owner_tcb = f[x].owner_tcb
       \/ f[x].owner_tcb = t /\ g[x].owner_tcb = NULL
    /\ InOrder(f[x].wait_list, g[x].wait_list)

LEMMA GaveBackTrans ==
  ASSUME NEW f, NEW g, NEW h, NEW t, GaveBack(f, g, t), GaveBack(g, h, t)
  PROVE  GaveBack(f, h, t)
  BY InOrderTrans DEF GaveBack

\* From ks to n, waiters of mutexes became ready, with their ticks.
GivenAway(ks, n, t) ==
  Woke(ks, n, {"PEND_SEM_M"}) /\ TicksKept(ks, n, {t})

LEMMA FreeOneKeeps ==
  ASSUME NEW a, NEW l, NEW t \in Task, FreeInv(a, l, t), NEW s \in SemMs, dlist_check(l, s)
  PROVE  /\ FreeInv(free_one(a, s, t), l, t) /\ GivenAway(a.k, free_one(a, s, t).k, t)
         /\ GaveBack(a.objs, free_one(a, s, t).objs, t)
<1> DEFINE m == [a.objs[s] EXCEPT !.take_count = 0]
           list == m.wait_list
           n == wake_first(a.k, list)
           y == IF DL_EMPTY(list) THEN [m EXCEPT !.owner_tcb = NULL] ELSE handed(a.k, m, t)
           g == [a.objs EXCEPT ![s] = y]
           b == free_one(a, s, t)
<1>1. b = IF m.owner_tcb # t THEN a ELSE [k |-> n, objs |-> g]
  BY DEF free_one
<1>2. /\ ReadyInv(a.k, {t}) /\ TicksLeft(a.k) /\ MInv(a.k, a.objs, l, {t})
      /\ a.k \in KernelState /\ a.objs \in [SemMs -> SEM_MUX] /\ a.objs[s] \in SEM_MUX
      /\ HoldsBut(a.k, a.objs[s].wait_list, "PEND_SEM_M", s, {t})
  BY DEF FreeInv, MInv, ReadyInv
<1>3. UINT \in Nat /\ UINT > 0
  BY SemMAssumption
<1>4. m \in SEM_MUX /\ list = a.objs[s].wait_list /\ m.take_count = 0
  BY <1>2, <1>3 DEF SEM_MUX
<1> HIDE DEF m
<1>5. CASE m.owner_tcb # t
  <2>1. b = a
    BY <1>1, <1>5
  <2> QED
    <3>1. GivenAway(a.k, a.k, t)
      BY DEF GivenAway, Woke, SamePriority, TicksKept
    <3>2. GaveBack(a.objs, a.objs, t)
      BY InOrderSame, Zenon DEF GaveBack
    <3> QED
      BY <2>1, <3>1, <3>2, Zenon
<1>6. CASE m.owner_tcb = t
  <2>1. b.k = n /\ b.objs = g
    <3> HIDE DEF n, g, b
    <3> QED
      BY <1>1, <1>6
  <2>2. "PEND_SEM_M" \in Waiting
    BY DEF Waiting, Status
  <2>3. /\ ReadyInv(n, {t}) /\ TicksLeft(n) /\ Woke(a.k, n, {"PEND_SEM_M"})
        /\ HoldsBut(n, rest(list), "PEND_SEM_M", s, {t})
        /\ MovesOn(a.k, n, "PEND_SEM_M", s)
        /\ TicksKept(a.k, n, {t})
    <3>1. HoldsBut(a.k, list, "PEND_SEM_M", s, {t})
      BY <1>2, <1>4
    <3>2. n = wake_first(a.k, list) /\ ReadyInv(a.k, {t}) /\ TicksLeft(a.k)
      BY <1>2
    <3> HIDE DEF list, n
    <3> QED
      BY <3>1, <3>2, <2>2, WakeFirstKeeps
  <2>4. GivenAway(a.k, n, t)
    BY <2>3 DEF GivenAway
  <2>5. /\ y \in SEM_MUX /\ y.wait_list = rest(list)
        /\ y.owner_tcb # NULL \/ Len(y.wait_list) = 0
        /\ y.owner_tcb \in {t, NULL} /\ InOrder(list, y.wait_list)
    <3>1. CASE DL_EMPTY(list)
      <4>1. y = [m EXCEPT !.owner_tcb = NULL] /\ rest(list) = list
        BY <3>1 DEF rest
      <4> QED
        BY <3>1, <4>1, <1>4, InOrderSame DEF SEM_MUX, DL_EMPTY
    <3>2. CASE ~ DL_EMPTY(list)
      <4>1. y = handed(a.k, m, t) /\ rest(list) = dlist_rest(list)
        BY <3>2 DEF rest
      <4> HIDE DEF y
      <4>2. t # NULL
        BY ReadyQAssumption
      <4>3. InOrder(list, dlist_rest(list))
        <5>1. list \in Seq(Task)
          BY <1>4 DEF SEM_MUX
        <5> QED
          BY <3>2, <5>1, InOrderRest
      <4> QED
        BY <3>2, <4>1, <4>2, <4>3, <1>2, <1>4, HandedIs
    <3> QED
      BY <3>1, <3>2
  <2> HIDE DEF n, y
  <2>6. /\ g \in [SemMs -> SEM_MUX] /\ g[s] = y
        /\ \A x \in SemMs : x # s => g[x] = a.objs[x]
    BY <1>2, <2>5
  <2> HIDE DEF g
  <2>7. MInv(n, g, l, {t})
    BY <1>2, <2>3, <2>5, <2>6, MStep
  <2>9. GaveBack(a.objs, g, t)
    <3>1. a.objs[s].owner_tcb = t
      BY <1>2, <1>6 DEF m, SEM_MUX
    <3>2. InOrder(a.objs[s].wait_list, g[s].wait_list) /\ g[s].owner_tcb \in {t, NULL}
      BY <1>4, <2>5, <2>6
    <3>3. ASSUME NEW x \in SemMs, x # s
          PROVE  g[x].owner_tcb = a.objs[x].owner_tcb
                 /\ InOrder(a.objs[x].wait_list, g[x].wait_list)
      <4>1. g[x] = a.objs[x]
        BY <2>6, <3>3
      <4> QED
        BY <4>1, InOrderSame, Zenon
    <3> QED
      BY <3>1, <3>2, <3>3, Zenon DEF GaveBack
  <2> HIDE DEF b
  <2>8. FreeInv(b, l, t)
    BY <2>1, <2>3, <2>7 DEF FreeInv
  <2> QED
    BY <2>1, <2>4, <2>8, <2>9 DEF b
<1> QED
  BY <1>5, <1>6

\* semM_free applies free_one to the mutexes of the list one after the other.
LEMMA SemMFreeSteps ==
  ASSUME NEW ks, NEW ms, NEW t, semM_list \in Seq(SemMs)
  PROVE  \E f : /\ f[0] = [k |-> ks, objs |-> ms]
                /\ \A i \in 1 .. Len(semM_list) : f[i] = free_one(f[i - 1], semM_list[i], t)
                /\ semM_free(ks, ms, t) = f[Len(semM_list)]
<1> DEFINE first == [k |-> ks, objs |-> ms]
           s == semM_list
           Eq(g, m) == g = [i \in 0 .. m |-> IF i = 0 THEN first
                                              ELSE free_one(g[i - 1], s[i], t)]
           S == {m \in Nat : \E g : Eq(g, m)}
<1>1. 0 \in S
  <2>1. Eq([i \in 0 .. 0 |-> first], 0)
    OBVIOUS
  <2> QED
    BY <2>1
<1>2. ASSUME NEW m \in Nat, m \in S PROVE m + 1 \in S
  <2>1. PICK g : Eq(g, m)
    BY <1>2
  <2> DEFINE h == [i \in 0 .. m + 1 |-> IF i <= m THEN g[i] ELSE free_one(g[m], s[m + 1], t)]
  <2> HIDE DEF first
  <2>2. ASSUME NEW i \in 0 .. m + 1
        PROVE  h[i] = IF i = 0 THEN first ELSE free_one(h[i - 1], s[i], t)
    BY <2>1
  <2>3. Eq(h, m + 1)
    BY <2>2
  <2> HIDE DEF h, Eq
  <2> QED
    BY <2>3
<1>3. Len(s) \in S
  <2> HIDE DEF S
  <2> QED
    BY <1>1, <1>2, Induction
<1> DEFINE f == CHOOSE g : Eq(g, Len(s))
<1>4. Eq(f, Len(s))
  BY <1>3
<1>5. semM_free(ks, ms, t) = f[Len(s)]
  BY DEF semM_free
<1>6. f[0] = first /\ \A i \in 1 .. Len(s) : f[i] = free_one(f[i - 1], s[i], t)
  <2> HIDE DEF f, first
  <2> QED
    BY <1>4
<1> QED
  BY <1>5, <1>6

LEMMA SemMFreeKeeps ==
  ASSUME NEW ks, NEW ms, NEW t \in Task, semM_list \in Seq(SemMs),
         ReadyInv(ks, {t}), TicksLeft(ks), MInv(ks, ms, semM_list, {t}),
         NEW n, n = semM_free(ks, ms, t)
  PROVE  FreeInv(n, semM_list, t) /\ GivenAway(ks, n.k, t) /\ GaveBack(ms, n.objs, t)
<1> DEFINE s == semM_list
<1>1. PICK f : /\ f[0] = [k |-> ks, objs |-> ms]
               /\ \A i \in 1 .. Len(s) : f[i] = free_one(f[i - 1], s[i], t)
               /\ semM_free(ks, ms, t) = f[Len(s)]
  BY SemMFreeSteps
<1>2. Len(s) \in Nat /\ \A i \in 1 .. Len(s) : s[i] \in SemMs /\ dlist_check(s, s[i])
  BY DEF dlist_check
<1> DEFINE P(i) == /\ FreeInv(f[i], s, t) /\ GivenAway(ks, f[i].k, t)
                   /\ GaveBack(ms, f[i].objs, t)
           S == {i \in Nat : i <= Len(s) => P(i)}
<1>3. 0 \in S
  <2>1. f[0].k = ks /\ f[0].objs = ms
    BY <1>1
  <2> QED
    <3>1. GivenAway(ks, ks, t)
      BY DEF GivenAway, Woke, SamePriority, TicksKept
    <3>2. GaveBack(ms, ms, t)
      BY InOrderSame, Zenon DEF GaveBack
    <3>3. P(0)
      BY <2>1, <3>1, <3>2 DEF FreeInv
    <3> HIDE DEF P
    <3> QED
      BY <3>3
<1>4. ASSUME NEW i \in Nat, i \in S PROVE i + 1 \in S
  <2> SUFFICES ASSUME i + 1 <= Len(s) PROVE P(i + 1)
    OBVIOUS
  <2> DEFINE a == f[i]
             b == f[i + 1]
             o == s[i + 1]
  <2>1. P(i)
    BY <1>2, <1>4
  <2>2. b = free_one(a, o, t) /\ o \in SemMs /\ dlist_check(s, o)
    <3>1. i + 1 \in 1 .. Len(s) /\ (i + 1) - 1 = i
      BY <1>2
    <3> QED
      BY <1>1, <1>2, <3>1
  <2> HIDE DEF a, b, o, P
  <2>3. FreeInv(a, s, t) /\ GivenAway(ks, a.k, t) /\ GaveBack(ms, a.objs, t)
    BY <2>1 DEF a, P
  <2>4. FreeInv(b, s, t) /\ GivenAway(a.k, b.k, t) /\ GaveBack(a.objs, b.objs, t)
    BY <2>2, <2>3, FreeOneKeeps
  <2>5. GivenAway(ks, b.k, t)
    <3>1. Woke(ks, b.k, {"PEND_SEM_M"})
      BY <2>3, <2>4, WokeTrans DEF GivenAway
    <3>2. TicksKept(ks, b.k, {t})
      BY <2>3, <2>4 DEF GivenAway, TicksKept
    <3> QED
      BY <3>1, <3>2 DEF GivenAway
  <2>6. GaveBack(ms, b.objs, t)
    BY <2>3, <2>4, GaveBackTrans
  <2> QED
    BY <2>4, <2>5, <2>6 DEF P, b
<1>5. P(Len(s))
  <2> HIDE DEF S
  <2>1. Len(s) \in S
    BY <1>2, <1>3, <1>4, Induction
  <2> QED
    BY <1>2, <2>1 DEF S
<1>6. n = f[Len(s)]
  BY <1>1
<1> QED
  BY <1>5, <1>6

-----------------------------------------------------------------------------
(* The life of a task.                                                     *)

\* A free control block gets priority p and joins the ready queue.
LEMMA CreatedKeeps ==
  ASSUME NEW ks, ReadyInv(ks, {}), TicksLeft(ks), NEW t \in Task,
         ks.tcb[t].status = "FREE", NEW p \in Priority
  PROVE  /\ ReadyInv(created(ks, t, p), {}) /\ TicksLeft(created(ks, t, p))
         /\ OnlyTask(ks, created(ks, t, p), t)
         /\ created(ks, t, p).tcb[t].status = "READY"
         /\ created(ks, t, p).tcb[t].task_priority = p
         /\ created(ks, t, p).tcb[t].origin_pri = p
<1> DEFINE a == [ks EXCEPT !.tcb[t] = [@ EXCEPT !.task_priority = p, !.origin_pri = p,
                                             !.pend_obj = NULL, !.left = "READY"]]
           r == [ks.tcb[t] EXCEPT !.task_priority = p, !.origin_pri = p, !.pend_obj = NULL,
                                  !.left = "READY"]
           n == created(ks, t, p)
<1>0. n = readyQ_put(a, t)
  BY DEF created
<1>1. /\ ks \in KernelState /\ ks.tcb \in [Task -> OS_TCB] /\ ks.readyQ \in READY_QUEUE
      /\ ks = [readyQ |-> ks.readyQ, tcb |-> ks.tcb] /\ ks.tcb[t] \in OS_TCB
  BY DEF ReadyInv, KernelState
<1>2. /\ r \in OS_TCB /\ r.task_priority = p /\ r.origin_pri = p
  BY <1>1 DEF OS_TCB, Status
<1>3. a.readyQ = ks.readyQ /\ a.tcb = [ks.tcb EXCEPT ![t] = r]
      /\ a = [readyQ |-> a.readyQ, tcb |-> a.tcb]
  BY <1>1
<1> HIDE DEF r, a, n
<1>4. /\ a.tcb[t] = r /\ a.tcb \in [Task -> OS_TCB]
      /\ \A u \in Task \ {t} : a.tcb[u] = ks.tcb[u]
  BY <1>1, <1>2, <1>3
<1>5. a \in KernelState
  BY <1>1, <1>3, <1>4 DEF KernelState
<1>6. ReadyInv(ks, {t})
  <2>1. ReadyInv(ks, {} \cup {t}) /\ {} \cup {t} = {t}
    BY NotReadyIsOff
  <2> QED
    BY <2>1
<1>7. ReadyInv(a, {t})
  <2>1. a.readyQ = ks.readyQ
    BY <1>3
  <2> QED
    BY <1>4, <1>5, <1>6, <2>1, OffTheQueue
<1>8. /\ ReadyInv(n, {})
      /\ n.tcb = [a.tcb EXCEPT ![t].status = "READY", ![t].pend_obj = NULL]
  BY <1>0, <1>7, PutKeeps
<1>9. n.tcb[t] = [r EXCEPT !.status = "READY", !.pend_obj = NULL]
  BY <1>4, <1>8
<1>10. n.tcb[t].status = "READY" /\ n.tcb[t].task_priority = p /\ n.tcb[t].origin_pri = p
  BY <1>2, <1>9 DEF OS_TCB
<1>11. OnlyTask(ks, n, t)
  BY <1>4, <1>8 DEF OnlyTask
<1>12. TicksLeft(n)
  BY <1>10, <1>11 DEF TicksLeft, OnlyTask
<1> QED
  BY <1>8, <1>10, <1>11, <1>12 DEF n

\* The control block of a task that is off the queue becomes free.
LEMMA FreedKeeps ==
  ASSUME NEW ks, NEW t \in Task, ReadyInv(ks, {t}), TicksLeft(ks),
         NEW st \in Status, NEW n, n = released(ks, t, st)
  PROVE  /\ ReadyInv(n, {}) /\ TicksLeft(n) /\ OnlyTask(ks, n, t)
         /\ n.tcb[t].status = "FREE"
         /\ n.tcb[t].task_priority = ks.tcb[t].task_priority
         /\ n.tcb[t].origin_pri = ks.tcb[t].origin_pri
<1> DEFINE r == [ks.tcb[t] EXCEPT !.status = "FREE", !.left = st]
<1>1. /\ ks \in KernelState /\ ks.tcb \in [Task -> OS_TCB] /\ ks.readyQ \in READY_QUEUE
      /\ ks = [readyQ |-> ks.readyQ, tcb |-> ks.tcb] /\ ks.tcb[t] \in OS_TCB
  BY DEF ReadyInv, KernelState
<1>2. /\ r \in OS_TCB /\ r.status = "FREE" /\ r.task_priority = ks.tcb[t].task_priority
      /\ r.origin_pri = ks.tcb[t].origin_pri
  BY <1>1 DEF OS_TCB, Status
<1>3. n.readyQ = ks.readyQ /\ n.tcb = [ks.tcb EXCEPT ![t] = r]
      /\ n = [readyQ |-> n.readyQ, tcb |-> n.tcb]
  BY <1>1 DEF released
<1> HIDE DEF r
<1>4. /\ n.tcb[t] = r /\ n.tcb \in [Task -> OS_TCB]
      /\ \A u \in Task \ {t} : n.tcb[u] = ks.tcb[u]
  BY <1>1, <1>2, <1>3
<1>5. n \in KernelState
  BY <1>1, <1>3, <1>4 DEF KernelState
<1>6. ReadyInv(n, {})
  <2>1. n.readyQ = ks.readyQ
    BY <1>3
  <2>2. \A u \in Task \cap {t} : n.tcb[u].status # "READY"
    BY <1>2, <1>4
  <2> QED
    BY <1>4, <1>5, <2>1, <2>2, OffTheQueue
<1>7. OnlyTask(ks, n, t)
  BY <1>4 DEF OnlyTask
<1>8. TicksLeft(n)
  BY <1>2, <1>4 DEF TicksLeft
<1> QED
  BY <1>2, <1>4, <1>6, <1>7, <1>8

\* start creates the tasks in their order.
LEMMA StartSteps ==
  ASSUME NEW pri, NEW T, NEW s \in Seq(T)
  PROVE  \E f : /\ f[0] = created([readyQ |-> readyQ_init, tcb |-> [t \in Task |-> tcb_free]],
                                  IDLE, PRIORITY_NUM_MAX - 1)
                /\ \A i \in 1 .. Len(s) : f[i] = created(f[i - 1], s[i], pri[s[i]])
                /\ start(pri, s) = f[Len(s)]
<1> DEFINE first == created([readyQ |-> readyQ_init, tcb |-> [t \in Task |-> tcb_free]],
                            IDLE, PRIORITY_NUM_MAX - 1)
           Eq(g, m) == g = [i \in 0 .. m |-> IF i = 0 THEN first
                                              ELSE created(g[i - 1], s[i], pri[s[i]])]
           S == {m \in Nat : \E g : Eq(g, m)}
<1>1. 0 \in S
  <2> HIDE DEF first
  <2>1. Eq([i \in 0 .. 0 |-> first], 0)
    OBVIOUS
  <2> QED
    BY <2>1
<1>2. ASSUME NEW m \in Nat, m \in S PROVE m + 1 \in S
  <2>1. PICK g : Eq(g, m)
    BY <1>2
  <2> DEFINE h == [i \in 0 .. m + 1 |->
                     IF i <= m THEN g[i] ELSE created(g[m], s[m + 1], pri[s[m + 1]])]
  <2> HIDE DEF first
  <2>2. ASSUME NEW i \in 0 .. m + 1
        PROVE  h[i] = IF i = 0 THEN first ELSE created(h[i - 1], s[i], pri[s[i]])
    BY <2>1
  <2>3. Eq(h, m + 1)
    BY <2>2
  <2> HIDE DEF h, Eq
  <2> QED
    BY <2>3
<1>3. Len(s) \in S
  <2> HIDE DEF S
  <2> QED
    BY <1>1, <1>2, Induction
<1> DEFINE f == CHOOSE g : Eq(g, Len(s))
<1>4. Eq(f, Len(s))
  BY <1>3
<1>5. start(pri, s) = f[Len(s)]
  BY DEF start
<1>6. f[0] = first /\ \A i \in 1 .. Len(s) : f[i] = created(f[i - 1], s[i], pri[s[i]])
  <2> HIDE DEF f, first
  <2> QED
    BY <1>4
<1> QED
  BY <1>5, <1>6

\* After main(): nobody waits, every task is ready at its own priority or free.
Started(ks) ==
  /\ KInv(ks)
  /\ \A t \in Task : /\ ks.tcb[t].status \in {"READY", "FREE"}
                     /\ ks.tcb[t].task_priority = ks.tcb[t].origin_pri

LEMMA StartKeeps ==
  ASSUME NEW pri \in [StartTasks -> UserPri], NEW s \in Seq(StartTasks), NoDuplicates(s)
  PROVE  Started(start(pri, s))
<1> DEFINE zero == [readyQ |-> readyQ_init, tcb |-> [t \in Task |-> tcb_free]]
           first == created(zero, IDLE, PRIORITY_NUM_MAX - 1)
<1>1. PICK f : /\ f[0] = first
               /\ \A i \in 1 .. Len(s) : f[i] = created(f[i - 1], s[i], pri[s[i]])
               /\ start(pri, s) = f[Len(s)]
  BY StartSteps
<1>2. /\ Len(s) \in Nat
      /\ \A i \in 1 .. Len(s) : /\ s[i] \in Task /\ s[i] # IDLE
                                /\ pri[s[i]] \in Priority
  <2>1. UserPri \subseteq Priority
    BY KernelAssumption, ReadyQAssumption DEF Priority
  <2>2. \A i \in 1 .. Len(s) : s[i] \in StartTasks
    OBVIOUS
  <2>3. \A t \in StartTasks : t \in Task /\ t # IDLE
    BY KernelAssumption
  <2>4. \A t \in StartTasks : pri[t] \in Priority
    BY <2>1
  <2> QED
    BY <2>2, <2>3, <2>4
<1>3. IDLE \in Task /\ PRIORITY_NUM_MAX - 1 \in Priority
  BY SchedAssumption, ReadyQAssumption DEF Priority
<1> DEFINE Seen(i, t) == \E j \in 1 .. i : s[j] = t
           P(i) == /\ Started(f[i])
                   /\ \A t \in Task : (t # IDLE /\ ~ Seen(i, t))
                                        => f[i].tcb[t].status = "FREE"
           S == {i \in Nat : i <= Len(s) => P(i)}
<1>4. 0 \in S
  <2>1. ReadyInv(zero, {})
    BY EmptyQueue
  <2>2. \A t \in Task : zero.tcb[t] = tcb_free
    OBVIOUS
  <2> HIDE DEF zero
  <2>3. \A t \in Task : /\ zero.tcb[t].status = "FREE"
                        /\ zero.tcb[t].task_priority = zero.tcb[t].origin_pri
    BY <2>2 DEF tcb_free
  <2>4. TicksLeft(zero)
    BY <2>3 DEF TicksLeft
  <2>5. /\ ReadyInv(first, {}) /\ TicksLeft(first) /\ OnlyTask(zero, first, IDLE)
        /\ first.tcb[IDLE].status = "READY"
        /\ first.tcb[IDLE].task_priority = PRIORITY_NUM_MAX - 1
        /\ first.tcb[IDLE].origin_pri = PRIORITY_NUM_MAX - 1
    BY <1>3, <2>1, <2>3, <2>4, CreatedKeeps
  <2> HIDE DEF first
  <2>6. Started(first) /\ \A t \in Task : t # IDLE => first.tcb[t].status = "FREE"
    BY <2>3, <2>5 DEF Started, KInv, OnlyTask
  <2> QED
    BY <2>6, <1>1
<1>5. ASSUME NEW i \in Nat, i \in S PROVE i + 1 \in S
  <2> SUFFICES ASSUME i + 1 <= Len(s) PROVE P(i + 1)
    OBVIOUS
  <2> DEFINE a == f[i]
             b == f[i + 1]
             t == s[i + 1]
  <2>1. P(i)
    BY <1>2, <1>5
  <2>2. i + 1 \in 1 .. Len(s) /\ (i + 1) - 1 = i
    BY <1>2
  <2>3. b = created(a, t, pri[t]) /\ t \in Task /\ t # IDLE /\ pri[t] \in Priority
    BY <1>1, <1>2, <2>2
  <2>4. ~ Seen(i, t)
    BY <1>2, <2>2 DEF NoDuplicates
  <2>5. \A u \in Task : Seen(i + 1, u) <=> (u = t \/ Seen(i, u))
    BY <2>2
  <2> HIDE DEF a, b, t, Seen, P
  <2>6. /\ Started(a) /\ \A u \in Task : (u # IDLE /\ ~ Seen(i, u)) => a.tcb[u].status = "FREE"
    BY <2>1 DEF a, P
  <2>7. /\ ReadyInv(a, {}) /\ TicksLeft(a) /\ a.tcb[t].status = "FREE"
    BY <2>3, <2>4, <2>6 DEF Started, KInv
  <2>8. /\ ReadyInv(b, {}) /\ TicksLeft(b) /\ OnlyTask(a, b, t)
        /\ b.tcb[t].status = "READY"
        /\ b.tcb[t].task_priority = pri[t] /\ b.tcb[t].origin_pri = pri[t]
    BY <2>3, <2>7, CreatedKeeps
  <2>9. Started(b)
    BY <1>3, <2>3, <2>6, <2>8 DEF Started, KInv, OnlyTask
  <2>10. \A u \in Task : (u # IDLE /\ ~ Seen(i + 1, u)) => b.tcb[u].status = "FREE"
    BY <2>5, <2>6, <2>8 DEF OnlyTask
  <2> QED
    BY <2>9, <2>10 DEF P, b
<1>6. P(Len(s))
  <2> HIDE DEF S
  <2>1. Len(s) \in S
    BY <1>2, <1>4, <1>5, Induction
  <2> QED
    BY <1>2, <2>1 DEF S
<1> QED
  BY <1>1, <1>6

\* A listing of tasks or of objects is a list of them without duplicates.
LEMMA ListingIs ==
  ASSUME NEW Os, Os \subseteq Task \/ Os \subseteq Obj, NEW l \in Listings(Os)
  PROVE  l \in Seq(Os) /\ NoDuplicates(l)
<1>1. PICK n \in Nat : Listings(Os) = {m \in [1 .. n -> Os] : NoDuplicates(m)}
  BY ReadyQAssumption, FS_Subset, FS_CardinalityType DEF Listings
<1> QED
  BY <1>1
=============================================================================
