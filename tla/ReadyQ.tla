------------------------------- MODULE ReadyQ -------------------------------
(***************************************************************************)
(* readyQ.c: the ready queue.  A task list for every priority (0 is the    *)
(* highest), a bit for every non-empty list, a bit for every group of      *)
(* priorities that has a bit set, and the cached highest task.             *)
(*                                                                         *)
(* A kernel state k is a record: k.readyQ is G_readyQ, k.tcb the fields of *)
(* the task control blocks.  The operations are functions of k, so that    *)
(* the kernel calls that chain several of them are one step.               *)
(***************************************************************************)
EXTENDS Integers, Sequences, FiniteSets, ListSeq

CONSTANTS
  Task,              \* the task control blocks
  Obj,               \* the semaphores and message queues a task may pend on
  NULL,              \* the null pointer
  PRIORITY_NUM_MAX,  \* number of priorities: 256 in readyQ.c
  GROUP              \* bits of a bMap word: 32 in readyQ.c

ASSUME ReadyQAssumption ==
  /\ IsFiniteSet(Task) /\ IsFiniteSet(Obj)
  /\ NULL \notin Task \cup Obj
  /\ GROUP \in Nat \ {0}
  /\ PRIORITY_NUM_MAX \in Nat \ {0}
  /\ PRIORITY_NUM_MAX % GROUP = 0

Priority == 0 .. PRIORITY_NUM_MAX - 1
Group    == 0 .. (PRIORITY_NUM_MAX \div GROUP) - 1
Bit      == 0 .. GROUP - 1

GroupOf(p) == p \div GROUP        \* priority >> 5
BitOf(p)   == p % GROUP           \* priority & 0x1f

\* The status of a task; FREE stands for a control block that is not in use (its
\* bit of _G_tcb_map is set).
Status == {"FREE", "READY", "DELAY", "PEND_SEM_M", "PEND_SEM_B", "PEND_SEM_C",
           "PEND_MSG_S", "PEND_MSG_R"}

\* The fields of OS_TCB that the kernel decides on (its links are the lists).
OS_TCB == [task_priority : Priority,
           origin_pri    : Priority,
           delay_ticks   : Nat,
           status        : Status,
           pend_obj      : Obj \cup {NULL},
           left          : Status]  \* what the field status of a FREE block says

\* A block of the static array _G_tcb that was never used: status 0 is READY.
tcb_free == [task_priority |-> 0, origin_pri |-> 0, delay_ticks |-> 0,
             status |-> "FREE", pend_obj |-> NULL, left |-> "READY"]

READY_QUEUE == [highest_tcb : Task \cup {NULL},
                metaBMap    : SUBSET Group,
                bMap        : [Group -> SUBSET Bit],
                listArray   : [Priority -> Seq(Task)]]

KernelState == [readyQ : READY_QUEUE, tcb : [Task -> OS_TCB]]

\* G_readyQ is zeroed memory, and readyQ_init empties the lists.
readyQ_init == [highest_tcb |-> NULL,
                metaBMap    |-> {},
                bMap        |-> [g \in Group |-> {}],
                listArray   |-> [p \in Priority |-> << >>]]

\* The lowest 1 bit of a word that is not 0.
LSB(bits) == CHOOSE i \in bits : \A j \in bits : i <= j

\* _readQ_highest_pri with a bit set.  With none left LSB(0) is -1, and the
\* reads below the arrays find the zero words metaBMap and bMap[6]: NULL.
readyQ_highest_pri(q) ==
  GROUP * LSB(q.metaBMap) + LSB(q.bMap[LSB(q.metaBMap)])

readyQ_first(q) ==
  IF q.metaBMap = {} THEN NULL
                     ELSE DL_FIRST(q.listArray[readyQ_highest_pri(q)])

\* Mutant: a task of the same priority displaces the highest one.
put_highest_le(k, t) ==
  IF \/ k.readyQ.highest_tcb = NULL
     \/ k.tcb[t].task_priority <= k.tcb[k.readyQ.highest_tcb].task_priority
  THEN t ELSE k.readyQ.highest_tcb

put_highest(k, t) ==
  IF \/ k.readyQ.highest_tcb = NULL
     \/ k.tcb[t].task_priority < k.tcb[k.readyQ.highest_tcb].task_priority
  THEN t ELSE k.readyQ.highest_tcb

readyQ_put(k, t) ==
  LET q == k.readyQ
      p == k.tcb[t].task_priority
  IN  [k EXCEPT
         !.readyQ =
           [highest_tcb |-> put_highest(k, t),
            metaBMap    |-> q.metaBMap \cup {GroupOf(p)},
            bMap        |-> [q.bMap EXCEPT ![GroupOf(p)] = @ \cup {BitOf(p)}],
            listArray   |-> [q.listArray EXCEPT ![p] = dlist_add(@, t)]],
         !.tcb[t].status = "READY",
         !.tcb[t].pend_obj = NULL]

\* The list of priority p has become empty.
clear_maps(q, p) ==
  LET bits == q.bMap[GroupOf(p)] \ {BitOf(p)}
  IN  [q EXCEPT !.bMap[GroupOf(p)] = bits,
                !.metaBMap = IF bits = {} THEN @ \ {GroupOf(p)} ELSE @]

readyQ_remove(k, t) ==
  LET p     == k.tcb[t].task_priority
      pList == dlist_remove(k.readyQ.listArray[p], t)
      q     == [k.readyQ EXCEPT !.listArray[p] = pList]
      r     == IF DL_EMPTY(pList) THEN clear_maps(q, p) ELSE q
  IN  [k EXCEPT !.readyQ =
         [r EXCEPT !.highest_tcb =
            IF t # @ THEN @
            ELSE IF DL_EMPTY(pList) THEN readyQ_first(r) ELSE DL_FIRST(pList)]]
-----------------------------------------------------------------------------
\* The two levels of bit maps agree with the lists: a bit for every list that is
\* not empty, a bit for every word that is not 0.
MapsMatch(q) ==
  /\ \A p \in Priority :
       BitOf(p) \in q.bMap[GroupOf(p)] <=> Len(q.listArray[p]) > 0
  /\ \A g \in Group : g \in q.metaBMap <=> q.bMap[g] # {}

\* A task is linked once, in the list of its current priority, exactly when its
\* status is READY; the tasks of Off are between a remove and a put.
LinkedBut(k, Off) ==
  \A p \in Priority :
    /\ NoDuplicates(k.readyQ.listArray[p])
    /\ \A t \in Task :
         dlist_check(k.readyQ.listArray[p], t)
           <=> /\ t \notin Off
               /\ k.tcb[t].status = "READY"
               /\ k.tcb[t].task_priority = p

\* highest_tcb is the first task of the first list that is not empty, and NULL
\* when all are.
Highest(k) ==
  IF k.readyQ.highest_tcb = NULL
  THEN \A p \in Priority : Len(k.readyQ.listArray[p]) = 0
  ELSE LET h == k.tcb[k.readyQ.highest_tcb].task_priority
       IN  /\ Len(k.readyQ.listArray[h]) > 0
           /\ k.readyQ.listArray[h][1] = k.readyQ.highest_tcb
           /\ \A p \in Priority : p < h => Len(k.readyQ.listArray[p]) = 0
=============================================================================
