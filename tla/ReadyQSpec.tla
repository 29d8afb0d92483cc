---------------------------- MODULE ReadyQSpec ----------------------------
(***************************************************************************)
(* The ready queue under every sequence of calls its users make: a task is *)
(* created or woken, blocks or is deleted, is rotated by the tick, and     *)
(* changes its priority on the way (remove, assign, put).                  *)
(***************************************************************************)
EXTENDS ReadyQ

VARIABLE k

Init == k = [readyQ |-> readyQ_init, tcb |-> [t \in Task |-> tcb_free]]

\* task_create, or a wake-up after the priority was assigned off the queue.
Enter(t, p) ==
  /\ k.tcb[t].status # "READY"
  /\ k' = readyQ_put([k EXCEPT !.tcb[t].task_priority = p], t)

\* delayQ_delay, and likewise the other blocking calls.
Leave(t) ==
  /\ k.tcb[t].status = "READY"
  /\ k' = [readyQ_remove(k, t) EXCEPT !.tcb[t].status = "DELAY"]

\* tick_announce (p is the old priority), _up_owner_pri and semM_give.
Move(t, p) ==
  /\ k.tcb[t].status = "READY"
  /\ k' = readyQ_put([readyQ_remove(k, t) EXCEPT !.tcb[t].task_priority = p], t)

Next ==
  \E t \in Task : \/ \E p \in Priority : Enter(t, p) \/ Move(t, p)
                  \/ Leave(t)

Spec == Init /\ [][Next]_k

-----------------------------------------------------------------------------
\* Every field of G_readyQ and of the control blocks stays in its type.
TypeOK == k \in KernelState

\* The two levels of bit maps that readyQ_put and readyQ_remove maintain always
\* agree with the lists, so _readQ_highest_pri finds a list that has a task.
MapsMatchLists == MapsMatch(k.readyQ)

\* A task is linked once, in the list of its current priority, exactly when its
\* status is READY: what readyQ_remove relies on when it unlinks the node.
LinkedOnce == LinkedBut(k, {})

\* highest_tcb, the task that scheduler.S loads, is the first task of the first
\* non-empty list, and NULL only when no task is ready.
HighestIsFirst == Highest(k)
-----------------------------------------------------------------------------
\* The tasks from position i of the list of priority p on; all that are queued;
\* those behind position i when the lists are read in the order of priorities.
From(l, p, i)   == {l[p][j] : j \in i .. Len(l[p])}
Queued(l)       == UNION {From(l, p, 1) : p \in Priority}
Behind(l, p, i) ==
  From(l, p, i + 1) \cup UNION {From(l, q, 1) : q \in {q \in Priority : p < q}}

ReadOrder(l) ==
  UNION {UNION {{l[p][i]} \X Behind(l, p, i) : i \in 1 .. Len(l[p])} : p \in Priority}

Abs == INSTANCE PrioQueue WITH
  queue  <- Queued(k.readyQ.listArray),
  before <- ReadOrder(k.readyQ.listArray),
  pri    <- [t \in Task |-> k.tcb[t].task_priority],
  top    <- k.readyQ.highest_tcb

\* The bit-mapped ready queue implements a queue ordered by priority and, among
\* equals, by arrival: readyQ_put and readyQ_remove never run tasks out of order.
ImplementsPrioQueue == Abs!Init /\ [][UNCHANGED k \/ Abs!Next]_(Abs!vars)
=============================================================================
