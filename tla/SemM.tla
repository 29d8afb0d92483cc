--------------------------------- MODULE SemM ---------------------------------
(***************************************************************************)
(* semM.c: recursive mutexes with priority inheritance.  A give hands the  *)
(* mutex to its first waiter; the wait list is kept in priority order when *)
(* a task enters it.                                                       *)
(***************************************************************************)
EXTENDS Sched

LOCAL INSTANCE FiniteSetsExt
LOCAL INSTANCE SequencesExt
LOCAL INSTANCE FiniteSets

CONSTANTS
  SemMs,      \* the mutexes
  UINT,       \* take_count counts modulo UINT: 2^32 in the code
  MaxTake     \* bound: nested takes that the tasks make

ASSUME SemMAssumption ==
  UINT \in Nat /\ MaxTake \in Nat /\ MaxTake + 1 < UINT

VARIABLES
  semM,      \* owner_tcb, take_count, wait_pri, wait_list of every SEM_MUX
  semM_list  \* _G_semM_list

semMVars == <<semM, semM_list>>

LOWEST == PRIORITY_NUM_MAX - 1    \* 255

SEM_MUX == [owner_tcb : Task \cup {NULL}, take_count : 0 .. UINT - 1,
            wait_pri : Priority, wait_list : Seq(Task)]

semM_new == [owner_tcb |-> NULL, take_count |-> 0, wait_pri |-> LOWEST,
             wait_list |-> << >>]

\* The objects in later are initialised while the system runs.
semM_start(later) ==
  /\ semM = [s \in SemMs |-> semM_new]
  /\ semM_list \in Listings(SemMs \ later)

\* Mutant: the waiters queue in the order in which they come.
sort_pri_put_fifo(ks, s, t) == dlist_add(s, t)

\* _sort_pri_put: before the first task that is not more important than t.
sort_pri_put(ks, s, t) ==
  LET behind == {i \in 1 .. Len(s) :
                   ks.tcb[s[i]].task_priority >= ks.tcb[t].task_priority}
  IN  IF \/ DL_EMPTY(s)
         \/ ks.tcb[Last(s)].task_priority < ks.tcb[t].task_priority
      THEN dlist_add(s, t)
      ELSE dlist_insert(s, Min(behind) - 1, t)

\* The field status of a control block, which the release of the block leaves as
\* it was.
status_of(tcb) == IF tcb.status = "FREE" THEN tcb.left ELSE tcb.status

\* One call of _up_owner_pri for mutex a.s: an owner that is less important than p
\* gets p; one that is ready moves to the end of that ready list, one that pends
\* stays where it is in its wait list, and for one that pends on a mutex the
\* function calls itself.  An owner that was deleted or has ended is treated by
\* what its block says.  One that waited for a mutex hands the call on to it; that
\* mutex may have no owner by now, and the function reads through NULL.  One that
\* was ready is unlinked from the ready queue, where it is not, and linked: what
\* its old links make of the queue ("otherwise destory the list", dlist.c:70) is
\* not modelled, only that it is linked again.  Both end with ok = FALSE.
up_owner_pri(a, p) ==
  LET m    == a.objs[a.s]
      o    == m.owner_tcb
      b    == a.k.tcb[o]
      up   == b.task_priority > p
      dead == up /\ b.status = "FREE" /\ b.left = "READY"
      k1   == IF b.status = "READY" THEN readyQ_remove(a.k, o) ELSE a.k
      k2   == [k1 EXCEPT !.tcb[o].task_priority = p]
  IN  IF a.s \notin SemMs THEN a
      ELSE IF o = NULL THEN [a EXCEPT !.s = NULL, !.ok = FALSE]
      ELSE [k    |-> IF ~ up THEN a.k
                     ELSE IF b.status = "READY" THEN readyQ_put(k2, o)
                     ELSE IF dead THEN [readyQ_put(k2, o) EXCEPT !.tcb[o].status = "FREE"]
                     ELSE k2,
            objs |-> IF p < m.wait_pri THEN [a.objs EXCEPT ![a.s].wait_pri = p] ELSE a.objs,
            s    |-> IF up /\ status_of(b) = "PEND_SEM_M" THEN b.pend_obj ELSE NULL,
            ok   |-> a.ok /\ ~ dead]

\* A call that goes on has raised an owner, so the recursion ends.
MaxCalls == Cardinality(Task) + 1

\* Mutant: the owner keeps its priority.
raised_not(ks, s, p) == [k |-> ks, objs |-> semM, s |-> NULL, ok |-> TRUE]

\* _up_owner_pri for mutex s and a task of priority p that is to wait for it.
raised(ks, s, p) ==
  LET after[n \in 0 .. MaxCalls] ==
        IF n = 0 THEN [k |-> ks, objs |-> semM, s |-> s, ok |-> TRUE]
        ELSE up_owner_pri(after[n - 1], p)
  IN  after[MaxCalls]

semM_init(s) ==
  /\ MayCall
  /\ ~ dlist_check(semM_list, s)
  /\ semM' = [semM EXCEPT ![s] = semM_new]
  /\ semM_list' = dlist_add(semM_list, s)
  /\ UNCHANGED schedVars

\* What follows the call of _up_owner_pri that worked on a dead block is not
\* modelled: the task stays in it and the system stops.
semM_take(s, timeout) ==
  /\ MayCall
  /\ \/ /\ semM[s].owner_tcb = NULL
        /\ semM' = [semM EXCEPT ![s].owner_tcb = current, ![s].take_count = 1]
        /\ UNCHANGED <<k, current, ctx>>
     \/ /\ semM[s].owner_tcb = current
        /\ semM[s].take_count < MaxTake \/ semM[s].take_count = UINT - 1
        /\ semM' = [semM EXCEPT ![s].take_count = (@ + 1) % UINT]
        /\ UNCHANGED <<k, current, ctx>>
     \/ /\ semM[s].owner_tcb \notin {NULL, current}
        /\ timeout = 0
        /\ UNCHANGED <<k, semM, current, ctx>>
     \/ /\ semM[s].owner_tcb \notin {NULL, current}
        /\ timeout # 0
        /\ LET r  == raised(k, s, k.tcb[current].task_priority)
               k1 == pend(r.k, "PEND_SEM_M", s, timeout)
           IN  \/ /\ r.ok
                  /\ k' = k1
                  /\ semM' = [r.objs EXCEPT ![s].wait_list = sort_pri_put(k1, @, current)]
                  /\ ctx' = [ctx EXCEPT ![current] =
                               [call |-> "semM_take", obj |-> s, msg |-> NULL]]
                  /\ SwitchFrom(k')
               \/ /\ ~ r.ok
                  /\ k' = r.k /\ semM' = r.objs
                  /\ ctx' = [ctx EXCEPT ![current] =
                               [call |-> "up_owner_pri", obj |-> s, msg |-> NULL]]
                  /\ UNCHANGED current
  /\ UNCHANGED <<delayQ, semM_list>>

\* Back from CONTEXT_SWITCH: OK if ticks are left, for the giver made the task
\* the owner, ERROR after a timeout.
semM_wakeup ==
  /\ ctx[current].call = "semM_take"
  /\ k' = SetTicks(k, current, 0)
  /\ ctx' = [ctx EXCEPT ![current] = Run]
  /\ UNCHANGED <<delayQ, current, semM, semM_list>>

\* _update_wait_pri
update_wait_pri(ks, m) ==
  [m EXCEPT !.wait_pri = IF DL_EMPTY(m.wait_list) THEN LOWEST
                         ELSE ks.tcb[DL_FIRST(m.wait_list)].task_priority]

\* Mutant: the owner is not assigned.
handed_not(ks, m, owner) == update_wait_pri(ks, [m EXCEPT !.wait_list = dlist_rest(@)])

\* The mutex after its first waiter was taken from the list.
handed(ks, m, owner) ==
  update_wait_pri(ks, [m EXCEPT !.owner_tcb = owner, !.wait_list = dlist_rest(@)])

\* Mutant: the mutexes of the other tasks count, too.
get_highest_wait_pri_all(ms) ==
  Min({LOWEST} \cup {ms[m].wait_pri : m \in ToSet(semM_list)})

\* _get_highest_wait_pri of the mutexes ms, for the running task.
get_highest_wait_pri(ms) ==
  Min({LOWEST} \cup {ms[m].wait_pri : m \in {m \in ToSet(semM_list) :
                                                ms[m].owner_tcb = current}})

\* The tasks give what they own.
semM_give(s) ==
  /\ MayCall
  /\ semM[s].owner_tcb = current
  /\ semM[s].take_count \in 0 .. MaxTake
  /\ LET m    == [semM[s] EXCEPT !.take_count = (@ - 1) % UINT]
         list == m.wait_list
         k1   == wake_first(k, list)
         ms   == [semM EXCEPT ![s] =
                    IF DL_EMPTY(list) THEN [m EXCEPT !.owner_tcb = NULL]
                    ELSE handed(k1, m, DL_FIRST(list))]
         pri  == Min({get_highest_wait_pri(ms), k.tcb[current].origin_pri})
         low  == [readyQ_remove(k1, current) EXCEPT !.tcb[current].task_priority = pri]
     IN  IF m.take_count # 0
         THEN /\ semM' = [semM EXCEPT ![s] = m]
              /\ UNCHANGED <<k, current>>
         ELSE /\ semM' = ms
              /\ IF pri > k.tcb[current].task_priority
                 THEN k' = readyQ_put(low, current) /\ SwitchFrom(k')
                 ELSE k' = k1 /\ UNCHANGED current
  /\ UNCHANGED <<delayQ, ctx, semM_list>>

\* Mutant: task_delete leaves the task in the wait list.
semM_remove_not(s, t) == semM

\* For task_delete: semM_remove, then semM_free.
semM_remove(s, t) ==
  [semM EXCEPT ![s] = update_wait_pri(k, [semM[s] EXCEPT !.wait_list = dlist_remove(@, t)])]

\* _free_semM of one mutex: the first waiter becomes ready, not the owner.
free_one(a, s, t) ==
  LET m == [a.objs[s] EXCEPT !.take_count = 0]
      list == m.wait_list
  IN  IF m.owner_tcb # t THEN a
      ELSE [k |-> wake_first(a.k, list),
            objs |-> [a.objs EXCEPT ![s] =
                        IF DL_EMPTY(list) THEN [m EXCEPT !.owner_tcb = NULL]
                        ELSE handed(a.k, m, t)]]

semM_free(ks, ms, t) ==
  LET after[i \in 0 .. Len(semM_list)] ==
        IF i = 0 THEN [k |-> ks, objs |-> ms]
        ELSE free_one(after[i - 1], semM_list[i], t)
  IN  after[Len(semM_list)]

semM_decrease(ks) == lists_tick(ks, semM, semM_list)
=============================================================================
