--------------------------------- MODULE SemC ---------------------------------
(***************************************************************************)
(* semC.c: counting semaphores.  As with semB, a give wakes one waiter and *)
(* the waiter tries again when it runs.                                    *)
(***************************************************************************)
EXTENDS Sched

CONSTANTS
  SemCs,      \* the counting semaphores
  MAX_COUNT   \* the max_count that semC_init gets

ASSUME SemCAssumption == MAX_COUNT \in Nat \ {0}

VARIABLES
  semC,      \* count and wait_list of every SEM_CNT
  semC_list  \* _G_semC_list

semCVars == <<semC, semC_list>>

SEM_CNT == [count : 0 .. MAX_COUNT, wait_list : Seq(Task)]

\* The objects in later are initialised while the system runs.
semC_start(later) ==
  /\ \E n \in [SemCs -> 0 .. MAX_COUNT] :
       /\ \A s \in SemCs \cap later : n[s] = 0
       /\ semC = [s \in SemCs |-> [count |-> n[s], wait_list |-> << >>]]
  /\ semC_list \in Listings(SemCs \ later)

semC_init(s, init_count) ==
  /\ MayCall
  /\ ~ dlist_check(semC_list, s)
  /\ semC' = [semC EXCEPT ![s] = [count |-> init_count, wait_list |-> << >>]]
  /\ semC_list' = dlist_add(semC_list, s)
  /\ UNCHANGED schedVars

\* semC_take from the label "again" on.
semC_again(s, timeout) ==
  /\ \/ /\ semC[s].count > 0
        /\ semC' = [semC EXCEPT ![s].count = @ - 1]
        /\ k' = SetTicks(k, current, 0)
        /\ ctx' = [ctx EXCEPT ![current] = Run]
        /\ UNCHANGED current
     \/ /\ semC[s].count = 0
        /\ timeout = 0
        /\ ctx' = [ctx EXCEPT ![current] = Run]
        /\ UNCHANGED <<k, semC, current>>
     \/ /\ semC[s].count = 0
        /\ timeout # 0
        /\ k' = pend(k, "PEND_SEM_C", s, timeout)
        /\ semC' = [semC EXCEPT ![s].wait_list = dlist_add(@, current)]
        /\ ctx' = [ctx EXCEPT ![current] =
                     [call |-> "semC_take", obj |-> s, msg |-> NULL]]
        /\ SwitchFrom(k')
  /\ UNCHANGED <<delayQ, semC_list>>

semC_take(s, timeout) == MayCall /\ semC_again(s, timeout)

semC_wakeup ==
  /\ ctx[current].call = "semC_take"
  /\ IF k.tcb[current].delay_ticks # 0
     THEN semC_again(ctx[current].obj, k.tcb[current].delay_ticks)
     ELSE /\ ctx' = [ctx EXCEPT ![current] = Run]
          /\ UNCHANGED <<k, delayQ, current, semC, semC_list>>

\* Mutant: a give wakes a waiter only when the count was 0.
semC_give_edge(s) ==
  /\ MayCall
  /\ semC[s].count < MAX_COUNT
  /\ k' = IF semC[s].count = 0 THEN wake_first(k, semC[s].wait_list) ELSE k
  /\ semC' = [semC EXCEPT ![s].count = @ + 1,
                          ![s].wait_list = IF semC[s].count = 0 THEN rest(@) ELSE @]
  /\ UNCHANGED <<delayQ, current, ctx, semC_list>>

\* At max_count the call returns OS_STATUS_ERROR and wakes nobody.
semC_give(s) ==
  /\ MayCall
  /\ IF semC[s].count < MAX_COUNT
     THEN /\ k' = wake_first(k, semC[s].wait_list)
          /\ semC' = [semC EXCEPT ![s].count = @ + 1, ![s].wait_list = rest(@)]
     ELSE UNCHANGED <<k, semC>>
  /\ UNCHANGED <<delayQ, current, ctx, semC_list>>

semC_flush(s) ==
  /\ MayCall
  /\ dlist_check(semC_list, s)
  /\ k' = flushed(k, semC[s].wait_list)
  /\ semC' = [semC EXCEPT ![s] = [count |-> 0, wait_list |-> << >>]]
  /\ UNCHANGED <<delayQ, current, ctx, semC_list>>

\* semC_delete flushes, lets interrupts in, and then unlinks the semaphore.
semC_delete(s) ==
  /\ MayCall
  /\ dlist_check(semC_list, s) /\ ~ Deleting(s)
  /\ k' = flushed(k, semC[s].wait_list)
  /\ semC' = [semC EXCEPT ![s] = [count |-> 0, wait_list |-> << >>]]
  /\ ctx' = [ctx EXCEPT ![current] =
               [call |-> "semC_delete", obj |-> s, msg |-> NULL]]
  /\ UNCHANGED <<delayQ, current, semC_list>>

semC_unlink ==
  /\ ctx[current].call = "semC_delete"
  /\ semC_list' = dlist_remove(semC_list, ctx[current].obj)
  /\ ctx' = [ctx EXCEPT ![current] = Run]
  /\ UNCHANGED <<k, delayQ, current, semC>>

\* For task_delete.
semC_remove(s, t) == [semC EXCEPT ![s].wait_list = dlist_remove(@, t)]

semC_decrease(ks) == lists_tick(ks, semC, semC_list)
=============================================================================
