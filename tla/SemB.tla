--------------------------------- MODULE SemB ---------------------------------
(***************************************************************************)
(* semB.c: binary semaphores.  A give frees the semaphore and wakes one    *)
(* waiter, which tries again when it runs: another task may be faster, and *)
(* the waiter then queues at the end with the ticks that it has left.      *)
(***************************************************************************)
EXTENDS Sched

CONSTANT SemBs    \* the binary semaphores

VARIABLES
  semB,      \* owner_tcb and wait_list of every SEM_BIN
  semB_list  \* _G_semB_list

semBVars == <<semB, semB_list>>

SEM_BIN == [owner_tcb : Task \cup {NULL}, wait_list : Seq(Task)]

\* The objects in later are initialised while the system runs.
semB_start(later) ==
  /\ semB = [s \in SemBs |-> [owner_tcb |-> NULL, wait_list |-> << >>]]
  /\ semB_list \in Listings(SemBs \ later)

semB_init(s) ==
  /\ MayCall
  /\ ~ dlist_check(semB_list, s)
  /\ semB' = [semB EXCEPT ![s] = [owner_tcb |-> NULL, wait_list |-> << >>]]
  /\ semB_list' = dlist_add(semB_list, s)
  /\ UNCHANGED schedVars

\* semB_take from the label "again" on.
semB_again(s, timeout) ==
  /\ \/ /\ semB[s].owner_tcb = NULL
        /\ semB' = [semB EXCEPT ![s].owner_tcb = current]
        /\ k' = SetTicks(k, current, 0)
        /\ ctx' = [ctx EXCEPT ![current] = Run]
        /\ UNCHANGED current
     \/ /\ semB[s].owner_tcb # NULL
        /\ timeout = 0
        /\ ctx' = [ctx EXCEPT ![current] = Run]
        /\ UNCHANGED <<k, semB, current>>
     \/ /\ semB[s].owner_tcb # NULL
        /\ timeout # 0
        /\ k' = pend(k, "PEND_SEM_B", s, timeout)
        /\ semB' = [semB EXCEPT ![s].wait_list = dlist_add(@, current)]
        /\ ctx' = [ctx EXCEPT ![current] =
                     [call |-> "semB_take", obj |-> s, msg |-> NULL]]
        /\ SwitchFrom(k')
  /\ UNCHANGED <<delayQ, semB_list>>

semB_take(s, timeout) == MayCall /\ semB_again(s, timeout)

\* Back from CONTEXT_SWITCH: 0 ticks left is a timeout or a flush.
semB_wakeup ==
  /\ ctx[current].call = "semB_take"
  /\ IF k.tcb[current].delay_ticks # 0
     THEN semB_again(ctx[current].obj, k.tcb[current].delay_ticks)
     ELSE /\ ctx' = [ctx EXCEPT ![current] = Run]
          /\ UNCHANGED <<k, delayQ, current, semB, semB_list>>

\* Mutant: the semaphore is free and no waiter is woken.
semB_give_not(s) ==
  /\ MayCall
  /\ semB' = [semB EXCEPT ![s].owner_tcb = NULL]
  /\ UNCHANGED <<k, delayQ, current, ctx, semB_list>>

semB_give(s) ==
  /\ MayCall
  /\ k' = wake_first(k, semB[s].wait_list)
  /\ semB' = [semB EXCEPT ![s].owner_tcb = NULL, ![s].wait_list = rest(@)]
  /\ UNCHANGED <<delayQ, current, ctx, semB_list>>

semB_flush(s) ==
  /\ MayCall
  /\ dlist_check(semB_list, s)
  /\ k' = flushed(k, semB[s].wait_list)
  /\ semB' = [semB EXCEPT ![s] = [owner_tcb |-> NULL, wait_list |-> << >>]]
  /\ UNCHANGED <<delayQ, current, ctx, semB_list>>

\* semB_delete flushes, lets interrupts in, and then unlinks the semaphore.
semB_delete(s) ==
  /\ MayCall
  /\ dlist_check(semB_list, s) /\ ~ Deleting(s)
  /\ k' = flushed(k, semB[s].wait_list)
  /\ semB' = [semB EXCEPT ![s] = [owner_tcb |-> NULL, wait_list |-> << >>]]
  /\ ctx' = [ctx EXCEPT ![current] =
               [call |-> "semB_delete", obj |-> s, msg |-> NULL]]
  /\ UNCHANGED <<delayQ, current, semB_list>>

semB_unlink ==
  /\ ctx[current].call = "semB_delete"
  /\ semB_list' = dlist_remove(semB_list, ctx[current].obj)
  /\ ctx' = [ctx EXCEPT ![current] = Run]
  /\ UNCHANGED <<k, delayQ, current, semB>>

\* For task_delete.
semB_remove(s, t) == [semB EXCEPT ![s].wait_list = dlist_remove(@, t)]

semB_decrease(ks) == lists_tick(ks, semB, semB_list)
=============================================================================
