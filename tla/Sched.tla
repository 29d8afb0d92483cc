-------------------------------- MODULE Sched --------------------------------
(***************************************************************************)
(* The scheduler: the running task, the delay queue (delayQ.c), the switch *)
(* to the highest ready task (scheduler.S) and the walk of a tick over a   *)
(* list of waiting tasks (dlist_each with wait_to_ready or _delay_to_ready)*)
(*                                                                         *)
(* There is one processor, and a critical section masks the interrupts:    *)
(* what a call does between CPU_LOCK and CPU_UNLOCK is one step, except    *)
(* that a call that blocks is cut by CONTEXT_SWITCH.  ctx[t] says where t  *)
(* goes on when it is loaded again; until then its interrupts are masked.  *)
(***************************************************************************)
EXTENDS ReadyQ

LOCAL INSTANCE FiniteSetsExt

CONSTANTS
  IDLE,          \* the task of T_idle: lowest priority, never blocks
  WAIT_FOREVER   \* 0xffffffff, the timeout that no tick decreases

ASSUME SchedAssumption == IDLE \in Task /\ WAIT_FOREVER \in Nat \ {0}

VARIABLES
  k,        \* the ready queue and the control blocks
  delayQ,   \* _G_delayQ
  current,  \* G_p_current_tcb
  ctx       \* the call in which a task is suspended, or Run

schedVars == <<k, delayQ, current, ctx>>

Run == [call |-> "run", obj |-> NULL, msg |-> NULL]

\* The running task executes code of its own, with interrupts enabled.
Running == ctx[current] = Run

\* It may call the kernel; T_idle is an empty loop.
MayCall == Running /\ current # IDLE

\* A task is between the two critical sections that delete obj.
Deleting(obj) ==
  \E t \in Task : ctx[t].obj = obj /\ ctx[t].call \in {"semB_delete", "semC_delete"}

SwitchFrom(ks) == current' = ks.readyQ.highest_tcb

-----------------------------------------------------------------------------
(* What the calls that block have in common.                               *)

\* Mutant: delay_ticks is not set.
pend_ticks(ks, st, obj, ticks) ==
  [readyQ_remove(ks, current) EXCEPT !.tcb[current].status = st,
                                     !.tcb[current].pend_obj = obj]

\* The running task leaves the ready queue to wait for obj or for a delay.
pend(ks, st, obj, ticks) ==
  [readyQ_remove(ks, current) EXCEPT
     !.tcb[current] = [@ EXCEPT !.delay_ticks = ticks, !.status = st, !.pend_obj = obj]]

SetTicks(ks, t, n) == [ks EXCEPT !.tcb[t].delay_ticks = n]

\* Mutant: tested before it is counted down, the last tick never ends.
delay_left_late(n) == IF n = 1 THEN n ELSE n - 1

\* What is left of delay_ticks after a tick, in a wait list and in delayQ.
wait_left(n)  == IF n = WAIT_FOREVER THEN n ELSE n - 1
delay_left(n) == n - 1

waits_left(ks)  == [t \in Task |-> wait_left(ks.tcb[t].delay_ticks)]
delays_left(ks) == [t \in Task |-> delay_left(ks.tcb[t].delay_ticks)]

\* dlist_each over the waiting tasks s.  The routine counts a task down and, at
\* 0, moves it to the end of a ready list; its next pointer is then NULL, which
\* ends the walk: the tasks behind it are not counted down in this tick.  left[t]
\* is what the routine leaves of t's delay_ticks.
each_tick(ks, s, left) ==
  LET due  == {i \in 1 .. Len(s) : left[s[i]] = 0}
      last == IF due = {} THEN Len(s) ELSE Min(due)
      seen == {s[i] : i \in 1 .. last}
      k1   == [ks EXCEPT !.tcb =
                 [t \in Task |->
                    IF t \in seen
                    THEN [ks.tcb[t] EXCEPT !.delay_ticks = left[t]]
                    ELSE ks.tcb[t]]]
  IN  IF due = {} THEN [k |-> k1, list |-> s]
      ELSE [k |-> readyQ_put(k1, s[last]), list |-> dlist_remove(s, s[last])]

\* The tick walks the wait list of one semaphore o of a.objs.
list_tick(a, o) ==
  LET e == each_tick(a.k, a.objs[o].wait_list, waits_left(a.k))
  IN  [k |-> e.k, objs |-> [a.objs EXCEPT ![o].wait_list = e.list]]

\* The tick walks the wait lists of the semaphores objs in the order of list.
lists_tick(ks, objs, list) ==
  LET after[i \in 0 .. Len(list)] ==
        IF i = 0 THEN [k |-> ks, objs |-> objs] ELSE list_tick(after[i - 1], list[i])
  IN  after[Len(list)]

flush_one(ks, t) == readyQ_put(SetTicks(ks, t, 0), t)

\* Mutant: the tasks are unlinked and not woken.
flushed_not(ks, s) == ks

\* Every task of the wait list s is woken with 0 ticks left.
flushed(ks, s) ==
  LET after[i \in 0 .. Len(s)] ==
        IF i = 0 THEN ks ELSE flush_one(after[i - 1], s[i])
  IN  after[Len(s)]

\* Mutant: the waiter is woken and stays linked.
rest_stays(s) == s

\* A task that a blocking call removed from list s: dlist_get, then readyQ_put.
wake_first(ks, s) == IF DL_EMPTY(s) THEN ks ELSE readyQ_put(ks, DL_FIRST(s))
rest(s)           == IF DL_EMPTY(s) THEN s ELSE dlist_rest(s)

-----------------------------------------------------------------------------
(* delayQ.c                                                                *)

delayQ_delay(ticks) ==
  /\ MayCall
  /\ IF ticks = 0
     THEN /\ k' = readyQ_put(readyQ_remove(k, current), current)
          /\ UNCHANGED delayQ
     ELSE /\ k' = pend(k, "DELAY", NULL, ticks)
          /\ delayQ' = dlist_add(delayQ, current)
  /\ SwitchFrom(k')
  /\ UNCHANGED ctx

delayQ_decrease(ks, s) == each_tick(ks, s, delays_left(ks))

\* Mutant: the tick does not rotate.
rotate_not(ks) == ks

\* The end of tick_announce: the running task goes behind its equals, and
\* timer_isr loads the highest task.
rotate(ks) == readyQ_put(readyQ_remove(ks, current), current)
=============================================================================
