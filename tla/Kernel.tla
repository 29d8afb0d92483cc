-------------------------------- MODULE Kernel --------------------------------
(***************************************************************************)
(* The kernel: task.c and tick.c over the scheduler, the semaphores and    *)
(* the message queues.  The tasks call the kernel in any order; the timer  *)
(* interrupt comes whenever interrupts are enabled.                        *)
(***************************************************************************)
EXTENDS SemB, SemC, SemM, MsgQ

LOCAL INSTANCE SequencesExt

CONSTANTS
  StartTasks,  \* the tasks that main() creates besides the idle task
  UserPri,     \* the priorities that tasks are created with
  Timeouts,    \* the timeouts that the tasks use
  Delays,      \* the ticks that the tasks delay for
  Killable,    \* the tasks that task_delete or _task_entry may end
  Later,       \* the objects that are initialised while the system runs
  Disposable   \* the objects that are flushed and deleted

ASSUME KernelAssumption ==
  /\ StartTasks \subseteq Task \ {IDLE}
  /\ UserPri \subseteq 0 .. PRIORITY_NUM_MAX - 2
  /\ Timeouts \subseteq Nat /\ Delays \subseteq Nat
  /\ Killable \subseteq Task \ {IDLE}
  /\ Later \cup Disposable \subseteq Obj /\ Later \cap Disposable = {}
  /\ SemBs \cup SemCs \cup SemMs \cup MsgQs \subseteq Obj

kernelVars == <<schedVars, semBVars, semCVars, semMVars, msgQVars>>

-----------------------------------------------------------------------------
(* task.c.  The control block that _alloc_tcb finds is any free one here;  *)
(* TaskMem.tla models the allocation of control blocks and stacks.         *)

\* The last critical section of task_create.
created(ks, t, p) ==
  readyQ_put([ks EXCEPT !.tcb[t] = [@ EXCEPT !.task_priority = p, !.origin_pri = p,
                                             !.pend_obj = NULL, !.left = "READY"]], t)

task_create(t, p) ==
  /\ MayCall
  /\ k.tcb[t].status = "FREE"
  /\ k' = created(k, t, p)
  /\ ctx' = [ctx EXCEPT ![t] = Run]
  /\ UNCHANGED <<delayQ, current, semBVars, semCVars, semMVars, msgQVars>>

\* _release_tcb of a task whose status is st: the block keeps what it says.
released(ks, t, st) ==
  [ks EXCEPT !.tcb[t] = [@ EXCEPT !.status = "FREE", !.left = st]]

\* task_delete of another task: it leaves the list that its status names and
\* gives its mutexes; its control block is free and keeps its fields.
task_delete(t) ==
  /\ MayCall
  /\ t # current /\ k.tcb[t].status # "FREE"
  /\ LET st == k.tcb[t].status
         o  == k.tcb[t].pend_obj
         k1 == IF st = "READY" THEN readyQ_remove(k, t) ELSE k
         m1 == IF st = "PEND_SEM_M" THEN semM_remove(o, t) ELSE semM
         f  == semM_free(k1, m1, t)
     IN  /\ k' = released(f.k, t, st)
         /\ semM' = f.objs
         /\ delayQ' = IF st = "DELAY" THEN dlist_remove(delayQ, t) ELSE delayQ
         /\ semB' = IF st = "PEND_SEM_B" THEN semB_remove(o, t) ELSE semB
         /\ semC' = IF st = "PEND_SEM_C" THEN semC_remove(o, t) ELSE semC
         /\ msgQ' = IF st \in {"PEND_MSG_S", "PEND_MSG_R"}
                    THEN msgQ_remove(o, t) ELSE msgQ
  /\ UNCHANGED <<current, ctx, semB_list, semC_list, semM_list, msgQ_list>>

\* The entry function of the running task returns: the end of _task_entry, which
\* gives no mutex back.
task_end ==
  /\ MayCall
  /\ k' = released(readyQ_remove(k, current), current, "READY")
  /\ SwitchFrom(k')
  /\ UNCHANGED <<delayQ, ctx, semBVars, semCVars, semMVars, msgQVars>>

\* main(): readyQ_init, the idle task, the others in some order.
start(pri, order) ==
  LET after[i \in 0 .. Len(order)] ==
        IF i = 0
        THEN created([readyQ |-> readyQ_init, tcb |-> [t \in Task |-> tcb_free]],
                     IDLE, PRIORITY_NUM_MAX - 1)
        ELSE created(after[i - 1], order[i], pri[order[i]])
  IN  after[Len(order)]

Init ==
  /\ k \in {start(pri, order) : pri \in [StartTasks -> UserPri],
                                 order \in Listings(StartTasks)}
  /\ delayQ = << >>
  /\ current = k.readyQ.highest_tcb
  /\ ctx = [t \in Task |-> Run]
  /\ semB_start(Later) /\ semC_start(Later)
  /\ semM_start(Later) /\ msgQ_start(Later)

-----------------------------------------------------------------------------
(* tick.c and the timer interrupt.                                         *)

IrqEnabled == ctx[current].call \in {"run", "semB_delete", "semC_delete"}

\* What the routines that tick_announce calls leave, in their order.
ticked ==
  LET b == semB_decrease(k)
      c == semC_decrease(b.k)
      m == semM_decrease(c.k)
      q == msgQ_decrease(m.k)
      d == delayQ_decrease(q.k, delayQ)
  IN  [k |-> rotate(d.k), semB |-> b.objs, semC |-> c.objs, semM |-> m.objs,
       msgQ |-> q.objs, delayQ |-> d.list]

tick_announce ==
  /\ IrqEnabled
  /\ LET r == ticked
     IN  /\ k' = r.k
         /\ semB' = r.semB /\ semC' = r.semC /\ semM' = r.semM
         /\ msgQ' = r.msgQ
         /\ delayQ' = r.delayQ
  /\ SwitchFrom(k')
  /\ UNCHANGED <<ctx, semB_list, semC_list, semM_list, msgQ_list>>

-----------------------------------------------------------------------------
(* What the tasks and the interrupt do.  A task uses the objects that are  *)
(* linked in their list; it gives the mutexes that it owns.                *)

DelayStep ==
  /\ \E n \in Delays : delayQ_delay(n)
  /\ UNCHANGED <<semBVars, semCVars, semMVars, msgQVars>>

SemBStep ==
  /\ \/ \E s \in ToSet(semB_list), n \in Timeouts : semB_take(s, n)
     \/ semB_wakeup
     \/ \E s \in ToSet(semB_list) : semB_give(s)
     \/ \E s \in SemBs \cap Later : semB_init(s)
     \/ \E s \in SemBs \cap Disposable : semB_flush(s) \/ semB_delete(s)
     \/ semB_unlink
  /\ UNCHANGED <<semCVars, semMVars, msgQVars>>

SemCStep ==
  /\ \/ \E s \in ToSet(semC_list), n \in Timeouts : semC_take(s, n)
     \/ semC_wakeup
     \/ \E s \in ToSet(semC_list) : semC_give(s)
     \/ \E s \in SemCs \cap Later, n \in 0 .. MAX_COUNT : semC_init(s, n)
     \/ \E s \in SemCs \cap Disposable : semC_flush(s) \/ semC_delete(s)
     \/ semC_unlink
  /\ UNCHANGED <<semBVars, semMVars, msgQVars>>

SemMStep ==
  /\ \/ \E s \in ToSet(semM_list), n \in Timeouts : semM_take(s, n)
     \/ semM_wakeup
     \/ \E s \in ToSet(semM_list) : semM_give(s)
     \/ \E s \in SemMs \cap Later : semM_init(s)
  /\ UNCHANGED <<semBVars, semCVars, msgQVars>>

MsgQStep ==
  /\ \/ \E q \in ToSet(msgQ_list), m \in Msg, n \in Timeouts : msgQ_send(q, m, n)
     \/ msgQ_send_wakeup
     \/ \E q \in ToSet(msgQ_list), n \in Timeouts : msgQ_receive(q, n)
     \/ msgQ_receive_wakeup
     \/ \E q \in MsgQs \cap Later : msgQ_init(q)
     \/ \E q \in MsgQs \cap Disposable : msgQ_delete(q)
  /\ UNCHANGED <<semBVars, semCVars, semMVars>>

TaskStep ==
  \/ \E t \in Killable, p \in UserPri : task_create(t, p)
  \/ \E t \in Killable : task_delete(t)
  \/ current \in Killable /\ task_end

Next ==
  \/ DelayStep \/ SemBStep \/ SemCStep \/ SemMStep \/ MsgQStep
  \/ TaskStep
  \/ tick_announce

Spec == Init /\ [][Next]_kernelVars
=============================================================================
