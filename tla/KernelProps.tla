----------------------------- MODULE KernelProps -----------------------------
(***************************************************************************)
(* What must be true of the kernel.                                        *)
(***************************************************************************)
EXTENDS Kernel, FiniteSets

Calls == {"run", "semB_take", "semB_delete", "semC_take", "semC_delete",
          "semM_take", "up_owner_pri", "msgQ_send", "msgQ_receive"}

\* Every variable of the kernel stays in its type: counts within their limits,
\* priorities within the ready queue's arrays.
TypeOK ==
  /\ k \in KernelState
  /\ delayQ \in Seq(Task)
  /\ current \in Task
  /\ ctx \in [Task -> [call : Calls, obj : Obj \cup {NULL}, msg : Msg \cup {NULL}]]
  /\ semB \in [SemBs -> SEM_BIN] /\ semB_list \in Seq(SemBs)
  /\ semC \in [SemCs -> SEM_CNT] /\ semC_list \in Seq(SemCs)
  /\ semM \in [SemMs -> SEM_MUX] /\ semM_list \in Seq(SemMs)
  /\ msgQ \in [MsgQs -> MSG_QUE] /\ msgQ_list \in Seq(MsgQs)

\* A task that takes a mutex has met a dead owner in _up_owner_pri, and the lists
\* are no longer what they were.
Astray == ctx[current].call = "up_owner_pri"

-----------------------------------------------------------------------------
(* Tasks and lists.                                                        *)

\* The list holds, once each, the tasks with this status and pend_obj.
Holds(list, st, obj) ==
  /\ NoDuplicates(list)
  /\ \A t \in Task : dlist_check(list, t)
                       <=> k.tcb[t].status = st /\ k.tcb[t].pend_obj = obj

\* The object that a waiting task names is of the kind that its status says.
PendObjOfKind ==
  \A t \in Task :
    LET st == k.tcb[t].status
        o  == k.tcb[t].pend_obj
    IN  /\ st = "DELAY" => o = NULL
        /\ st = "PEND_SEM_B" => o \in SemBs
        /\ st = "PEND_SEM_C" => o \in SemCs
        /\ st = "PEND_SEM_M" => o \in SemMs
        /\ st \in {"PEND_MSG_S", "PEND_MSG_R"} => o \in MsgQs

\* Every task is linked in exactly the list that its status and its pend_obj
\* name.  The running task is ready, and so is the idle task.
TasksLinked ==
  /\ k.tcb[current].status = "READY" /\ k.tcb[IDLE].status = "READY"
  /\ MapsMatch(k.readyQ) /\ LinkedBut(k, {}) /\ Highest(k)
  /\ PendObjOfKind
  /\ Holds(delayQ, "DELAY", NULL)
  /\ \A s \in SemBs : Holds(semB[s].wait_list, "PEND_SEM_B", s)
  /\ \A s \in SemCs : Holds(semC[s].wait_list, "PEND_SEM_C", s)
  /\ \A s \in SemMs : Holds(semM[s].wait_list, "PEND_SEM_M", s)
  /\ \A q \in MsgQs : /\ Holds(msgQ[q].wait_send_list, "PEND_MSG_S", q)
                      /\ Holds(msgQ[q].wait_recv_list, "PEND_MSG_R", q)

\* task_delete and the ticks unlink a task from the list that its status and its
\* pend_obj name without looking, tick_announce unlinks the running task from its
\* ready list, and LSB is never called with 0.  Only _up_owner_pri breaks this,
\* when the owner of the mutex is dead.
EachTaskInItsQueue == ~ Astray => TasksLinked

\* No waiting task has 0 ticks left: wait_to_ready and _delay_to_ready would
\* count it down to 0xffffffff and never wake it.
WaitersHaveTicks ==
  \A t \in Task : k.tcb[t].status \notin {"READY", "FREE"}
                    => k.tcb[t].delay_ticks > 0

\* A task that waits with a timeout waits on an object that the tick visits.
WaitersAreTicked ==
  \A t \in Task :
    /\ k.tcb[t].status = "PEND_SEM_B" => dlist_check(semB_list, k.tcb[t].pend_obj)
    /\ k.tcb[t].status = "PEND_SEM_C" => dlist_check(semC_list, k.tcb[t].pend_obj)
    /\ k.tcb[t].status = "PEND_SEM_M" => dlist_check(semM_list, k.tcb[t].pend_obj)
    /\ k.tcb[t].status \in {"PEND_MSG_S", "PEND_MSG_R"}
         => dlist_check(msgQ_list, k.tcb[t].pend_obj)

-----------------------------------------------------------------------------
(* Wake-ups.                                                               *)

\* The tasks that were woken in this call on obj, not by the clock, and have
\* not run since.
Woken(call, obj) ==
  {t \in Task : /\ ctx[t].call = call /\ ctx[t].obj = obj
                /\ k.tcb[t].status = "READY" /\ k.tcb[t].delay_ticks # 0}

\* While tasks wait, every unit of the resource is on its way to a woken task:
\* semB_give, semC_give, msgQ_send and msgQ_receive wake one task for each.
WakeupsPending ==
  /\ \A s \in SemBs : (semB[s].wait_list # << >> /\ semB[s].owner_tcb = NULL)
                         => Woken("semB_take", s) # {}
  /\ \A s \in SemCs : semC[s].wait_list # << >>
                         => Cardinality(Woken("semC_take", s)) >= semC[s].count
  /\ \A q \in MsgQs :
       /\ msgQ[q].wait_recv_list # << >>
            => Cardinality(Woken("msgQ_receive", q)) >= msgQ[q].cur_num
       /\ msgQ[q].wait_send_list # << >>
            => Cardinality(Woken("msgQ_send", q)) >= MAX_NUM - msgQ[q].cur_num

\* A wake-up is lost only by task_delete of a task that was woken and had not
\* run: semB_give, semC_give and the message queues never lose one.
WakeupLostOnlyByDelete ==
  [][(WakeupsPending /\ ~ WakeupsPending' /\ ~ Astray') =>
       \E t \in Task : /\ k.tcb[t].status = "READY" /\ ctx[t] # Run
                       /\ k'.tcb[t].status = "FREE"]_kernelVars

\* cur_num is the number of linked messages: msgQ_receive trusts it when it
\* copies from the node that dlist_get returns.
CountMatchesMessages ==
  \A q \in MsgQs : dlist_check(msgQ_list, q)
                     => msgQ[q].cur_num = Len(msgQ[q].msg_list)

-----------------------------------------------------------------------------
(* Mutexes.                                                                *)

\* A task woken in semM_take with ticks left reports success: it then owns the
\* mutex, as the comment in semM_take says.
WokenTakerOwns ==
  \A s \in SemMs : \A t \in Woken("semM_take", s) : semM[s].owner_tcb = t

\* task_delete leaves no mutex to the control block that it releases: "when task
\* delete, free all the semMs the task taked" (semM.c:266), "if do, give it"
\* (semM.c:244).
DeletedOwnsNothing ==
  [][\A t \in Task :
       (t # current /\ k.tcb[t].status # "FREE" /\ k'.tcb[t].status = "FREE")
         => \A s \in SemMs : dlist_check(semM_list, s) => semM'[s].owner_tcb # t]_kernelVars

\* Priority inheritance: the owner of a mutex is at least as important as every
\* task that waits for it (_up_owner_pri, and semM_give when it lowers itself).
OwnerInherits ==
  \A s \in SemMs : \A i \in 1 .. Len(semM[s].wait_list) :
    k.tcb[semM[s].owner_tcb].task_priority <= k.tcb[semM[s].wait_list[i]].task_priority

\* A task runs above its own priority only while it owns a mutex.
BoostOnlyWhileOwning ==
  \A t \in Task : (k.tcb[t].status # "FREE" /\ k.tcb[t].task_priority # k.tcb[t].origin_pri)
                    => \E s \in SemMs : semM[s].owner_tcb = t

\* The wait list of a mutex is in priority order, "[BEGIN] 1-->3-->8-...->255
\* [END]" (semM.c:329): semM_give and _update_wait_pri look at its first task.
WaitListSorted ==
  \A s \in SemMs : \A i, j \in 1 .. Len(semM[s].wait_list) :
    i < j => k.tcb[semM[s].wait_list[i]].task_priority
               <= k.tcb[semM[s].wait_list[j]].task_priority

\* semM_give by a task that took the mutex once (take_count 1, or 0 when the
\* mutex was handed over to it) releases the mutex.
GiveReleases ==
  [][\A s \in SemMs :
       (semM[s].take_count \in {0, 1} /\ semM'[s].take_count # semM[s].take_count
          /\ semM[s].owner_tcb = current /\ Running
          /\ semM'[s].take_count # semM[s].take_count + 1)
         => semM'[s].owner_tcb # current]_kernelVars

-----------------------------------------------------------------------------
(* Time.                                                                   *)

Waits(t) == /\ k.tcb[t].status \notin {"READY", "FREE"}
            /\ k.tcb[t].delay_ticks # WAIT_FOREVER

\* A tick changes something: ENABLED <<tick_announce>>_kernelVars.
TickMatters ==
  LET r == ticked
  IN  /\ IrqEnabled
      /\ \/ r # [k |-> k, semB |-> semB, semC |-> semC, semM |-> semM,
                 msgQ |-> msgQ, delayQ |-> delayQ]
         \/ r.k.readyQ.highest_tcb # current

\* The timer keeps ticking, and an interrupt that comes while interrupts are
\* masked stays pending until they are not: SF_kernelVars(tick_announce), with
\* the condition that enables it written out.  A task that is loaded inside a
\* kernel call goes on, for the processor can do nothing else.
Fairness ==
  /\ []<>TickMatters => []<><<tick_announce>>_kernelVars
  /\ WF_kernelVars(~ IrqEnabled /\ Next)

FairSpec == Spec /\ Fairness

\* A delay and a wait with a timeout end.
TimedWaitEnds ==
  \A t \in Task : Waits(t) ~> k.tcb[t].status \in {"READY", "FREE"}

\* No ready task is more important than t.
AtTop(t) ==
  /\ k.tcb[t].status = "READY"
  /\ k.tcb[t].task_priority = k.tcb[k.readyQ.highest_tcb].task_priority

\* Round robin: of the most important ready tasks each one gets the processor,
\* because tick_announce puts the running task behind its equals.
EqualsTakeTurns ==
  \A t \in Task : AtTop(t) ~> (current = t \/ ~ AtTop(t))
=============================================================================
