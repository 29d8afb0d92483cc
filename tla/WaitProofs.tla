------------------------------ MODULE WaitProofs -----------------------------
(***************************************************************************)
(* What the mutexes promise: who owns a mutex, who runs above its own      *)
(* priority, and in which order the tasks wait.  And wake-ups: while tasks *)
(* wait, every unit of the resource they wait for is on its way to a task  *)
(* that was woken.                                                         *)
(***************************************************************************)
EXTENDS KernelProofs

LOCAL INSTANCE FiniteSetsExt
LOCAL INSTANCE SequencesExt

-----------------------------------------------------------------------------
(* Most steps leave the mutexes, their owners and the order of their       *)
(* waiters alone.                                                          *)

\* From ks to n, with cur running: nobody's priority changed, nobody was created
\* or died, nobody else began
\* to wait, nobody to wait for a mutex, who ceased to has no ticks left, and the
\* other ready tasks are ready with their ticks.
Calm(ks, n, cur) ==
  \A t \in Task :
    /\ SamePriority(ks, n, t)
    /\ ks.tcb[t].status = "FREE" <=> n.tcb[t].status = "FREE"
    /\ n.tcb[t].status = "PEND_SEM_M" => /\ ks.tcb[t].status = "PEND_SEM_M"
                                         /\ ks.tcb[t].pend_obj = n.tcb[t].pend_obj
    /\ (ks.tcb[t].status = "PEND_SEM_M" /\ n.tcb[t].status # "PEND_SEM_M")
         => n.tcb[t].status = "READY" /\ n.tcb[t].delay_ticks = 0
    /\ (ks.tcb[t].status = "READY" /\ t # cur)
         => /\ n.tcb[t].status = "READY"
            /\ n.tcb[t].delay_ticks = ks.tcb[t].delay_ticks
    /\ (n.tcb[t].status \notin {"READY", "FREE"} /\ t # cur)
         => /\ n.tcb[t].status = ks.tcb[t].status
            /\ n.tcb[t].pend_obj = ks.tcb[t].pend_obj

\* The running task is not in semM_take, and no other task enters it.
StaysOut(c, d, cur) ==
  \A t \in Task : d[t].call = "semM_take" => t # cur /\ d[t] = c[t]

Quiet ==
  /\ Calm(k, k', current) /\ StaysOut(ctx, ctx', current)
  /\ \A x : dlist_check(semM_list, x) => dlist_check(semM_list', x)
  /\ \A x \in SemMs : /\ semM'[x].owner_tcb = semM[x].owner_tcb
                      /\ InOrder(semM[x].wait_list, semM'[x].wait_list)
                      /\ \/ semM'[x].wait_pri = semM[x].wait_pri
                         \/ semM'[x].wait_list = << >>

LEMMA CalmSame ==
  ASSUME NEW ks, NEW cur
  PROVE  Calm(ks, ks, cur)
  BY DEF Calm, SamePriority

\* Only the running task changed.
LEMMA CalmOne ==
  ASSUME NEW ks, NEW n, NEW cur \in Task, ks.tcb[cur].status = "READY",
         OnlyTask(ks, n, cur), SamePriority(ks, n, cur),
         n.tcb[cur].status \notin {"PEND_SEM_M", "FREE"}
  PROVE  Calm(ks, n, cur)
  BY DEF Calm, OnlyTask, SamePriority

\* Tasks that did not wait for a mutex became ready.
LEMMA CalmWoke ==
  ASSUME NEW ks, NEW n, NEW cur, NEW st, st \notin {"PEND_SEM_M", "FREE"},
         Woke(ks, n, {st}), TicksKept(ks, n, {}) \/ Expired(ks, n)
  PROVE  Calm(ks, n, cur)
  BY DEF Calm, Woke, TicksKept, Expired

LEMMA CalmTime ==
  ASSUME NEW ks, NEW n, NEW cur, TimePassed(ks, n)
  PROVE  Calm(ks, n, cur)
  BY DEF Calm, TimePassed

LEMMA CalmTrans ==
  ASSUME NEW a, NEW b, NEW c, NEW cur, a.tcb[cur].status = "READY",
         Calm(a, b, cur), Calm(b, c, cur)
  PROVE  Calm(a, c, cur)
  BY DEF Calm, SamePriority

LEMMA OutSet ==
  ASSUME Inv, NEW d, d.call # "semM_take", ctx' = [ctx EXCEPT ![current] = d]
  PROVE  StaysOut(ctx, ctx', current)
  BY DEF StaysOut, Inv, CtxInv, CurInv

LEMMA OutSame ==
  ASSUME ctx' = ctx, ctx[current].call # "semM_take"
  PROVE  StaysOut(ctx, ctx', current)
  BY DEF StaysOut

LEMMA RunsIsOut ==
  ASSUME MayCall
  PROVE  ctx[current].call # "semM_take" /\ Run.call # "semM_take"
  BY DEF MayCall, Running, Run

\* The mutexes are not touched.
LEMMA QuietElsewhere ==
  ASSUME Calm(k, k', current), StaysOut(ctx, ctx', current), UNCHANGED semMVars
  PROVE  Quiet
<1>1. semM' = semM /\ semM_list' = semM_list
  BY DEF semMVars
<1>2. \A x \in SemMs : InOrder(semM[x].wait_list, semM'[x].wait_list)
  BY <1>1, InOrderSame
<1> QED
  BY <1>1, <1>2 DEF Quiet

-----------------------------------------------------------------------------
(* The parts that the calls of the kernel are made of.                     *)

\* What is known of the running task in a call.
LEMMA CallerHas ==
  ASSUME Inv, MayCall \/ ctx[current].call # "run"
  PROVE  /\ current \in Task /\ current # IDLE /\ k.tcb[current].status = "READY"
         /\ ReadyInv(k, {}) /\ TicksLeft(k)
  BY CallerIs DEF Inv, KInv

LEMMA ResetCalm ==
  ASSUME Inv, MayCall \/ ctx[current].call # "run", NEW n, n = SetTicks(k, current, 0)
  PROVE  /\ Calm(k, n, current) /\ ReadyInv(n, {}) /\ TicksLeft(n)
         /\ \A st, o : MovesOn(k, n, st, o)
<1>1. /\ current \in Task /\ k.tcb[current].status = "READY"
      /\ ReadyInv(k, {}) /\ TicksLeft(k)
  BY CallerHas
<1>2. /\ ReadyInv(n, {}) /\ TicksLeft(n) /\ OnlyTask(k, n, current)
      /\ SamePriority(k, n, current)
      /\ n.tcb[current].status = "READY" /\ \A st, o : MovesOn(k, n, st, o)
  BY <1>1, ResetTicksKeeps
<1>3. Calm(k, n, current)
  BY <1>1, <1>2, CalmOne
<1> QED
  BY <1>2, <1>3

LEMMA PendCalm ==
  ASSUME Inv, MayCall \/ ctx[current].call # "run", NEW st \in Waiting \ {"PEND_SEM_M"},
         NEW o \in Obj \cup {NULL}, NEW ticks \in Nat \ {0}, NEW n, n = pend(k, st, o, ticks)
  PROVE  Calm(k, n, current)
<1>1. /\ current \in Task /\ k.tcb[current].status = "READY"
      /\ ReadyInv(k, {}) /\ TicksLeft(k) /\ st \in Waiting
  BY CallerHas
<1>2. /\ OnlyTask(k, n, current) /\ SamePriority(k, n, current)
      /\ n.tcb[current].status = st
  BY SMTT(30), <1>1, PendKeeps
<1>3. n.tcb[current].status \notin {"PEND_SEM_M", "FREE"}
  BY <1>2 DEF Waiting
<1> QED
  BY <1>1, <1>2, <1>3, CalmOne, Zenon

LEMMA WakeCalm ==
  ASSUME NEW ks, ReadyInv(ks, {}), TicksLeft(ks), NEW st \in Waiting \ {"PEND_SEM_M"},
         NEW o, NEW l, HoldsBut(ks, l, st, o, {}), NEW n, NEW cur, n = wake_first(ks, l)
  PROVE  Calm(ks, n, cur)
<1>1. Woke(ks, n, {st}) /\ TicksKept(ks, n, {})
  BY WakeFirstKeeps
<1> QED
  BY <1>1, CalmWoke DEF Waiting

LEMMA FlushCalm ==
  ASSUME NEW ks, ReadyInv(ks, {}), TicksLeft(ks), NEW st \in Waiting \ {"PEND_SEM_M"},
         NEW o, NEW l, HoldsBut(ks, l, st, o, {}), NEW n, NEW cur, n = flushed(ks, l)
  PROVE  Calm(ks, n, cur)
<1>1. Woke(ks, n, {st}) /\ Expired(ks, n)
  BY FlushKeeps
<1> QED
  BY <1>1, CalmWoke DEF Waiting

LEMMA WaitNames ==
  {"DELAY", "PEND_SEM_B", "PEND_SEM_C", "PEND_MSG_S", "PEND_MSG_R"}
     \subseteq Waiting \ {"PEND_SEM_M"}
  BY DEF Waiting, Status

-----------------------------------------------------------------------------
(* The steps on other objects are quiet.                                   *)

InCall == MayCall \/ ctx[current].call # "run"

LEMMA QuietReturn ==
  ASSUME Inv, Calm(k, k', current), ctx' = [ctx EXCEPT ![current] = Run], UNCHANGED semMVars
  PROVE  Quiet
<1>1. Run.call # "semM_take"
  BY DEF Run
<1> QED
  BY <1>1, OutSet, QuietElsewhere

LEMMA QuietCall ==
  ASSUME Inv, MayCall, Calm(k, k', current), ctx' = ctx, UNCHANGED semMVars
  PROVE  Quiet
  BY RunsIsOut, OutSame, QuietElsewhere

\* The running task pends on object o.
LEMMA QuietPend ==
  ASSUME Inv, InCall, NEW st \in Waiting \ {"PEND_SEM_M"}, NEW o \in Obj \cup {NULL},
         NEW ticks \in Nat, ticks # 0, k' = pend(k, st, o, ticks),
         StaysOut(ctx, ctx', current), UNCHANGED semMVars
  PROVE  Quiet
<1>1. ticks \in Nat \ {0}
  OBVIOUS
<1>2. Calm(k, k', current)
  BY <1>1, PendCalm DEF InCall
<1> QED
  BY <1>2, QuietElsewhere

LEMMA DelayQuiet ==
  ASSUME Inv, DelayStep
  PROVE  Quiet
<1>1. PICK n \in Delays : delayQ_delay(n)
  BY DEF DelayStep
<1>2. /\ MayCall /\ InCall /\ ctx' = ctx /\ UNCHANGED semMVars /\ n \in Nat
      /\ "DELAY" \in Waiting \ {"PEND_SEM_M"}
  BY <1>1, KernelAssumption, WaitNames DEF DelayStep, delayQ_delay, InCall
<1>3. /\ current \in Task /\ k.tcb[current].status = "READY"
      /\ ReadyInv(k, {}) /\ TicksLeft(k)
  BY <1>2, CallerHas
<1>4. CASE n = 0
  <2>1. k' = readyQ_put(readyQ_remove(k, current), current)
    BY <1>1, <1>4 DEF delayQ_delay
  <2>2. /\ OnlyTask(k, k', current) /\ SamePriority(k, k', current)
        /\ k'.tcb[current].status = "READY"
    BY <1>3, <2>1, RotateKeeps
  <2>3. Calm(k, k', current)
    BY <1>3, <2>2, CalmOne
  <2> QED
    BY <1>2, <2>3, QuietCall
<1>5. CASE n # 0
  <2>1. k' = pend(k, "DELAY", NULL, n)
    BY <1>1, <1>5 DEF delayQ_delay
  <2>2. StaysOut(ctx, ctx', current)
    BY <1>2, RunsIsOut, OutSame
  <2> QED
    BY <1>2, <1>5, <2>1, <2>2, QuietPend
<1> QED
  BY <1>4, <1>5

LEMMA SemBAgainQuiet ==
  ASSUME Inv, InCall, NEW s \in SemBs, NEW timeout \in Nat, semB_again(s, timeout),
         UNCHANGED semMVars
  PROVE  Quiet
<1>1. CASE k' = SetTicks(k, current, 0) /\ ctx' = [ctx EXCEPT ![current] = Run]
  BY <1>1, ResetCalm, QuietReturn DEF InCall
<1>2. CASE k' = k /\ ctx' = [ctx EXCEPT ![current] = Run]
  BY <1>2, CalmSame, QuietReturn
<1>3. CASE /\ timeout # 0 /\ k' = pend(k, "PEND_SEM_B", s, timeout)
           /\ ctx' = [ctx EXCEPT ![current] =
                        [call |-> "semB_take", obj |-> s, msg |-> NULL]]
  <2>1. StaysOut(ctx, ctx', current)
    BY <1>3, OutSet
  <2>2. s \in Obj \cup {NULL} /\ "PEND_SEM_B" \in Waiting \ {"PEND_SEM_M"}
    BY KernelAssumption, WaitNames
  <2> QED
    BY <1>3, <2>1, <2>2, QuietPend
<1> QED
  BY <1>1, <1>2, <1>3 DEF semB_again

LEMMA SemCAgainQuiet ==
  ASSUME Inv, InCall, NEW s \in SemCs, NEW timeout \in Nat, semC_again(s, timeout),
         UNCHANGED semMVars
  PROVE  Quiet
<1>1. CASE k' = SetTicks(k, current, 0) /\ ctx' = [ctx EXCEPT ![current] = Run]
  BY <1>1, ResetCalm, QuietReturn DEF InCall
<1>2. CASE k' = k /\ ctx' = [ctx EXCEPT ![current] = Run]
  BY <1>2, CalmSame, QuietReturn
<1>3. CASE /\ timeout # 0 /\ k' = pend(k, "PEND_SEM_C", s, timeout)
           /\ ctx' = [ctx EXCEPT ![current] =
                        [call |-> "semC_take", obj |-> s, msg |-> NULL]]
  <2>1. StaysOut(ctx, ctx', current)
    BY <1>3, OutSet
  <2>2. s \in Obj \cup {NULL} /\ "PEND_SEM_C" \in Waiting \ {"PEND_SEM_M"}
    BY KernelAssumption, WaitNames
  <2> QED
    BY <1>3, <2>1, <2>2, QuietPend
<1> QED
  BY <1>1, <1>2, <1>3 DEF semC_again

LEMMA SemBQuiet ==
  ASSUME Inv, SemBStep
  PROVE  Quiet
<1>1. /\ ListInv(semB_list, SemBs) /\ UNCHANGED semMVars
      /\ ReadyInv(k, {}) /\ TicksLeft(k) /\ BCalls(ctx, semB_list) /\ current \in Task
      /\ \A s \in SemBs : HoldsBut(k, semB[s].wait_list, "PEND_SEM_B", s, {})
      /\ "PEND_SEM_B" \in Waiting \ {"PEND_SEM_M"}
  BY WaitNames DEF Inv, ListsInv, KInv, BInv, CtxInv, CurInv, SemBStep
<1>2. ASSUME NEW s \in ToSet(semB_list), NEW n \in Timeouts, semB_take(s, n) PROVE Quiet
  <2>1. s \in SemBs /\ n \in Nat
    BY <1>1, Listed, KernelAssumption
  <2> QED
    BY <1>1, <1>2, <2>1, SemBAgainQuiet DEF semB_take, InCall
<1>3. ASSUME semB_wakeup PROVE Quiet
  <2>1. InCall /\ ctx[current].obj \in SemBs
    BY <1>1, <1>3 DEF semB_wakeup, InCall, BCalls
  <2>2. CASE k.tcb[current].delay_ticks # 0
    <3>1. k.tcb[current].delay_ticks \in Nat
      BY <1>1 DEF ReadyInv, KernelState, OS_TCB
    <3> QED
      BY <1>1, <1>3, <2>1, <2>2, <3>1, SemBAgainQuiet DEF semB_wakeup
  <2>3. CASE k.tcb[current].delay_ticks = 0
    BY <1>1, <1>3, <2>3, CalmSame, QuietReturn DEF semB_wakeup
  <2> QED
    BY <2>2, <2>3
<1>4. ASSUME NEW s \in ToSet(semB_list), semB_give(s) PROVE Quiet
  <2>1. s \in SemBs
    BY <1>1, Listed
  <2>2. MayCall /\ ctx' = ctx /\ k' = wake_first(k, semB[s].wait_list)
    BY <1>4 DEF semB_give
  <2>3. Calm(k, k', current)
    BY <1>1, <2>1, <2>2, WakeCalm
  <2> QED
    BY <1>1, <2>2, <2>3, QuietCall
<1>5. ASSUME NEW s \in SemBs, semB_flush(s) PROVE Quiet
  <2>1. MayCall /\ ctx' = ctx /\ k' = flushed(k, semB[s].wait_list)
    BY <1>5 DEF semB_flush
  <2>2. Calm(k, k', current)
    BY <1>1, <2>1, FlushCalm
  <2> QED
    BY <1>1, <2>1, <2>2, QuietCall
<1>6. ASSUME NEW s \in SemBs, semB_delete(s) PROVE Quiet
  <2>1. /\ k' = flushed(k, semB[s].wait_list)
        /\ ctx' = [ctx EXCEPT ![current] =
                     [call |-> "semB_delete", obj |-> s, msg |-> NULL]]
    BY <1>6 DEF semB_delete
  <2>2. Calm(k, k', current)
    BY <1>1, <2>1, FlushCalm
  <2>3. StaysOut(ctx, ctx', current)
    BY <2>1, OutSet
  <2> QED
    BY <1>1, <2>2, <2>3, QuietElsewhere
<1>7. ASSUME NEW s \in SemBs, semB_init(s) PROVE Quiet
  BY <1>1, <1>7, CalmSame, QuietCall DEF semB_init, schedVars
<1>8. ASSUME semB_unlink PROVE Quiet
  BY <1>1, <1>8, CalmSame, QuietReturn DEF semB_unlink
<1> QED
  BY <1>2, <1>3, <1>4, <1>5, <1>6, <1>7, <1>8 DEF SemBStep

LEMMA SemCQuiet ==
  ASSUME Inv, SemCStep
  PROVE  Quiet
<1>1. /\ ListInv(semC_list, SemCs) /\ UNCHANGED semMVars
      /\ ReadyInv(k, {}) /\ TicksLeft(k) /\ CCalls(ctx, semC_list) /\ current \in Task
      /\ \A s \in SemCs : HoldsBut(k, semC[s].wait_list, "PEND_SEM_C", s, {})
      /\ "PEND_SEM_C" \in Waiting \ {"PEND_SEM_M"}
  BY WaitNames DEF Inv, ListsInv, KInv, CInv, CtxInv, CurInv, SemCStep
<1>2. ASSUME NEW s \in ToSet(semC_list), NEW n \in Timeouts, semC_take(s, n) PROVE Quiet
  <2>1. s \in SemCs /\ n \in Nat
    BY <1>1, Listed, KernelAssumption
  <2> QED
    BY <1>1, <1>2, <2>1, SemCAgainQuiet DEF semC_take, InCall
<1>3. ASSUME semC_wakeup PROVE Quiet
  <2>1. InCall /\ ctx[current].obj \in SemCs
    BY <1>1, <1>3 DEF semC_wakeup, InCall, CCalls
  <2>2. CASE k.tcb[current].delay_ticks # 0
    <3>1. k.tcb[current].delay_ticks \in Nat
      BY <1>1 DEF ReadyInv, KernelState, OS_TCB
    <3> QED
      BY <1>1, <1>3, <2>1, <2>2, <3>1, SemCAgainQuiet DEF semC_wakeup
  <2>3. CASE k.tcb[current].delay_ticks = 0
    BY <1>1, <1>3, <2>3, CalmSame, QuietReturn DEF semC_wakeup
  <2> QED
    BY <2>2, <2>3
<1>4. ASSUME NEW s \in ToSet(semC_list), semC_give(s) PROVE Quiet
  <2>1. s \in SemCs
    BY <1>1, Listed
  <2>2. /\ MayCall /\ ctx' = ctx
        /\ k' = wake_first(k, semC[s].wait_list) \/ k' = k
    BY <1>4 DEF semC_give
  <2>3. Calm(k, k', current)
    BY <1>1, <2>1, <2>2, WakeCalm, CalmSame
  <2> QED
    BY <1>1, <2>2, <2>3, QuietCall
<1>5. ASSUME NEW s \in SemCs, semC_flush(s) PROVE Quiet
  <2>1. MayCall /\ ctx' = ctx /\ k' = flushed(k, semC[s].wait_list)
    BY <1>5 DEF semC_flush
  <2>2. Calm(k, k', current)
    BY <1>1, <2>1, FlushCalm
  <2> QED
    BY <1>1, <2>1, <2>2, QuietCall
<1>6. ASSUME NEW s \in SemCs, semC_delete(s) PROVE Quiet
  <2>1. /\ k' = flushed(k, semC[s].wait_list)
        /\ ctx' = [ctx EXCEPT ![current] =
                     [call |-> "semC_delete", obj |-> s, msg |-> NULL]]
    BY <1>6 DEF semC_delete
  <2>2. Calm(k, k', current)
    BY <1>1, <2>1, FlushCalm
  <2>3. StaysOut(ctx, ctx', current)
    BY <2>1, OutSet
  <2> QED
    BY <1>1, <2>2, <2>3, QuietElsewhere
<1>7. ASSUME NEW s \in SemCs, NEW n, semC_init(s, n) PROVE Quiet
  BY <1>1, <1>7, CalmSame, QuietCall DEF semC_init, schedVars
<1>8. ASSUME semC_unlink PROVE Quiet
  BY <1>1, <1>8, CalmSame, QuietReturn DEF semC_unlink
<1> QED
  BY <1>2, <1>3, <1>4, <1>5, <1>6, <1>7, <1>8 DEF SemCStep

LEMMA MsgQDoneQuiet ==
  ASSUME Inv, InCall, NEW st \in Waiting \ {"PEND_SEM_M"}, NEW o, NEW l,
         HoldsBut(k, l, st, o, {}), k' = wake_first(SetTicks(k, current, 0), l),
         ctx' = [ctx EXCEPT ![current] = Run], UNCHANGED semMVars
  PROVE  Quiet
<1> DEFINE a == SetTicks(k, current, 0)
<1>1. /\ Calm(k, a, current) /\ ReadyInv(a, {}) /\ TicksLeft(a)
      /\ MovesOn(k, a, "FREE", NULL)
  BY ResetCalm DEF InCall
<1> HIDE DEF a
<1>2. HoldsBut(a, l, st, o, {})
  BY <1>1, MovesStill, StillFrame DEF Waiting
<1>3. Calm(a, k', current)
  BY <1>1, <1>2, WakeCalm DEF a
<1>4. k.tcb[current].status = "READY"
  BY CallerHas DEF InCall
<1>5. Calm(k, k', current)
  BY <1>1, <1>3, <1>4, CalmTrans
<1> QED
  BY <1>5, QuietReturn

LEMMA SendAgainQuiet ==
  ASSUME Inv, InCall, NEW q \in MsgQs, NEW m, NEW timeout \in Nat,
         msgQ_send_again(q, m, timeout), UNCHANGED semMVars
  PROVE  Quiet
<1>1. /\ HoldsBut(k, msgQ[q].wait_recv_list, "PEND_MSG_R", q, {})
      /\ {"PEND_MSG_S", "PEND_MSG_R"} \subseteq Waiting \ {"PEND_SEM_M"}
      /\ q \in Obj \cup {NULL}
  BY WaitNames, KernelAssumption DEF Inv, QInv
<1>2. CASE /\ k' = wake_first(SetTicks(k, current, 0), msgQ[q].wait_recv_list)
           /\ ctx' = [ctx EXCEPT ![current] = Run]
  BY <1>1, <1>2, MsgQDoneQuiet
<1>3. CASE k' = k /\ ctx' = [ctx EXCEPT ![current] = Run]
  BY <1>3, CalmSame, QuietReturn
<1>4. CASE /\ timeout # 0 /\ k' = pend(k, "PEND_MSG_S", q, timeout)
           /\ ctx' = [ctx EXCEPT ![current] =
                        [call |-> "msgQ_send", obj |-> q, msg |-> m]]
  <2>1. StaysOut(ctx, ctx', current)
    BY <1>4, OutSet
  <2> QED
    BY <1>1, <1>4, <2>1, QuietPend
<1> QED
  BY <1>2, <1>3, <1>4 DEF msgQ_send_again

LEMMA ReceiveAgainQuiet ==
  ASSUME Inv, InCall, NEW q \in MsgQs, NEW timeout \in Nat,
         msgQ_receive_again(q, timeout), UNCHANGED semMVars
  PROVE  Quiet
<1>1. /\ HoldsBut(k, msgQ[q].wait_send_list, "PEND_MSG_S", q, {})
      /\ {"PEND_MSG_S", "PEND_MSG_R"} \subseteq Waiting \ {"PEND_SEM_M"}
      /\ q \in Obj \cup {NULL}
  BY WaitNames, KernelAssumption DEF Inv, QInv
<1>2. CASE /\ k' = wake_first(SetTicks(k, current, 0), msgQ[q].wait_send_list)
           /\ ctx' = [ctx EXCEPT ![current] = Run]
  BY <1>1, <1>2, MsgQDoneQuiet
<1>3. CASE k' = k /\ ctx' = [ctx EXCEPT ![current] = Run]
  BY <1>3, CalmSame, QuietReturn
<1>4. CASE /\ timeout # 0 /\ k' = pend(k, "PEND_MSG_R", q, timeout)
           /\ ctx' = [ctx EXCEPT ![current] =
                        [call |-> "msgQ_receive", obj |-> q, msg |-> NULL]]
  <2>1. StaysOut(ctx, ctx', current)
    BY <1>4, OutSet
  <2> QED
    BY <1>1, <1>4, <2>1, QuietPend
<1> QED
  BY <1>2, <1>3, <1>4 DEF msgQ_receive_again

LEMMA MsgQQuiet ==
  ASSUME Disposable \cap MsgQs = {}, Inv, MsgQStep
  PROVE  Quiet
<1>1. /\ ListInv(msgQ_list, MsgQs) /\ UNCHANGED semMVars
      /\ k.tcb[current].delay_ticks \in Nat /\ QCalls(ctx, msgQ_list) /\ current \in Task
  BY DEF Inv, ListsInv, KInv, CtxInv, CurInv, MsgQStep, ReadyInv, KernelState, OS_TCB
<1>2. ASSUME NEW q \in ToSet(msgQ_list), NEW m \in Msg, NEW n \in Timeouts,
             msgQ_send(q, m, n)
      PROVE  Quiet
  <2>1. q \in MsgQs /\ n \in Nat
    BY <1>1, Listed, KernelAssumption
  <2> QED
    BY <1>1, <1>2, <2>1, SendAgainQuiet DEF msgQ_send, InCall
<1>3. ASSUME msgQ_send_wakeup PROVE Quiet
  <2>1. InCall /\ ctx[current].obj \in MsgQs
    BY <1>1, <1>3 DEF msgQ_send_wakeup, InCall, QCalls
  <2>2. CASE k.tcb[current].delay_ticks # 0
    BY <1>1, <1>3, <2>1, <2>2, SendAgainQuiet DEF msgQ_send_wakeup
  <2>3. CASE k.tcb[current].delay_ticks = 0
    BY <1>1, <1>3, <2>3, CalmSame, QuietReturn DEF msgQ_send_wakeup
  <2> QED
    BY <2>2, <2>3
<1>4. ASSUME NEW q \in ToSet(msgQ_list), NEW n \in Timeouts, msgQ_receive(q, n)
      PROVE  Quiet
  <2>1. q \in MsgQs /\ n \in Nat
    BY <1>1, Listed, KernelAssumption
  <2> QED
    BY <1>1, <1>4, <2>1, ReceiveAgainQuiet DEF msgQ_receive, InCall
<1>5. ASSUME msgQ_receive_wakeup PROVE Quiet
  <2>1. InCall /\ ctx[current].obj \in MsgQs
    BY <1>1, <1>5 DEF msgQ_receive_wakeup, InCall, QCalls
  <2>2. CASE k.tcb[current].delay_ticks # 0
    BY <1>1, <1>5, <2>1, <2>2, ReceiveAgainQuiet DEF msgQ_receive_wakeup
  <2>3. CASE k.tcb[current].delay_ticks = 0
    BY <1>1, <1>5, <2>3, CalmSame, QuietReturn DEF msgQ_receive_wakeup
  <2> QED
    BY <2>2, <2>3
<1>6. ASSUME NEW q \in MsgQs, msgQ_init(q) PROVE Quiet
  BY <1>1, <1>6, CalmSame, QuietCall DEF msgQ_init, schedVars
<1> QED
  BY <1>2, <1>3, <1>4, <1>5, <1>6 DEF MsgQStep

LEMMA TickQuiet ==
  ASSUME Inv, tick_announce
  PROVE  Quiet
<1> DEFINE r == ticked
<1>1. TimePassed(k, r.k) /\ SameOwners(semM, r.semM) /\ ListsInOrder(SemMs, semM, r.semM)
  BY TickKeeps
<1>2. k' = r.k /\ semM' = r.semM /\ ctx' = ctx /\ semM_list' = semM_list /\ IrqEnabled
  BY DEF tick_announce
<1> HIDE DEF r
<1>3. Calm(k, k', current)
  BY <1>1, <1>2, CalmTime
<1>4. StaysOut(ctx, ctx', current)
  BY <1>2, OutSame DEF IrqEnabled
<1> QED
  BY <1>1, <1>2, <1>3, <1>4 DEF Quiet, SameOwners, ListsInOrder

-----------------------------------------------------------------------------
(* The other steps, by what they do to the mutexes.                        *)

\* A mutex that is not in use has no owner.
Owned(f, l) == \A s \in SemMs : f[s].owner_tcb # NULL => dlist_check(l, s)

\* The running task takes the free mutex s.
Took(s) ==
  /\ s \in SemMs /\ dlist_check(semM_list, s) /\ semM[s].owner_tcb = NULL
  /\ UNCHANGED <<k, ctx, semM_list>>
  /\ semM'[s].owner_tcb = current
  /\ \A x \in SemMs : /\ semM'[x].wait_list = semM[x].wait_list
                      /\ semM'[x].wait_pri = semM[x].wait_pri
                      /\ x # s => semM'[x].owner_tcb = semM[x].owner_tcb

\* From k to k' priority inheritance for mutex s: tasks that own a mutex became
\* more important; when the owner of s does not wait for a mutex only that owner
\* did, and neither it nor the mutex's wait_pri is less important than the running
\* task.
Inheriting(s) ==
  /\ \A t \in Task :
       /\ k'.tcb[t].origin_pri = k.tcb[t].origin_pri
       /\ k'.tcb[t].task_priority <= k.tcb[t].task_priority
       /\ \/ k'.tcb[t].task_priority = k.tcb[t].task_priority
          \/ \E x \in SemMs : semM[x].owner_tcb = t
  /\ status_of(k.tcb[semM[s].owner_tcb]) # "PEND_SEM_M"
       => /\ \A t \in Task \ {semM[s].owner_tcb} :
               k'.tcb[t].task_priority = k.tcb[t].task_priority
          /\ k'.tcb[semM[s].owner_tcb].task_priority <= k.tcb[current].task_priority
          /\ Heard(semM, semM', s, k.tcb[current].task_priority)

\* The running task joins the waiters of mutex s.
Blocked(s) ==
  /\ s \in SemMs /\ dlist_check(semM_list, s) /\ semM[s].owner_tcb \notin {NULL, current}
  /\ ctx' = [ctx EXCEPT ![current] = [call |-> "semM_take", obj |-> s, msg |-> NULL]]
  /\ Inheriting(s)
  /\ k'.tcb[current].status = "PEND_SEM_M" /\ k'.tcb[current].pend_obj = s
  /\ \A t \in Task \ {current} :
       /\ k'.tcb[t].status = k.tcb[t].status
       /\ k'.tcb[t].delay_ticks = k.tcb[t].delay_ticks
       /\ k'.tcb[t].status # "READY" => k'.tcb[t].pend_obj = k.tcb[t].pend_obj
  /\ \A x \in SemMs : semM'[x].owner_tcb = semM[x].owner_tcb
  /\ \A x \in SemMs \ {s} : semM'[x].wait_list = semM[x].wait_list
  /\ semM'[s].wait_list = sort_pri_put(k', semM[s].wait_list, current)
  /\ semM_list' = semM_list

\* The running task releases mutex s.
Gave(s) ==
  /\ MayCall /\ s \in SemMs /\ dlist_check(semM_list, s) /\ semM[s].owner_tcb = current
  /\ UNCHANGED <<ctx, semM_list>>
  /\ Released(s, semM') /\ semM' \in [SemMs -> SEM_MUX]
  /\ GivenBy(k, k', current, Min({get_highest_wait_pri(semM'), k.tcb[current].origin_pri}))

\* Task t appears or goes, or the running task ends.
Created(t) ==
  /\ t \in Killable /\ OnlyTask(k, k', t)
  /\ k.tcb[t].status = "FREE" /\ k'.tcb[t].status = "READY"
  /\ k'.tcb[t].task_priority = k'.tcb[t].origin_pri
  /\ UNCHANGED semMVars

Deleted(t) ==
  /\ t \in Killable /\ Gone(k, k', t) /\ GaveBack(semM, semM', t)
  /\ UNCHANGED semM_list

Ended(t) ==
  /\ t \in Killable /\ OnlyTask(k, k', t) /\ k'.tcb[t].status = "FREE"
  /\ UNCHANGED semMVars

Steps ==
  \/ Quiet
  \/ \E s : Took(s) \/ Blocked(s) \/ Gave(s)
  \/ \E t : Created(t) \/ Deleted(t) \/ Ended(t)
  \/ UNCHANGED <<k, ctx, semMVars>>

\* The counts of the mutexes changed, or nothing.
LEMMA QuietCounts ==
  ASSUME Inv, MayCall, UNCHANGED <<k, ctx, semM_list>>, SameButCount(semM, semM')
  PROVE  Quiet
<1>1. Calm(k, k', current) /\ StaysOut(ctx, ctx', current)
  BY CalmSame, RunsIsOut, OutSame
<1>2. \A x \in SemMs : InOrder(semM[x].wait_list, semM'[x].wait_list)
  BY InOrderSame DEF SameButCount
<1> QED
  BY <1>1, <1>2 DEF Quiet, SameButCount

LEMMA WakeupQuiet ==
  ASSUME Inv, semM_wakeup
  PROVE  Quiet
<1>1. /\ ctx[current].call # "run" /\ k' = SetTicks(k, current, 0)
      /\ ctx' = [ctx EXCEPT ![current] = Run] /\ UNCHANGED semMVars
  BY DEF semM_wakeup, semMVars
<1> QED
  BY <1>1, ResetCalm, QuietReturn

LEMMA SemMInitQuiet ==
  ASSUME Inv, Owned(semM, semM_list), NEW s \in SemMs, semM_init(s)
  PROVE  Quiet
<1>1. /\ semM \in [SemMs -> SEM_MUX] /\ ListInv(semM_list, SemMs)
      /\ MayCall /\ ~ dlist_check(semM_list, s) /\ semM_list' = dlist_add(semM_list, s)
      /\ semM' = [semM EXCEPT ![s] = semM_new] /\ UNCHANGED <<k, ctx>>
  BY DEF Inv, MInv, ListsInv, semM_init, schedVars
<1>2. \A x : dlist_check(semM_list, x) => dlist_check(semM_list', x)
  BY <1>1, Listed
<1>3. Calm(k, k', current) /\ StaysOut(ctx, ctx', current)
  BY <1>1, CalmSame, RunsIsOut, OutSame
<1>4. /\ semM'[s].owner_tcb = NULL /\ semM'[s].wait_list = << >>
      /\ \A x \in SemMs : x # s => semM'[x] = semM[x]
  BY <1>1 DEF semM_new
<1>5. \A x \in SemMs : semM'[x].owner_tcb = semM[x].owner_tcb
  BY <1>1, <1>4 DEF Owned
<1>6. InOrder(semM[s].wait_list, semM'[s].wait_list)
  BY <1>4 DEF InOrder
<1>7. \A x \in SemMs : InOrder(semM[x].wait_list, semM'[x].wait_list)
  BY <1>4, <1>6, InOrderSame
<1> QED
  BY <1>2, <1>3, <1>4, <1>5, <1>7 DEF Quiet

\* A chain of boosts from k to a, then the running task pends: n.
LEMMA BoostedPends ==
  ASSUME Inv, NEW s \in SemMs, semM[s].owner_tcb \notin {NULL, current},
         NEW a \in KernelState, Boosted(k, a), OwnersOnly(k, a, semM),
         NEW p, p = k.tcb[current].task_priority,
         status_of(k.tcb[semM[s].owner_tcb]) # "PEND_SEM_M"
           => /\ \/ a = k /\ k.tcb[semM[s].owner_tcb].task_priority <= p
                 \/ OneRaised(k, a, semM[s].owner_tcb, p)
              /\ Heard(semM, semM', s, p),
         OnlyTask(a, k', current), SamePriority(a, k', current)
  PROVE  Inheriting(s)
<1>1. /\ k \in KernelState /\ current \in Task /\ semM[s].owner_tcb \in Task
  BY DEF Inv, KInv, ReadyInv, CurInv, MInv, SEM_MUX
<1>2. \A t \in Task : /\ k'.tcb[t].task_priority = a.tcb[t].task_priority
                      /\ k'.tcb[t].origin_pri = a.tcb[t].origin_pri
  BY DEF OnlyTask, SamePriority
<1>3. p \in Int /\ \A t \in Task : k.tcb[t].task_priority \in Int
  BY <1>1, PrioritiesAreInt
<1>4. ASSUME NEW t \in Task
      PROVE  /\ k'.tcb[t].origin_pri = k.tcb[t].origin_pri
             /\ k'.tcb[t].task_priority <= k.tcb[t].task_priority
             /\ \/ k'.tcb[t].task_priority = k.tcb[t].task_priority
                \/ \E x \in SemMs : semM[x].owner_tcb = t
  BY <1>2 DEF Boosted, OwnersOnly
<1>5. ASSUME status_of(k.tcb[semM[s].owner_tcb]) # "PEND_SEM_M"
      PROVE  /\ \A t \in Task \ {semM[s].owner_tcb} :
                  k'.tcb[t].task_priority = k.tcb[t].task_priority
             /\ k'.tcb[semM[s].owner_tcb].task_priority <= p
             /\ Heard(semM, semM', s, p)
  <2>1. CASE a = k /\ k.tcb[semM[s].owner_tcb].task_priority <= p
    BY <1>1, <1>2, <1>5, <2>1
  <2>2. CASE OneRaised(k, a, semM[s].owner_tcb, p)
    BY <1>1, <1>2, <1>3, <1>5, <2>2 DEF OneRaised, OnlyTask
  <2> QED
    BY <1>5, <2>1, <2>2
<1> QED
  BY <1>4, <1>5 DEF Inheriting

\* The running task, when the owners have been raised, joins the waiters.
LEMMA JoinsWaiters ==
  ASSUME current \in Task, NEW s \in SemMs, NEW timeout \in Nat \ {0}, NEW a, NEW f,
         ReadyInv(a, {}), TicksLeft(a), MInv(a, f, semM_list, {}),
         a.tcb[current].status = "READY",
         NEW n, n = pend(a, "PEND_SEM_M", s, timeout),
         NEW w, w = f[s].wait_list,
         NEW g, g = WithList(f, s, sort_pri_put(n, w, current))
  PROVE  /\ OnlyTask(a, n, current) /\ SamePriority(a, n, current)
         /\ n.tcb[current].status = "PEND_SEM_M" /\ n.tcb[current].pend_obj = s
         /\ g[s].wait_list = sort_pri_put(n, w, current)
         /\ \A x \in SemMs \ {s} : g[x].wait_list = f[x].wait_list
         /\ \A x \in SemMs : /\ g[x].owner_tcb = f[x].owner_tcb
                             /\ g[x].wait_pri = f[x].wait_pri
<1>1. s \in Obj \cup {NULL} /\ "PEND_SEM_M" \in Waiting
  BY KernelAssumption DEF Waiting, Status
<1>2. /\ OnlyTask(a, n, current) /\ SamePriority(a, n, current) /\ ReadyInv(n, {})
      /\ n.tcb[current].status = "PEND_SEM_M" /\ n.tcb[current].pend_obj = s
  BY <1>1, PendKeeps
<1>3. /\ w \in Seq(Task) /\ NoDuplicates(w) /\ ~ dlist_check(w, current)
      /\ n \in KernelState /\ f \in [SemMs -> SEM_MUX]
  BY <1>2 DEF MInv, HoldsBut, ReadyInv
<1> DEFINE m == sort_pri_put(n, w, current)
<1>4. m \in Seq(Task) /\ g = WithList(f, s, m)
  BY <1>3, SortPutMembers
<1> HIDE DEF m
<1>5. SemKind("PEND_SEM_M", SemMs, SEM_MUX)
  BY DEF SemKind
<1>6. /\ g[s].wait_list = m /\ \A x \in SemMs : x # s => g[x] = f[x]
      /\ SameOwners(f, g)
  BY <1>3, <1>4, <1>5, WithListIs DEF SameValues
<1> QED
  BY <1>2, <1>6 DEF SameOwners, m

LEMMA BlocksIs ==
  ASSUME Inv, MayCall, NEW s \in SemMs, dlist_check(semM_list, s),
         semM[s].owner_tcb \notin {NULL, current}, NEW timeout \in Nat \ {0},
         NEW r, r = raised(k, s, k.tcb[current].task_priority), r.ok,
         k' = pend(r.k, "PEND_SEM_M", s, timeout),
         semM' = WithList(r.objs, s, sort_pri_put(k', r.objs[s].wait_list, current)),
         ctx' = [ctx EXCEPT ![current] = [call |-> "semM_take", obj |-> s, msg |-> NULL]],
         semM_list' = semM_list
  PROVE  Blocked(s)
<1> DEFINE p == k.tcb[current].task_priority
           a == r.k
           f == r.objs
<1>1. /\ current \in Task /\ k.tcb[current].status = "READY" /\ semM[s].owner_tcb # NULL
      /\ ReadyInv(k, {}) /\ TicksLeft(k) /\ MInv(k, semM, semM_list, {})
      /\ k \in KernelState
  BY CallerIs DEF Inv, KInv, ReadyInv
<1>2. p \in Priority
  BY <1>1, PrioritiesAreInt
<1> HIDE DEF p
<1>3. /\ ReadyInv(a, {}) /\ TicksLeft(a) /\ MInv(a, f, semM_list, {})
      /\ Boosted(k, a) /\ OwnersOnly(k, a, semM) /\ SameButPri(semM, f)
  BY <1>1, <1>2, RaisedKeeps DEF p
<1>4. status_of(k.tcb[semM[s].owner_tcb]) # "PEND_SEM_M"
        => /\ \/ a = k /\ k.tcb[semM[s].owner_tcb].task_priority <= p
              \/ OneRaised(k, a, semM[s].owner_tcb, p)
           /\ Heard(semM, f, s, p)
  BY <1>1, <1>2, RaisedOne DEF p
<1>5. /\ k' = pend(a, "PEND_SEM_M", s, timeout)
      /\ semM' = WithList(f, s, sort_pri_put(k', f[s].wait_list, current))
  OBVIOUS
<1> HIDE DEF a, f
<1>6. a.tcb[current].status = "READY" /\ a \in KernelState
  BY <1>1, <1>3 DEF Boosted, ReadyInv
<1>7. /\ OnlyTask(a, k', current) /\ SamePriority(a, k', current)
      /\ k'.tcb[current].status = "PEND_SEM_M" /\ k'.tcb[current].pend_obj = s
      /\ semM'[s].wait_list = sort_pri_put(k', f[s].wait_list, current)
      /\ \A x \in SemMs \ {s} : semM'[x].wait_list = f[x].wait_list
      /\ \A x \in SemMs : /\ semM'[x].owner_tcb = f[x].owner_tcb
                          /\ semM'[x].wait_pri = f[x].wait_pri
  BY ONLY <1>1, <1>3, <1>5, <1>6, JoinsWaiters, s \in SemMs, timeout \in Nat \ {0}
<1>8. Inheriting(s)
  <2>1. Heard(semM, f, s, p) => Heard(semM, semM', s, p)
    BY ONLY <1>7, s \in SemMs DEF Heard
  <2> QED
    BY <1>3, <1>4, <1>6, <1>7, <2>1, BoostedPends DEF p
<1>9. \A t \in Task \ {current} :
        /\ k'.tcb[t].status = k.tcb[t].status
        /\ k'.tcb[t].delay_ticks = k.tcb[t].delay_ticks
        /\ k'.tcb[t].status # "READY" => k'.tcb[t].pend_obj = k.tcb[t].pend_obj
  BY ONLY <1>3, <1>7 DEF Boosted, OnlyTask
<1>10. /\ \A x \in SemMs : f[x].owner_tcb = semM[x].owner_tcb
       /\ \A x \in SemMs : f[x].wait_list = semM[x].wait_list
  BY <1>3 DEF SameButPri
<1>11. /\ \A x \in SemMs : semM'[x].owner_tcb = semM[x].owner_tcb
       /\ \A x \in SemMs \ {s} : semM'[x].wait_list = semM[x].wait_list
       /\ semM'[s].wait_list = sort_pri_put(k', semM[s].wait_list, current)
  BY ONLY <1>7, <1>10, s \in SemMs
<1> QED
  BY <1>7, <1>8, <1>9, <1>11 DEF Blocked

LEMMA TakeIs ==
  ASSUME Inv, NEW s \in SemMs, dlist_check(semM_list, s), NEW timeout \in Nat,
         semM_take(s, timeout)
  PROVE  Quiet \/ Took(s) \/ Blocked(s) \/ Astray'
<1>1. /\ MayCall /\ semM_list' = semM_list /\ semM \in [SemMs -> SEM_MUX]
  BY DEF semM_take, Inv, MInv
<1>2. CASE /\ semM[s].owner_tcb = NULL
           /\ semM' = [semM EXCEPT ![s].owner_tcb = current, ![s].take_count = 1]
           /\ UNCHANGED <<k, current, ctx>>
  <2>1. /\ semM'[s].owner_tcb = current
        /\ semM'[s].wait_list = semM[s].wait_list
        /\ \A x \in SemMs : x # s => semM'[x] = semM[x]
    BY <1>1, <1>2 DEF SEM_MUX
  <2> QED
    BY <1>1, <1>2, <2>1 DEF Took
<1>3. CASE /\ semM[s].owner_tcb = current
           /\ semM' = [semM EXCEPT ![s].take_count = (@ + 1) % UINT]
           /\ UNCHANGED <<k, current, ctx>>
  <2>1. SameButCount(semM, semM')
    BY <1>1, <1>3 DEF SameButCount, SEM_MUX
  <2> QED
    BY <1>1, <1>3, <2>1, QuietCounts
<1>4. CASE UNCHANGED <<k, semM, current, ctx>>
  BY <1>1, <1>4, QuietCounts DEF SameButCount
<1>5. CASE /\ semM[s].owner_tcb \notin {NULL, current} /\ timeout # 0
           /\ LET r  == raised(k, s, k.tcb[current].task_priority)
                  k1 == pend(r.k, "PEND_SEM_M", s, timeout)
              IN  /\ r.ok
                  /\ k' = k1
                  /\ semM' = [r.objs EXCEPT ![s].wait_list = sort_pri_put(k1, @, current)]
           /\ ctx' = [ctx EXCEPT ![current] =
                        [call |-> "semM_take", obj |-> s, msg |-> NULL]]
  <2> DEFINE r == raised(k, s, k.tcb[current].task_priority)
  <2>1. /\ timeout \in Nat \ {0}
        /\ k' = pend(r.k, "PEND_SEM_M", s, timeout) /\ r.ok
        /\ semM' = WithList(r.objs, s, sort_pri_put(k', r.objs[s].wait_list, current))
    BY <1>5 DEF WithList
  <2> QED
    BY <1>1, <1>5, <2>1, BlocksIs
<1>6. CASE /\ ctx' = [ctx EXCEPT ![current] =
                       [call |-> "up_owner_pri", obj |-> s, msg |-> NULL]]
           /\ UNCHANGED current
  BY <1>6 DEF Inv, CurInv, CtxInv, Astray
<1> QED
  BY <1>2, <1>3, <1>4, <1>5, <1>6 DEF semM_take

LEMMA GiveIs ==
  ASSUME Inv, NEW s \in SemMs, dlist_check(semM_list, s), semM_give(s),
         UNCHANGED <<semBVars, semCVars, msgQVars>>
  PROVE  Quiet \/ Gave(s)
<1>1. MayCall /\ semM[s].owner_tcb = current /\ UNCHANGED <<ctx, semM_list>>
  BY DEF semM_give
<1>2. CASE UNCHANGED k /\ SameButCount(semM, semM')
  BY <1>1, <1>2, QuietCounts
<1>3. CASE /\ Released(s, semM') /\ semM' \in [SemMs -> SEM_MUX]
           /\ GivenBy(k, k', current, Min({get_highest_wait_pri(semM'),
                                            k.tcb[current].origin_pri}))
  BY <1>1, <1>3 DEF Gave
<1> QED
  BY <1>2, <1>3, SemMGive

LEMMA TaskIs ==
  ASSUME Inv, TaskStep
  PROVE  \E t : Created(t) \/ Deleted(t) \/ Ended(t)
<1>1. ASSUME NEW t \in Killable, NEW p \in UserPri, task_create(t, p) PROVE Created(t)
  <2>1. /\ t \in Task /\ p \in Priority /\ ReadyInv(k, {}) /\ TicksLeft(k)
        /\ k.tcb[t].status = "FREE" /\ k' = created(k, t, p) /\ UNCHANGED semMVars
    BY <1>1, KernelAssumption, ReadyQAssumption DEF Priority, Inv, KInv, task_create
  <2>2. /\ OnlyTask(k, k', t) /\ k'.tcb[t].status = "READY"
        /\ k'.tcb[t].task_priority = p /\ k'.tcb[t].origin_pri = p
    BY <2>1, CreatedKeeps
  <2> QED
    BY <2>1, <2>2 DEF Created
<1>2. ASSUME NEW t \in Killable, task_delete(t) PROVE Deleted(t)
  BY <1>2, TaskDelete DEF Deleted, task_delete
<1>3. ASSUME current \in Killable, task_end PROVE Ended(current)
  BY <1>3, TaskEnd DEF Ended, task_end
<1> QED
  BY <1>1, <1>2, <1>3 DEF TaskStep

\* Every step of the kernel is one of these, or a task meets a dead owner.
LEMMA StepIs ==
  ASSUME Disposable \cap MsgQs = {}, Inv, Owned(semM, semM_list), [Next]_kernelVars
  PROVE  Steps \/ Astray'
<1>1. CASE DelayStep
  BY <1>1, DelayQuiet DEF Steps
<1>2. CASE SemBStep
  BY <1>2, SemBQuiet DEF Steps
<1>3. CASE SemCStep
  BY <1>3, SemCQuiet DEF Steps
<1>4. CASE SemMStep
  <2>1. ListInv(semM_list, SemMs) /\ UNCHANGED <<semBVars, semCVars, msgQVars>>
    BY <1>4 DEF Inv, ListsInv, SemMStep
  <2>2. ASSUME NEW s \in ToSet(semM_list), NEW n \in Timeouts, semM_take(s, n)
        PROVE  Steps \/ Astray'
    <3>1. s \in SemMs /\ dlist_check(semM_list, s) /\ n \in Nat
      BY <2>1, Listed, KernelAssumption
    <3> QED
      BY <2>2, <3>1, TakeIs DEF Steps
  <2>3. ASSUME semM_wakeup PROVE Steps
    BY <2>3, WakeupQuiet DEF Steps
  <2>4. ASSUME NEW s \in ToSet(semM_list), semM_give(s) PROVE Steps
    BY <2>1, <2>4, Listed, GiveIs DEF Steps
  <2>5. ASSUME NEW s \in SemMs, semM_init(s) PROVE Steps
    BY <2>5, SemMInitQuiet DEF Steps
  <2> QED
    BY <1>4, <2>2, <2>3, <2>4, <2>5 DEF SemMStep
<1>5. CASE MsgQStep
  BY <1>5, MsgQQuiet DEF Steps
<1>6. CASE TaskStep
  BY <1>6, TaskIs DEF Steps
<1>7. CASE tick_announce
  BY <1>7, TickQuiet DEF Steps
<1>8. CASE UNCHANGED kernelVars
  BY <1>8 DEF kernelVars, schedVars, Steps
<1> QED
  BY <1>1, <1>2, <1>3, <1>4, <1>5, <1>6, <1>7, <1>8 DEF Next

-----------------------------------------------------------------------------
(* A mutex in use only has an owner; a task runs above its own priority    *)
(* only while it owns a mutex.                                             *)

LEMMA OwnedKeeps ==
  ASSUME Owned(semM, semM_list), Steps
  PROVE  Owned(semM', semM_list')
<1>1. CASE Quiet
  BY <1>1 DEF Quiet, Owned
<1>2. ASSUME NEW s, Took(s) PROVE Owned(semM', semM_list')
  BY <1>2 DEF Took, Owned
<1>3. ASSUME NEW s, Blocked(s) PROVE Owned(semM', semM_list')
  BY <1>3 DEF Blocked, Owned
<1>4. ASSUME NEW s, Gave(s) PROVE Owned(semM', semM_list')
  BY <1>4 DEF Gave, Released, Owned
<1>5. ASSUME NEW t, Created(t) \/ Ended(t) PROVE Owned(semM', semM_list')
  BY <1>5 DEF Created, Ended, Owned, semMVars
<1>6. ASSUME NEW t, Deleted(t) PROVE Owned(semM', semM_list')
  BY <1>6 DEF Deleted, GaveBack, Owned
<1>7. CASE UNCHANGED semMVars
  BY <1>7 DEF Owned, semMVars
<1> QED
  BY <1>1, <1>2, <1>3, <1>4, <1>5, <1>6, <1>7 DEF Steps

\* A task is at its own priority, or above it and an owner.
Boosts(ks, f) ==
  \A t \in Task : ks.tcb[t].status # "FREE"
    => /\ ks.tcb[t].task_priority <= ks.tcb[t].origin_pri
       /\ \/ ks.tcb[t].task_priority = ks.tcb[t].origin_pri
          \/ \E s \in SemMs : f[s].owner_tcb = t

LEMMA GaveBoosts ==
  ASSUME Inv, Boosts(k, semM), NEW s, Gave(s)
  PROVE  Boosts(k', semM')
<1> DEFINE h == get_highest_wait_pri(semM')
           o == k.tcb[current].origin_pri
           p == Min({h, o})
<1>1. /\ k \in KernelState /\ current \in Task /\ k.tcb[current].status = "READY"
      /\ ListInv(semM_list, SemMs) /\ MayCall
  BY DEF Inv, KInv, ReadyInv, CurInv, ListsInv, Gave
<1>2. /\ h \in Priority
      /\ \/ h = LOWEST
         \/ \E x \in SemMs : semM'[x].owner_tcb = current
  BY <1>1, HighestWaitIs DEF Gave
<1>3. o \in Priority
  BY <1>1 DEF KernelState, OS_TCB
<1>4. Priority \subseteq Nat /\ \A q \in Priority : q <= LOWEST
  BY ReadyQAssumption DEF Priority, LOWEST
<1> HIDE DEF h, o
<1>5. p \in {h, o} /\ p <= h /\ p <= o
  <2>1. {h, o} \in SUBSET Nat /\ {h, o} # {}
    BY <1>2, <1>3, <1>4
  <2> QED
    BY <2>1, MinIsLeast
<1>6. GivenBy(k, k', current, p)
  BY DEF Gave, h, o
<1> HIDE DEF p
<1>7. p = o \/ \E x \in SemMs : semM'[x].owner_tcb = current
  BY <1>2, <1>3, <1>4, <1>5
<1>8. ASSUME NEW t \in Task, t # current, k'.tcb[t].status # "FREE"
      PROVE  /\ k'.tcb[t].task_priority <= k'.tcb[t].origin_pri
             /\ \/ k'.tcb[t].task_priority = k'.tcb[t].origin_pri
                \/ \E x \in SemMs : semM'[x].owner_tcb = t
  <2>1. k.tcb[t].status # "FREE" /\ SamePriority(k, k', t)
    BY <1>6, <1>8 DEF GivenBy
  <2>2. (\E x \in SemMs : semM[x].owner_tcb = t) => \E x \in SemMs : semM'[x].owner_tcb = t
    BY <1>8 DEF Gave, Released
  <2> QED
    BY <2>1, <2>2 DEF Boosts, SamePriority
<1>9. /\ k'.tcb[current].task_priority <= k'.tcb[current].origin_pri
      /\ \/ k'.tcb[current].task_priority = k'.tcb[current].origin_pri
         \/ \E x \in SemMs : semM'[x].owner_tcb = current
  <2> DEFINE c == k.tcb[current].task_priority
             d == k'.tcb[current].task_priority
  <2>1. c <= o /\ c \in Int
    BY <1>1, PrioritiesAreInt DEF Boosts, o
  <2>2. k'.tcb[current].origin_pri = o /\ d = IF p > c THEN p ELSE c
    BY <1>6 DEF GivenBy, o
  <2> HIDE DEF c
  <2>3. p \in Int /\ o \in Int
    BY <1>2, <1>3, <1>4, <1>5
  <2>4. d <= o
    BY <1>5, <2>1, <2>2, <2>3
  <2>5. p = o => d = o
    BY <2>1, <2>2, <2>3
  <2> QED
    BY <1>7, <2>2, <2>4, <2>5
<1> QED
  BY <1>8, <1>9 DEF Boosts

LEMMA BoostsKeeps ==
  ASSUME Inv, Boosts(k, semM), Steps, k' \in KernelState
  PROVE  Boosts(k', semM')
<1>0. /\ k \in KernelState /\ current \in Task /\ k.tcb[current].status = "READY"
  BY DEF Inv, KInv, ReadyInv, CurInv
<1>1. CASE Quiet
  BY <1>1 DEF Quiet, Calm, SamePriority, Boosts
<1>2. ASSUME NEW s, Took(s) PROVE Boosts(k', semM')
  <2>1. ASSUME NEW t \in Task, NEW x \in SemMs, semM[x].owner_tcb = t
        PROVE  semM'[x].owner_tcb = t
    BY <1>2, <2>1, ReadyQAssumption DEF Took
  <2> QED
    BY <1>2, <2>1 DEF Took, Boosts
<1>3. ASSUME NEW s, Blocked(s) PROVE Boosts(k', semM')
  <2>1. ASSUME NEW t \in Task, k'.tcb[t].status # "FREE"
        PROVE  /\ k'.tcb[t].task_priority <= k'.tcb[t].origin_pri
               /\ \/ k'.tcb[t].task_priority = k'.tcb[t].origin_pri
                  \/ \E x \in SemMs : semM'[x].owner_tcb = t
    <3>1. /\ k.tcb[t].status # "FREE" /\ k'.tcb[t].origin_pri = k.tcb[t].origin_pri
          /\ k'.tcb[t].task_priority <= k.tcb[t].task_priority
          /\ \/ k'.tcb[t].task_priority = k.tcb[t].task_priority
             \/ \E x \in SemMs : semM[x].owner_tcb = t
      BY <1>0, <1>3, <2>1 DEF Blocked, Inheriting
    <3>2. \A x \in SemMs : semM'[x].owner_tcb = semM[x].owner_tcb
      BY <1>3 DEF Blocked
    <3>3. /\ k.tcb[t].task_priority \in Int /\ k'.tcb[t].task_priority \in Int
          /\ k.tcb[t].origin_pri \in Int
      BY <1>0, PrioritiesAreInt, ReadyQAssumption DEF KernelState, OS_TCB, Priority
    <3> QED
      BY <3>1, <3>2, <3>3 DEF Boosts
  <2> QED
    BY <2>1 DEF Boosts
<1>4. ASSUME NEW s, Gave(s) PROVE Boosts(k', semM')
  BY <1>4, GaveBoosts
<1>5. ASSUME NEW t, Created(t) PROVE Boosts(k', semM')
  <2>1. k'.tcb[t].task_priority <= k'.tcb[t].origin_pri
    <3>1. t \in Task
      BY <1>5, KernelAssumption DEF Created
    <3> QED
      BY <1>5, <3>1, PrioritiesAreInt DEF Created
  <2> QED
    BY <1>5, <2>1 DEF Created, OnlyTask, Boosts, semMVars
<1>6. ASSUME NEW t, Deleted(t) PROVE Boosts(k', semM')
  BY <1>6 DEF Deleted, Gone, GaveBack, SamePriority, Boosts
<1>7. ASSUME NEW t, Ended(t) PROVE Boosts(k', semM')
  BY <1>7 DEF Ended, OnlyTask, Boosts, semMVars
<1>8. CASE UNCHANGED <<k, ctx, semMVars>>
  BY <1>8 DEF Boosts, semMVars
<1> QED
  BY <1>1, <1>2, <1>3, <1>4, <1>5, <1>6, <1>7, <1>8 DEF Steps

\* Who owns mutexes in the first state: nobody.
LEMMA InitMutexes ==
  ASSUME Init
  PROVE  /\ Started(k) /\ ctx = [t \in Task |-> Run]
         /\ \A s \in SemMs : semM[s].owner_tcb = NULL /\ semM[s].wait_list = << >>
<1>1. PICK pri \in [StartTasks -> UserPri], order \in Listings(StartTasks) :
        k = start(pri, order)
  BY DEF Init
<1>2. order \in Seq(StartTasks) /\ NoDuplicates(order)
  BY KernelAssumption, ListingIs
<1>3. Started(k)
  BY <1>1, <1>2, StartKeeps
<1>4. semM = [s \in SemMs |-> semM_new] /\ ctx = [t \in Task |-> Run]
  BY DEF Init, semM_start
<1> QED
  BY <1>3, <1>4 DEF semM_new

MutexInv == Inv /\ Owned(semM, semM_list)

LEMMA MutexInvKeeps ==
  ASSUME Disposable \cap MsgQs = {}
  PROVE  /\ Init => MutexInv
         /\ MutexInv /\ [Next]_kernelVars
              => (MutexInv' /\ Steps /\ k' \in KernelState) \/ GoesAstray
<1>1. ASSUME Init PROVE MutexInv
  BY <1>1, InitKeeps, InitMutexes DEF MutexInv, Owned
<1>2. ASSUME MutexInv, [Next]_kernelVars, ~ GoesAstray
      PROVE  MutexInv' /\ Steps /\ k' \in KernelState
  <2>1. Inv'
    BY <1>2, NextKeeps DEF MutexInv
  <2>2. Steps
    <3>1. ~ Astray'
      <4>1. (Inv => ~ Astray)'
        BY InvRuns, PTL
      <4> QED
        BY <2>1, <4>1
    <3> QED
      BY <1>2, <3>1, StepIs DEF MutexInv
  <2>3. Owned(semM', semM_list')
    BY <1>2, <2>2, OwnedKeeps DEF MutexInv
  <2>4. k' \in KernelState
    BY <2>1 DEF Inv, KInv, ReadyInv
  <2> QED
    BY <2>1, <2>2, <2>3, <2>4 DEF MutexInv
<1> QED
  BY <1>1, <1>2

\* A task runs above its own priority only while it owns a mutex: semM_give
\* lowers the giver to its own priority with the last mutex that it owns, and a
\* task that is created again starts at its own.  It holds until a task meets a
\* dead owner.
THEOREM BoostsEnd ==
  ASSUME Disposable \cap MsgQs = {}
  PROVE  Spec => [](~ Astray => BoostOnlyWhileOwning)
<1> DEFINE I == MutexInv /\ Boosts(k, semM)
<1>1. Init => I
  <2> SUFFICES ASSUME Init PROVE I
    OBVIOUS
  <2>1. MutexInv
    BY MutexInvKeeps
  <2>2. ASSUME NEW t \in Task
        PROVE  /\ k.tcb[t].task_priority = k.tcb[t].origin_pri
               /\ k.tcb[t].task_priority <= k.tcb[t].origin_pri
    <3>1. k \in KernelState /\ k.tcb[t].task_priority = k.tcb[t].origin_pri
      BY InitMutexes DEF Started, KInv, ReadyInv
    <3> QED
      BY <3>1, PrioritiesAreInt
  <2> QED
    BY <2>1, <2>2 DEF Boosts
<1>2. (I \/ Astray) /\ [Next]_kernelVars => (I \/ Astray)'
  BY MutexInvKeeps, BoostsKeeps, AstrayStays DEF MutexInv, GoesAstray
<1>3. I => BoostOnlyWhileOwning
  BY DEF Boosts, BoostOnlyWhileOwning
<1> QED
  BY <1>1, <1>2, <1>3, PTL DEF Spec

-----------------------------------------------------------------------------
(* Where no task is deleted and none ends, no owner is dead.               *)

\* The tasks in the list of a mutex.
LEMMA WaitersAre ==
  ASSUME NEW ks, NEW f, NEW l, MInv(ks, f, l, {}), NEW s \in SemMs
  PROVE  /\ f[s].wait_list \in Seq(Task) /\ f[s].owner_tcb \in Task \cup {NULL}
         /\ \A i \in 1 .. Len(f[s].wait_list) : dlist_check(f[s].wait_list, f[s].wait_list[i])
         /\ \A t : dlist_check(f[s].wait_list, t) <=> /\ t \in Task
                                                     /\ ks.tcb[t].status = "PEND_SEM_M"
                                                     /\ ks.tcb[t].pend_obj = s
<1>1. /\ f[s].wait_list \in Seq(Task) /\ f[s].owner_tcb \in Task \cup {NULL}
      /\ HoldsBut(ks, f[s].wait_list, "PEND_SEM_M", s, {})
  BY DEF MInv, SEM_MUX, HoldsBut
<1>2. \A t : dlist_check(f[s].wait_list, t) => t \in Task
  BY <1>1 DEF dlist_check
<1> QED
  BY <1>1, <1>2 DEF HoldsBut, dlist_check

OwnersLive(ks, f) ==
  \A x \in SemMs : f[x].owner_tcb # NULL => ks.tcb[f[x].owner_tcb].status # "FREE"

\* The mutex that the chain goes on with has an owner.
HasOwner(a) == a.s \in SemMs => a.objs[a.s].owner_tcb # NULL

\* A raise kills nobody and makes nobody the owner.
LEMMA BoostedStayLive ==
  ASSUME NEW ks, NEW n, NEW f, NEW g, Boosted(ks, n), SameButPri(f, g), OwnersLive(ks, f),
         \A x \in SemMs : f[x].owner_tcb \in Task \cup {NULL}
  PROVE  OwnersLive(n, g)
<1> SUFFICES ASSUME NEW x \in SemMs, g[x].owner_tcb # NULL
             PROVE  n.tcb[g[x].owner_tcb].status # "FREE"
  BY DEF OwnersLive
<1>1. g[x].owner_tcb = f[x].owner_tcb
  BY DEF SameButPri
<1>2. g[x].owner_tcb \in Task /\ ks.tcb[g[x].owner_tcb].status # "FREE"
  BY <1>1 DEF OwnersLive
<1> QED
  BY <1>2 DEF Boosted

\* One call of _up_owner_pri meets no dead owner.
LEMMA UpOwnerLive ==
  ASSUME NEW a, NEW l, ChainInv(a, l), IsCall(a), HasOwner(a), OwnersLive(a.k, a.objs),
         a.ok, NEW p \in Priority, NEW b, b = up_owner_pri(a, p)
  PROVE  /\ ChainInv(b, l) /\ IsCall(b) /\ HasOwner(b) /\ OwnersLive(b.k, b.objs) /\ b.ok
<1>1. CASE a.s \notin SemMs
  <2>1. b = a
    BY <1>1 DEF up_owner_pri
  <2> QED
    BY <2>1
<1>2. CASE a.s \in SemMs
  <2> DEFINE o    == a.objs[a.s].owner_tcb
             dead == /\ a.k.tcb[o].task_priority > p
                     /\ a.k.tcb[o].status = "FREE" /\ a.k.tcb[o].left = "READY"
             y    == a.ok /\ ~ dead
  <2>1. MInv(a.k, a.objs, l, {}) /\ o # NULL /\ a.k.tcb[o].status # "FREE"
    BY <1>2 DEF ChainInv, HasOwner, OwnersLive
  <2>2. y
    BY <2>1, Zenon
  <2>3. \E n, g, x : b = [k |-> n, objs |-> g, s |-> x, ok |-> y]
    BY <1>2, <2>1, Zenon DEF up_owner_pri
  <2> HIDE DEF y
  <2>4. b.ok
    <3>1. b.ok = y
      BY <2>3
    <3> QED
      BY <2>2, <3>1, Zenon
  <2>5. IsCall(b)
    BY CallIs
  <2>6. /\ ChainInv(b, l) /\ Boosted(a.k, b.k) /\ SameButPri(a.objs, b.objs)
    BY <2>4, UpOwnerKeeps
  <2>7. /\ o \in Task
        /\ b.s = IF a.k.tcb[o].task_priority > p /\ status_of(a.k.tcb[o]) = "PEND_SEM_M"
                 THEN a.k.tcb[o].pend_obj ELSE NULL
    BY <1>2, <2>4, UpOwnerIs
  <2>8. HasOwner(b)
    <3>1. NULL \notin SemMs
      BY KernelAssumption, ReadyQAssumption
    <3>2. status_of(a.k.tcb[o]) = "PEND_SEM_M"
            => a.objs[a.k.tcb[o].pend_obj].owner_tcb # NULL
      BY <2>1, <2>7 DEF MInv, status_of
    <3> HIDE DEF o
    <3> QED
      BY <2>6, <2>7, <3>1, <3>2 DEF HasOwner, SameButPri
  <2>9. OwnersLive(b.k, b.objs)
    <3>1. \A x \in SemMs : a.objs[x].owner_tcb \in Task \cup {NULL}
      BY <2>1 DEF MInv, SEM_MUX
    <3>2. Boosted(a.k, b.k) /\ SameButPri(a.objs, b.objs)
      BY <2>6
    <3> QED
      BY <3>1, <3>2, BoostedStayLive, Zenon
  <2> QED
    BY <2>4, <2>5, <2>6, <2>8, <2>9
<1> QED
  BY <1>1, <1>2

\* Nor does the whole chain.
LEMMA RaisedLive ==
  ASSUME NEW ks, ReadyInv(ks, {}), TicksLeft(ks), MInv(ks, semM, semM_list, {}),
         OwnersLive(ks, semM), NEW s \in SemMs, semM[s].owner_tcb # NULL, NEW p \in Priority
  PROVE  raised(ks, s, p).ok
<1>1. MaxCalls \in Nat
  BY ReadyQAssumption, FS_CardinalityType DEF MaxCalls
<1>2. PICK f : /\ f[0] = [k |-> ks, objs |-> semM, s |-> s, ok |-> TRUE]
               /\ \A i \in 1 .. MaxCalls : f[i] = up_owner_pri(f[i - 1], p)
               /\ raised(ks, s, p) = f[MaxCalls]
  BY <1>1, RaisedSteps
<1> DEFINE P(i) == /\ ChainInv(f[i], semM_list) /\ IsCall(f[i]) /\ HasOwner(f[i])
                   /\ OwnersLive(f[i].k, f[i].objs) /\ f[i].ok
           S == {i \in Nat : i <= MaxCalls => P(i)}
<1>3. 0 \in S
  <2>1. f[0].k = ks /\ f[0].objs = semM /\ f[0].s = s /\ f[0].ok /\ IsCall(f[0])
    BY <1>2 DEF IsCall
  <2> QED
    BY <2>1 DEF ChainInv, HasOwner
<1>4. ASSUME NEW i \in Nat, i \in S PROVE i + 1 \in S
  <2> SUFFICES ASSUME i + 1 <= MaxCalls PROVE P(i + 1)
    OBVIOUS
  <2>1. P(i)
    BY <1>1, <1>4
  <2>2. f[i + 1] = up_owner_pri(f[i], p)
    <3>1. i + 1 \in 1 .. MaxCalls /\ (i + 1) - 1 = i
      BY <1>1
    <3> QED
      BY <1>2, <3>1
  <2> QED
    BY <2>1, <2>2, UpOwnerLive
<1>5. P(MaxCalls)
  <2> HIDE DEF S
  <2>1. MaxCalls \in S
    BY <1>1, <1>3, <1>4, Induction
  <2> QED
    BY <1>1, <2>1 DEF S
<1> QED
  BY <1>2, <1>5

\* No step makes a dead task an owner or an owner a dead task.
LEMMA OwnersLiveKeeps ==
  ASSUME Inv, OwnersLive(k, semM), Steps, Killable = {}
  PROVE  OwnersLive(k', semM')
<1>0. /\ MInv(k, semM, semM_list, {}) /\ current \in Task
      /\ k.tcb[current].status = "READY"
      /\ \A x \in SemMs : semM[x].owner_tcb \in Task \cup {NULL}
  BY DEF Inv, CurInv, MInv, SEM_MUX
<1>1. CASE Quiet
  BY <1>0, <1>1 DEF Quiet, Calm, OwnersLive
<1>2. ASSUME NEW s, Took(s) PROVE OwnersLive(k', semM')
  BY <1>0, <1>2 DEF Took, OwnersLive
<1>3. ASSUME NEW s, Blocked(s) PROVE OwnersLive(k', semM')
  BY <1>0, <1>3 DEF Blocked, OwnersLive
<1>4. ASSUME NEW s, Gave(s) PROVE OwnersLive(k', semM')
  <2>1. ASSUME NEW t \in Task, k.tcb[t].status # "FREE" PROVE k'.tcb[t].status # "FREE"
    BY <1>4, <2>1 DEF Gave, GivenBy
  <2>2. s \in SemMs /\ Released(s, semM')
    BY <1>4 DEF Gave
  <2>3. \A x \in SemMs \ {s} : semM'[x].owner_tcb = semM[x].owner_tcb
    BY <2>2 DEF Released
  <2>4. ASSUME semM'[s].owner_tcb # NULL
        PROVE  /\ semM'[s].owner_tcb \in Task
               /\ k.tcb[semM'[s].owner_tcb].status # "FREE"
    <3> DEFINE w == semM[s].wait_list
    <3>1. ~ DL_EMPTY(w) /\ semM'[s].owner_tcb = DL_FIRST(w)
      BY <2>2, <2>4 DEF Released
    <3>2. w \in Seq(Task)
      BY <1>0, <2>2, WaitersAre
    <3> HIDE DEF w
    <3>3. dlist_check(w, DL_FIRST(w))
      BY <3>1, <3>2 DEF dlist_check, DL_EMPTY, DL_FIRST
    <3> QED
      BY <1>0, <2>2, <3>1, <3>3, WaitersAre DEF w
  <2> QED
    BY <1>0, <2>1, <2>2, <2>3, <2>4 DEF OwnersLive
<1>5. ~ \E t : Created(t) \/ Deleted(t) \/ Ended(t)
  BY DEF Created, Deleted, Ended
<1>6. CASE UNCHANGED <<k, ctx, semMVars>>
  BY <1>6 DEF OwnersLive, semMVars
<1> QED
  BY <1>1, <1>2, <1>3, <1>4, <1>5, <1>6 DEF Steps

LiveInv == MutexInv /\ OwnersLive(k, semM)

LEMMA LiveNotAstray == LiveInv => ~ GoesAstray
<1> SUFFICES ASSUME LiveInv PROVE ~ GoesAstray
  OBVIOUS
<1>1. /\ ReadyInv(k, {}) /\ TicksLeft(k) /\ MInv(k, semM, semM_list, {})
      /\ k \in KernelState /\ current \in Task /\ OwnersLive(k, semM)
  BY DEF LiveInv, MutexInv, Inv, KInv, ReadyInv, CurInv
<1>2. k.tcb[current].task_priority \in Priority
  BY <1>1, PrioritiesAreInt
<1> QED
  BY <1>1, <1>2, RaisedLive DEF GoesAstray

LEMMA LiveInvKeeps ==
  ASSUME Disposable \cap MsgQs = {}, Killable = {}
  PROVE  /\ Init => LiveInv
         /\ LiveInv /\ [Next]_kernelVars
              => LiveInv' /\ MutexInv' /\ Steps /\ k' \in KernelState
<1>1. ASSUME Init PROVE LiveInv
  BY <1>1, MutexInvKeeps, InitMutexes DEF LiveInv, OwnersLive
<1>2. ASSUME LiveInv, [Next]_kernelVars
      PROVE  LiveInv' /\ MutexInv' /\ Steps /\ k' \in KernelState
  <2>1. ~ GoesAstray
    BY <1>2, LiveNotAstray
  <2>2. MutexInv' /\ Steps /\ k' \in KernelState
    BY <1>2, <2>1, MutexInvKeeps DEF LiveInv
  <2>3. OwnersLive(k', semM')
    BY <1>2, <2>2, OwnersLiveKeeps DEF LiveInv, MutexInv
  <2> QED
    BY <2>2, <2>3 DEF LiveInv
<1> QED
  BY <1>1, <1>2

-----------------------------------------------------------------------------
(* A task in semM_take waits, or gave up, or owns the mutex.               *)

Takers(ks, f, l, c) ==
  \A t \in Task : c[t].call = "semM_take" =>
    /\ c[t].obj \in SemMs /\ dlist_check(l, c[t].obj)
    /\ \/ ks.tcb[t].status = "PEND_SEM_M" /\ ks.tcb[t].pend_obj = c[t].obj
       \/ /\ ks.tcb[t].status = "READY"
          /\ ks.tcb[t].delay_ticks = 0 \/ f[c[t].obj].owner_tcb = t

\* The waiter that becomes ready when s is given is the new owner of s.
LEMMA GivenToOwner ==
  ASSUME Inv, Inv', NEW s, Gave(s), NEW t \in Task, k.tcb[t].status = "PEND_SEM_M",
         k'.tcb[t].status = "READY"
  PROVE  semM'[s].owner_tcb = t /\ k.tcb[t].pend_obj = s
<1> DEFINE x == k.tcb[t].pend_obj
           w == semM[s].wait_list
<1>1. /\ MInv(k, semM, semM_list, {}) /\ MInv(k', semM', semM_list', {})
      /\ s \in SemMs /\ Released(s, semM')
  BY DEF Inv, Gave
<1>2. x \in SemMs /\ dlist_check(semM[x].wait_list, t)
  BY <1>1 DEF MInv, HoldsBut
<1>3. \A y \in SemMs : ~ dlist_check(semM'[y].wait_list, t)
  BY <1>1 DEF MInv, HoldsBut
<1>4. x = s
  BY <1>1, <1>2, <1>3 DEF Released
<1>5. w \in Seq(Task) /\ NoDuplicates(w) /\ dlist_check(w, t) /\ ~ DL_EMPTY(w)
  <2>1. w \in Seq(Task) /\ NoDuplicates(w) /\ dlist_check(w, t)
    BY <1>1, <1>2, <1>4 DEF MInv, HoldsBut
  <2> QED
    BY <2>1 DEF dlist_check, DL_EMPTY
<1>6. semM'[s].wait_list = dlist_rest(w) /\ semM'[s].owner_tcb = DL_FIRST(w)
  BY <1>1, <1>5 DEF Released, rest
<1> HIDE DEF w
<1>7. t = DL_FIRST(w)
  BY <1>1, <1>3, <1>5, <1>6, RestMembers
<1> QED
  BY <1>4, <1>6, <1>7

LEMMA TakersKeep ==
  ASSUME Inv, Inv', Takers(k, semM, semM_list, ctx), Steps, Killable = {}
  PROVE  Takers(k', semM', semM_list', ctx')
<1>0. current \in Task /\ ctx \in [Task -> Contexts]
  BY DEF Inv, CurInv, CtxInv
<1>1. CASE Quiet
  <2> SUFFICES ASSUME NEW t \in Task, ctx'[t].call = "semM_take"
               PROVE  /\ ctx'[t].obj \in SemMs /\ dlist_check(semM_list', ctx'[t].obj)
                      /\ \/ /\ k'.tcb[t].status = "PEND_SEM_M"
                            /\ k'.tcb[t].pend_obj = ctx'[t].obj
                         \/ /\ k'.tcb[t].status = "READY"
                            /\ \/ k'.tcb[t].delay_ticks = 0
                               \/ semM'[ctx'[t].obj].owner_tcb = t
    BY DEF Takers
  <2>1. t # current /\ ctx'[t] = ctx[t]
    BY <1>1 DEF Quiet, StaysOut
  <2>2. /\ ctx[t].obj \in SemMs /\ dlist_check(semM_list, ctx[t].obj)
        /\ \/ k.tcb[t].status = "PEND_SEM_M" /\ k.tcb[t].pend_obj = ctx[t].obj
           \/ /\ k.tcb[t].status = "READY"
              /\ k.tcb[t].delay_ticks = 0 \/ semM[ctx[t].obj].owner_tcb = t
    BY <2>1 DEF Takers
  <2>3. /\ dlist_check(semM_list', ctx[t].obj)
        /\ semM'[ctx[t].obj].owner_tcb = semM[ctx[t].obj].owner_tcb
    BY <1>1, <2>2 DEF Quiet
  <2>4. CASE k.tcb[t].status = "PEND_SEM_M" /\ k.tcb[t].pend_obj = ctx[t].obj
    BY <1>1, <2>1, <2>2, <2>3, <2>4 DEF Quiet, Calm
  <2>5. CASE /\ k.tcb[t].status = "READY"
             /\ k.tcb[t].delay_ticks = 0 \/ semM[ctx[t].obj].owner_tcb = t
    BY <1>1, <2>1, <2>2, <2>3, <2>5 DEF Quiet, Calm
  <2> QED
    BY <2>2, <2>4, <2>5
<1>2. ASSUME NEW s, Took(s) PROVE Takers(k', semM', semM_list', ctx')
  <2>1. ASSUME NEW t \in Task, NEW x \in SemMs, semM[x].owner_tcb = t
        PROVE  semM'[x].owner_tcb = t
    BY <1>2, <2>1, ReadyQAssumption DEF Took
  <2> QED
    BY <1>2, <2>1 DEF Took, Takers
<1>3. ASSUME NEW s, Blocked(s) PROVE Takers(k', semM', semM_list', ctx')
  <2>1. /\ ctx'[current].call = "semM_take" /\ ctx'[current].obj = s
        /\ \A t \in Task \ {current} : ctx'[t] = ctx[t]
    BY <1>0, <1>3 DEF Blocked
  <2> QED
    BY <1>0, <1>3, <2>1 DEF Blocked, Takers
<1>4. ASSUME NEW s, Gave(s) PROVE Takers(k', semM', semM_list', ctx')
  <2> SUFFICES ASSUME NEW t \in Task, ctx[t].call = "semM_take"
               PROVE  /\ ctx[t].obj \in SemMs /\ dlist_check(semM_list, ctx[t].obj)
                      /\ \/ /\ k'.tcb[t].status = "PEND_SEM_M"
                            /\ k'.tcb[t].pend_obj = ctx[t].obj
                         \/ /\ k'.tcb[t].status = "READY"
                            /\ \/ k'.tcb[t].delay_ticks = 0
                               \/ semM'[ctx[t].obj].owner_tcb = t
    BY <1>4 DEF Takers, Gave
  <2>1. t # current
    BY <1>4, RunsIsOut DEF Gave
  <2>2. /\ ctx[t].obj \in SemMs /\ dlist_check(semM_list, ctx[t].obj)
        /\ \/ k.tcb[t].status = "PEND_SEM_M" /\ k.tcb[t].pend_obj = ctx[t].obj
           \/ /\ k.tcb[t].status = "READY"
              /\ k.tcb[t].delay_ticks = 0 \/ semM[ctx[t].obj].owner_tcb = t
    BY DEF Takers
  <2>3. /\ k'.tcb[t].delay_ticks = k.tcb[t].delay_ticks
        /\ \/ /\ k'.tcb[t].status = k.tcb[t].status
              /\ k'.tcb[t].pend_obj = k.tcb[t].pend_obj
           \/ k.tcb[t].status = "PEND_SEM_M" /\ k'.tcb[t].status = "READY"
    BY <1>4, <2>1 DEF Gave, GivenBy
  <2>4. semM[ctx[t].obj].owner_tcb = t => semM'[ctx[t].obj].owner_tcb = t
    BY <1>4, <2>1, <2>2 DEF Gave, Released
  <2>5. CASE k.tcb[t].status = "READY"
    BY <2>2, <2>3, <2>4, <2>5
  <2>6. CASE k.tcb[t].status = "PEND_SEM_M" /\ k'.tcb[t].status = "READY"
    BY <1>4, <2>2, <2>6, GivenToOwner
  <2>7. CASE k.tcb[t].status = "PEND_SEM_M" /\ k'.tcb[t].status # "READY"
    BY <2>2, <2>3, <2>7
  <2> QED
    BY <2>2, <2>5, <2>6, <2>7
<1>5. ~ \E t : Created(t) \/ Deleted(t) \/ Ended(t)
  BY DEF Created, Deleted, Ended
<1>6. CASE UNCHANGED <<k, ctx, semMVars>>
  BY <1>6 DEF semMVars
<1> QED
  BY <1>1, <1>2, <1>3, <1>4, <1>5, <1>6 DEF Steps

\* When no task is deleted, a task that comes back from its wait in semM_take
\* with ticks left owns the mutex, as semM_take tells its caller.  (_free_semM
\* wakes the first waiter of a deleted owner without making it the owner.)
THEOREM WokenTakersOwn ==
  ASSUME Disposable \cap MsgQs = {}, Killable = {}
  PROVE  Spec => []WokenTakerOwns
<1> DEFINE I == LiveInv /\ Takers(k, semM, semM_list, ctx)
<1>1. Init => I
  BY LiveInvKeeps, InitMutexes DEF Takers, Run
<1>2. I /\ [Next]_kernelVars => I'
  BY LiveInvKeeps, TakersKeep DEF LiveInv, MutexInv
<1>3. I => WokenTakerOwns
  BY DEF Takers, WokenTakerOwns, Woken
<1> QED
  BY <1>1, <1>2, <1>3, PTL DEF Spec

-----------------------------------------------------------------------------
(* The order in which tasks wait for a mutex.                              *)

Ascending(ks, l) ==
  \A i, j \in 1 .. Len(l) :
    i < j => ks.tcb[l[i]].task_priority <= ks.tcb[l[j]].task_priority

\* _sort_pri_put keeps a list in order.
LEMMA SortPutAscending ==
  ASSUME NEW ks \in KernelState, NEW l \in Seq(Task), Ascending(ks, l), NEW t \in Task,
         NEW r, r = sort_pri_put(ks, l, t)
  PROVE  Ascending(ks, r)
<1> DEFINE pri(u) == ks.tcb[u].task_priority
           behind == {i \in 1 .. Len(l) : pri(l[i]) >= pri(t)}
           n == Len(l)
<1>1. n \in Nat /\ \A i \in 1 .. n : l[i] \in Task
  OBVIOUS
<1>2. \A u \in Task : pri(u) \in Int
  BY PrioritiesAreInt
<1>3. \A i, j \in 1 .. n : i <= j => pri(l[i]) <= pri(l[j])
  <2>1. \A i \in 1 .. n : pri(l[i]) \in Int
    BY <1>1, <1>2
  <2> QED
    BY <1>1, <2>1 DEF Ascending
<1>4. DL_EMPTY(l) <=> n = 0
  BY DEF DL_EMPTY
<1>5. n # 0 => Last(l) = l[n]
  BY DEF Last
<1>6. r = IF DL_EMPTY(l) \/ pri(Last(l)) < pri(t)
          THEN dlist_add(l, t) ELSE dlist_insert(l, Min(behind) - 1, t)
  BY DEF sort_pri_put
<1>7. CASE DL_EMPTY(l) \/ pri(Last(l)) < pri(t)
  <2>1. r = Append(l, t)
    BY <1>6, <1>7 DEF dlist_add
  <2>2. \A i \in 1 .. n : pri(l[i]) < pri(t)
    <3> SUFFICES ASSUME NEW i \in 1 .. n PROVE pri(l[i]) < pri(t)
      OBVIOUS
    <3>1. n # 0 /\ n \in 1 .. n /\ i <= n
      BY <1>1
    <3>2. pri(l[i]) <= pri(l[n]) /\ pri(l[n]) < pri(t)
      BY <1>3, <1>4, <1>5, <1>7, <3>1
    <3>3. pri(l[i]) \in Int /\ pri(l[n]) \in Int /\ pri(t) \in Int
      BY <1>1, <1>2, <3>1
    <3> HIDE DEF pri
    <3> QED
      BY <3>2, <3>3
  <2>3. Len(r) = n + 1 /\ r[n + 1] = t /\ \A i \in 1 .. n : r[i] = l[i]
    BY <2>1
  <2> HIDE DEF n, pri
  <2>4. ASSUME NEW i \in 1 .. n + 1, NEW j \in 1 .. n + 1, i < j
        PROVE  pri(r[i]) <= pri(r[j])
    <3>1. i \in 1 .. n /\ r[i] = l[i]
      BY <1>1, <2>3, <2>4
    <3>2. CASE j = n + 1
      <4>1. pri(l[i]) < pri(t) /\ pri(l[i]) \in Int /\ pri(t) \in Int
        BY <1>1, <1>2, <2>2, <3>1
      <4> QED
        BY <2>3, <3>1, <3>2, <4>1
    <3>3. CASE j # n + 1
      <4>1. j \in 1 .. n /\ r[j] = l[j] /\ i <= j
        BY <1>1, <2>3, <2>4, <3>3
      <4> QED
        BY <1>3, <3>1, <4>1
    <3> QED
      BY <3>2, <3>3
  <2> QED
    BY <2>3, <2>4 DEF Ascending, pri
<1>8. CASE ~ (DL_EMPTY(l) \/ pri(Last(l)) < pri(t))
  <2>1. n \in behind
    BY <1>1, <1>2, <1>4, <1>5, <1>8
  <2>2. behind \in SUBSET Nat
    OBVIOUS
  <2> DEFINE m == Min(behind)
  <2>3. m \in behind /\ \A i \in behind : m <= i
    <3> HIDE DEF behind
    <3> QED
      BY <2>1, <2>2, MinIsLeast
  <2>4. r = dlist_insert(l, m - 1, t)
    BY <1>6, <1>8
  <2> HIDE DEF m
  <2>5. /\ m \in 1 .. n /\ pri(l[m]) >= pri(t)
        /\ \A i \in 1 .. n : i < m => ~ (pri(l[i]) >= pri(t))
    BY <1>1, <2>3
  <2>6. /\ Len(r) = n + 1
        /\ \A j \in 1 .. n + 1 :
             r[j] = IF j <= m - 1 THEN l[j] ELSE IF j = m - 1 + 1 THEN t ELSE l[j - 1]
    BY <1>1, <2>4 DEF dlist_insert
  <2>7. \A j \in 1 .. n + 1 : /\ j < m => r[j] = l[j] /\ j \in 1 .. n
                              /\ j = m => r[j] = t
                              /\ j > m => r[j] = l[j - 1] /\ j - 1 \in 1 .. n
    BY <1>1, <2>5, <2>6
  <2> HIDE DEF n, pri, behind
  <2>8. ASSUME NEW i \in 1 .. n + 1, NEW j \in 1 .. n + 1, i < j
        PROVE  pri(r[i]) <= pri(r[j])
    <3>1. CASE j < m
      <4>1. /\ r[i] = l[i] /\ r[j] = l[j] /\ i \in 1 .. n /\ j \in 1 .. n /\ i <= j
        BY <1>1, <2>5, <2>7, <2>8, <3>1
      <4> QED
        BY <1>3, <4>1
    <3>2. CASE j = m
      <4>1. r[i] = l[i] /\ r[j] = t /\ i \in 1 .. n /\ i < m
        BY <1>1, <2>5, <2>7, <2>8, <3>2
      <4>2. pri(l[i]) \in Int /\ pri(t) \in Int /\ ~ (pri(l[i]) >= pri(t))
        BY <1>1, <1>2, <2>5, <4>1
      <4> QED
        BY <4>1, <4>2
    <3>3. CASE j > m /\ i < m
      <4>1. /\ r[i] = l[i] /\ r[j] = l[j - 1] /\ i \in 1 .. n /\ j - 1 \in 1 .. n
            /\ i <= j - 1
        BY <1>1, <2>5, <2>7, <2>8, <3>3
      <4> QED
        BY <1>3, <4>1
    <3>4. CASE j > m /\ i = m
      <4>1. r[i] = t /\ r[j] = l[j - 1] /\ j - 1 \in 1 .. n /\ m <= j - 1
        BY <1>1, <2>5, <2>7, <2>8, <3>4
      <4>2. pri(l[m]) <= pri(l[j - 1]) /\ pri(l[m]) >= pri(t)
        BY <1>3, <2>5, <4>1
      <4>3. pri(l[m]) \in Int /\ pri(l[j - 1]) \in Int /\ pri(t) \in Int
        BY <1>1, <1>2, <2>5, <4>1
      <4>4. pri(t) <= pri(l[j - 1])
        BY <4>2, <4>3
      <4> QED
        BY <4>1, <4>4
    <3>5. CASE j > m /\ i > m
      <4>1. /\ r[i] = l[i - 1] /\ r[j] = l[j - 1] /\ i - 1 \in 1 .. n /\ j - 1 \in 1 .. n
            /\ i - 1 <= j - 1
        BY <1>1, <2>5, <2>7, <2>8, <3>5
      <4> QED
        BY <1>3, <4>1
    <3> QED
      BY <1>1, <2>5, <3>1, <3>2, <3>3, <3>4, <3>5
  <2> QED
    BY <2>6, <2>8 DEF Ascending, pri
<1> QED
  BY <1>7, <1>8

\* The first task of a list in order is not less important than another.
LEMMA FirstAscending ==
  ASSUME NEW ks \in KernelState, NEW l \in Seq(Task), Ascending(ks, l), NEW t,
         dlist_check(l, t)
  PROVE  /\ ~ DL_EMPTY(l) /\ DL_FIRST(l) \in Task
         /\ ks.tcb[DL_FIRST(l)].task_priority <= ks.tcb[t].task_priority
<1>1. PICK i \in 1 .. Len(l) : l[i] = t
  BY DEF dlist_check
<1>2. Len(l) \in Nat /\ 1 \in 1 .. Len(l) /\ l[1] \in Task
  BY <1>1
<1>3. ks.tcb[l[1]].task_priority <= ks.tcb[t].task_priority
  <2>1. CASE i = 1
    BY <1>1, <1>2, <2>1, PrioritiesAreInt
  <2>2. CASE i # 1
    BY <1>1, <1>2, <2>2 DEF Ascending
  <2> QED
    BY <2>1, <2>2
<1> QED
  BY <1>2, <1>3 DEF DL_EMPTY, DL_FIRST

\* A list with some of its tasks taken out, and the priorities of those left.
LEMMA InOrderAscending ==
  ASSUME NEW ks, NEW n, NEW l, NEW m, Ascending(ks, l), InOrder(l, m),
         \A i \in 1 .. Len(m) : n.tcb[m[i]].task_priority = ks.tcb[m[i]].task_priority
  PROVE  Ascending(n, m)
<1> SUFFICES ASSUME NEW i \in 1 .. Len(m), NEW j \in 1 .. Len(m), i < j
             PROVE  n.tcb[m[i]].task_priority <= n.tcb[m[j]].task_priority
  BY DEF Ascending
<1>1. PICK a \in 1 .. Len(l), b \in 1 .. Len(l) : a < b /\ m[i] = l[a] /\ m[j] = l[b]
  BY DEF InOrder
<1>2. ks.tcb[l[a]].task_priority <= ks.tcb[l[b]].task_priority
  BY <1>1 DEF Ascending
<1> QED
  BY <1>1, <1>2

\* No task waits for a mutex while it owns one.
OwnersRun ==
  \A s \in SemMs : semM[s].owner_tcb # NULL
                     => k.tcb[semM[s].owner_tcb].status # "PEND_SEM_M"

Sorted(ks, f) == \A s \in SemMs : Ascending(ks, f[s].wait_list)

\* Waiters left and nobody's priority changed who still waits.
LEMMA SortedStays ==
  ASSUME Inv', Sorted(k, semM),
         \A x \in SemMs : InOrder(semM[x].wait_list, semM'[x].wait_list),
         \A t \in Task : k'.tcb[t].status = "PEND_SEM_M"
           => k'.tcb[t].task_priority = k.tcb[t].task_priority
  PROVE  Sorted(k', semM')
<1> SUFFICES ASSUME NEW x \in SemMs PROVE Ascending(k', semM'[x].wait_list)
  BY DEF Sorted
<1>1. MInv(k', semM', semM_list', {})
  BY DEF Inv
<1>2. \A i \in 1 .. Len(semM'[x].wait_list) :
        k'.tcb[semM'[x].wait_list[i]].task_priority = k.tcb[semM'[x].wait_list[i]].task_priority
  BY <1>1, WaitersAre
<1> QED
  BY <1>2, InOrderAscending DEF Sorted

\* Nobody who waits is raised when the owners run.
LEMMA WaitersNotRaised ==
  ASSUME Inv, OwnersRun, NEW s, Blocked(s), NEW t \in Task, k.tcb[t].status = "PEND_SEM_M"
  PROVE  t # current /\ k'.tcb[t].task_priority = k.tcb[t].task_priority
<1>1. t # current
  BY DEF Inv, CurInv
<1>2. \A x \in SemMs : semM[x].owner_tcb # t
  BY KernelAssumption, ReadyQAssumption DEF OwnersRun
<1>3. Inheriting(s)
  BY DEF Blocked
<1> QED
  BY <1>1, <1>2, <1>3 DEF Inheriting

LEMMA SortedKeeps ==
  ASSUME Inv, Inv', OwnersRun, Sorted(k, semM), Steps
  PROVE  Sorted(k', semM')
<1>0. /\ MInv(k, semM, semM_list, {}) /\ MInv(k', semM', semM_list', {})
      /\ k' \in KernelState /\ current \in Task
  BY DEF Inv, KInv, ReadyInv, CurInv
<1>1. CASE Quiet
  BY <1>1, SortedStays DEF Quiet, Calm, SamePriority
<1>2. ASSUME NEW s, Took(s) PROVE Sorted(k', semM')
  BY <1>2, SortedStays, InOrderSame DEF Took
<1>3. ASSUME NEW s, Blocked(s) PROVE Sorted(k', semM')
  <2>1. ASSUME NEW x \in SemMs PROVE Ascending(k', semM[x].wait_list)
    <3>1. \A i \in 1 .. Len(semM[x].wait_list) :
            k'.tcb[semM[x].wait_list[i]].task_priority
              = k.tcb[semM[x].wait_list[i]].task_priority
      BY <1>0, <1>3, WaitersAre, WaitersNotRaised
    <3>2. Ascending(k, semM[x].wait_list)
      BY DEF Sorted
    <3> QED
      BY <3>1, <3>2, InOrderAscending, InOrderSame
  <2>2. semM[s].wait_list \in Seq(Task)
    BY <1>0, <1>3, WaitersAre DEF Blocked
  <2>3. Ascending(k', sort_pri_put(k', semM[s].wait_list, current))
    BY <1>0, <1>3, <2>1, <2>2, SortPutAscending DEF Blocked
  <2> QED
    BY <1>3, <2>1, <2>3 DEF Blocked, Sorted
<1>4. ASSUME NEW s, Gave(s) PROVE Sorted(k', semM')
  <2>1. \A x \in SemMs : InOrder(semM[x].wait_list, semM'[x].wait_list)
    <3>1. s \in SemMs /\ semM[s].wait_list \in Seq(Task)
      BY <1>0, <1>4, WaitersAre DEF Gave
    <3>2. InOrder(semM[s].wait_list, rest(semM[s].wait_list))
      BY <3>1, InOrderRest, InOrderSame DEF rest
    <3> QED
      BY <1>4, <3>2, InOrderSame DEF Gave, Released
  <2>2. \A t \in Task : k'.tcb[t].status = "PEND_SEM_M"
          => k'.tcb[t].task_priority = k.tcb[t].task_priority
    BY <1>4 DEF Gave, GivenBy, SamePriority
  <2> QED
    BY <2>1, <2>2, SortedStays
<1>5. ASSUME NEW t, Created(t) \/ Ended(t) PROVE Sorted(k', semM')
  <2>1. \A x \in SemMs : InOrder(semM[x].wait_list, semM'[x].wait_list)
    BY <1>5, InOrderSame DEF Created, Ended, semMVars
  <2>2. \A u \in Task : k'.tcb[u].status = "PEND_SEM_M"
          => k'.tcb[u].task_priority = k.tcb[u].task_priority
    BY <1>5 DEF Created, Ended, OnlyTask
  <2> QED
    BY <2>1, <2>2, SortedStays
<1>6. ASSUME NEW t, Deleted(t) PROVE Sorted(k', semM')
  BY <1>6, SortedStays DEF Deleted, Gone, GaveBack, SamePriority
<1>7. CASE UNCHANGED <<k, ctx, semMVars>>
  BY <1>7 DEF semMVars
<1> QED
  BY <1>1, <1>2, <1>3, <1>4, <1>5, <1>6, <1>7 DEF Steps

LEMMA SortedIs ==
  ASSUME Sorted(k, semM)
  PROVE  WaitListSorted
  BY DEF Sorted, Ascending, WaitListSorted

\* As long as no task waits for a mutex while it owns one, the wait list of
\* every mutex is in priority order: _sort_pri_put puts each waiter in its place,
\* and time-outs, semM_give and task_delete take tasks out.  (Else _up_owner_pri
\* raises a waiting owner and leaves it where it is in its list.)  It holds until
\* a task meets a dead owner.
THEOREM WaitListsSorted ==
  ASSUME Disposable \cap MsgQs = {}
  PROVE  Spec /\ [](~ Astray => OwnersRun) => [](~ Astray => WaitListSorted)
<1> DEFINE I == MutexInv /\ Sorted(k, semM)
<1>1. Init => I
  BY MutexInvKeeps, InitMutexes DEF Sorted, Ascending
<1>2. (I \/ Astray) /\ (~ Astray => OwnersRun) /\ [Next]_kernelVars => (I \/ Astray)'
  BY MutexInvKeeps, SortedKeeps, AstrayStays DEF MutexInv, GoesAstray
<1>3. I => WaitListSorted
  BY SortedIs
<1> QED
  BY <1>1, <1>2, <1>3, PTL DEF Spec

-----------------------------------------------------------------------------
(* Priority inheritance.                                                   *)

\* The owner of a mutex, and its wait_pri, are not less important than a task
\* that waits for it.
Inherits(ks, f) ==
  \A s \in SemMs, t \in Task : dlist_check(f[s].wait_list, t)
    => /\ ks.tcb[f[s].owner_tcb].task_priority <= ks.tcb[t].task_priority
       /\ f[s].wait_pri <= ks.tcb[t].task_priority

\* A waiter of a mutex, which has an owner.
LEMMA WaiterIs ==
  ASSUME Inv, NEW x \in SemMs, NEW t \in Task, dlist_check(semM[x].wait_list, t)
  PROVE  /\ k.tcb[t].status = "PEND_SEM_M" /\ k.tcb[t].pend_obj = x /\ t # current
         /\ semM[x].owner_tcb \in Task /\ semM[x].owner_tcb # NULL
         /\ k.tcb[t].task_priority \in Int /\ semM[x].wait_pri \in Int
         /\ k.tcb[semM[x].owner_tcb].task_priority \in Int
<1>1. MInv(k, semM, semM_list, {}) /\ k \in KernelState /\ k.tcb[current].status = "READY"
  BY DEF Inv, KInv, ReadyInv, CurInv
<1>2. /\ k.tcb[t].status = "PEND_SEM_M" /\ k.tcb[t].pend_obj = x
      /\ semM[x].owner_tcb \in Task \cup {NULL}
  BY <1>1, WaitersAre
<1>3. semM[x].owner_tcb # NULL
  BY <1>1, <1>2 DEF MInv
<1>4. semM[x].wait_pri \in Int
  BY <1>1, ReadyQAssumption DEF MInv, SEM_MUX, Priority
<1> QED
  BY <1>1, <1>2, <1>3, <1>4, PrioritiesAreInt

\* Who waits after a step waited before it, or the running task blocked.
LEMMA WaitedBefore ==
  ASSUME Inv, Inv', NEW x \in SemMs, NEW t \in Task, dlist_check(semM'[x].wait_list, t),
         k'.tcb[t].status = "PEND_SEM_M"
           => k.tcb[t].status = "PEND_SEM_M" /\ k.tcb[t].pend_obj = k'.tcb[t].pend_obj
  PROVE  dlist_check(semM[x].wait_list, t)
<1>1. MInv(k, semM, semM_list, {}) /\ MInv(k', semM', semM_list', {})
  BY DEF Inv
<1>2. k'.tcb[t].status = "PEND_SEM_M" /\ k'.tcb[t].pend_obj = x
  BY <1>1, WaitersAre
<1>3. MInv(k, semM, semM_list, {})
  BY <1>1
<1> QED
  BY <1>2, <1>3, WaitersAre

LEMMA BlockedInherits ==
  ASSUME Inv, Inv', OwnersRun, OwnersLive(k, semM), Inherits(k, semM), NEW s, Blocked(s),
         NEW x \in SemMs, NEW t \in Task, dlist_check(semM'[x].wait_list, t)
  PROVE  /\ k'.tcb[semM'[x].owner_tcb].task_priority <= k'.tcb[t].task_priority
         /\ semM'[x].wait_pri <= k'.tcb[t].task_priority
<1> DEFINE o == semM[x].owner_tcb
           pri(u) == k.tcb[u].task_priority
           new(u) == k'.tcb[u].task_priority
<1>1. /\ current \in Task /\ MInv(k, semM, semM_list, {}) /\ MInv(k', semM', semM_list', {})
      /\ k \in KernelState /\ k' \in KernelState
  BY DEF Inv, CurInv, KInv, ReadyInv
<1>2. k'.tcb[t].status = "PEND_SEM_M" /\ k'.tcb[t].pend_obj = x
  BY <1>1, WaitersAre
<1>3. s \in SemMs /\ semM[s].owner_tcb # NULL /\ semM[s].owner_tcb # current /\ Inheriting(s)
  BY DEF Blocked
<1>4. /\ \A u \in Task \ {semM[s].owner_tcb} : new(u) = pri(u)
      /\ new(semM[s].owner_tcb) <= pri(current)
      /\ Heard(semM, semM', s, pri(current))
  <2>1. status_of(k.tcb[semM[s].owner_tcb]) # "PEND_SEM_M"
    BY <1>3 DEF OwnersRun, OwnersLive, status_of
  <2> QED
    BY <1>3, <2>1 DEF Inheriting
<1>5. semM'[x].owner_tcb = o
  BY DEF Blocked
<1>6. CASE t = current
  <2>1. x = s
    BY <1>2, <1>6 DEF Blocked
  <2>2. new(t) = pri(current)
    BY <1>1, <1>3, <1>4, <1>6
  <2> QED
    BY <1>4, <1>5, <2>1, <2>2 DEF Heard
<1>7. CASE t # current
  <2>1. k.tcb[t].status = "PEND_SEM_M" /\ k.tcb[t].pend_obj = x
    BY <1>2, <1>7 DEF Blocked
  <2>2. dlist_check(semM[x].wait_list, t)
    BY <1>1, <2>1, WaitersAre
  <2>3. /\ o \in Task /\ pri(t) \in Int /\ pri(o) \in Int /\ semM[x].wait_pri \in Int
    BY <2>2, WaiterIs
  <2>4. pri(o) <= pri(t) /\ semM[x].wait_pri <= pri(t)
    BY <2>2 DEF Inherits
  <2>5. new(t) = pri(t)
    BY <2>1, WaitersNotRaised
  <2>6. new(o) <= pri(o) /\ new(o) \in Int
    BY <1>1, <1>3, <2>3, PrioritiesAreInt DEF Inheriting
  <2>7. semM'[x].wait_pri <= semM[x].wait_pri /\ semM'[x].wait_pri \in Int
    <3>1. semM'[x].wait_pri \in Int
      BY <1>1, ReadyQAssumption DEF MInv, SEM_MUX, Priority
    <3> QED
      BY <1>4, <2>3, <3>1 DEF Heard
  <2> HIDE DEF o, pri, new
  <2>8. new(o) <= new(t) /\ semM'[x].wait_pri <= new(t)
    BY <2>3, <2>4, <2>5, <2>6, <2>7
  <2> QED
    BY <1>5, <2>8 DEF new
<1> QED
  BY <1>6, <1>7

LEMMA GaveInherits ==
  ASSUME Inv, Inv', Owned(semM, semM_list), Sorted(k, semM), Sorted(k', semM'),
         Inherits(k, semM), NEW s, Gave(s),
         NEW x \in SemMs, NEW t \in Task, dlist_check(semM'[x].wait_list, t)
  PROVE  /\ k'.tcb[semM'[x].owner_tcb].task_priority <= k'.tcb[t].task_priority
         /\ semM'[x].wait_pri <= k'.tcb[t].task_priority
<1> DEFINE h == get_highest_wait_pri(semM')
           g == k.tcb[current].origin_pri
           p == Min({h, g})
           pri(u) == k.tcb[u].task_priority
           new(u) == k'.tcb[u].task_priority
<1>1. /\ current \in Task /\ k.tcb[current].status = "READY"
      /\ MInv(k, semM, semM_list, {}) /\ MInv(k', semM', semM_list', {})
      /\ k \in KernelState /\ k' \in KernelState /\ ListInv(semM_list, SemMs)
  BY DEF Inv, CurInv, KInv, ReadyInv, ListsInv
<1>2. /\ s \in SemMs /\ semM[s].owner_tcb = current /\ Released(s, semM')
      /\ GivenBy(k, k', current, p) /\ semM' \in [SemMs -> SEM_MUX]
  BY DEF Gave
<1> HIDE DEF p
<1>3. k'.tcb[t].status = "PEND_SEM_M" /\ k'.tcb[t].pend_obj = x
  BY <1>1, WaitersAre
<1>4. t # current /\ k.tcb[t].status = "PEND_SEM_M" /\ k.tcb[t].pend_obj = x
  BY <1>2, <1>3 DEF GivenBy
<1>5. dlist_check(semM[x].wait_list, t)
  BY <1>1, <1>4, WaitersAre
<1>6. /\ \A u \in Task \ {current} : new(u) = pri(u)
      /\ new(current) = IF p > pri(current) THEN p ELSE pri(current)
  BY <1>2 DEF GivenBy, SamePriority
<1>7. /\ semM[x].owner_tcb \in Task /\ pri(t) \in Int /\ semM[x].wait_pri \in Int
      /\ pri(semM[x].owner_tcb) \in Int
      /\ pri(semM[x].owner_tcb) <= pri(t) /\ semM[x].wait_pri <= pri(t)
  BY <1>5, WaiterIs DEF Inherits
<1>8. CASE x # s
  <2>1. semM'[x] = semM[x]
    BY <1>2, <1>8 DEF Released
  <2>2. CASE semM[x].owner_tcb # current
    BY <1>4, <1>6, <1>7, <2>1, <2>2
  <2>3. CASE semM[x].owner_tcb = current
    <3>1. dlist_check(semM_list, x)
      BY <1>1, <2>3, ReadyQAssumption DEF Owned
    <3>2. h \in Priority /\ h <= semM[x].wait_pri
      BY <1>1, <1>2, <2>1, <2>3, <3>1, HighestWaitIs
    <3>3. g \in Priority /\ Priority \subseteq Nat
      BY <1>1, ReadyQAssumption DEF KernelState, OS_TCB, Priority
    <3> HIDE DEF h, g
    <3>4. p \in {h, g} /\ p <= h
      <4>1. {h, g} \in SUBSET Nat /\ {h, g} # {}
        BY <3>2, <3>3
      <4> QED
        BY <4>1, MinIsLeast DEF p
    <3>5. p \in Int /\ p <= semM[x].wait_pri
      BY <1>7, <3>2, <3>3, <3>4
    <3>6. pri(current) \in Int /\ pri(current) <= pri(t)
      BY <1>7, <2>3
    <3>7. new(t) = pri(t)
      BY <1>4, <1>6
    <3> HIDE DEF pri, new
    <3>8. new(current) <= new(t)
      BY <1>6, <1>7, <3>5, <3>6, <3>7
    <3>9. semM'[x].wait_pri <= new(t) /\ semM'[x].owner_tcb = current
      BY <1>7, <2>1, <2>3, <3>7
    <3> QED
      BY <3>8, <3>9 DEF new
  <2> QED
    BY <2>2, <2>3
<1>9. CASE x = s
  <2> DEFINE w == semM[s].wait_list
             v == semM'[s].wait_list
  <2>1. w \in Seq(Task) /\ dlist_check(w, t) /\ Ascending(k, w)
    BY <1>1, <1>2, <1>5, <1>9, WaitersAre DEF Sorted
  <2>2. ~ DL_EMPTY(w) /\ DL_FIRST(w) \in Task /\ pri(DL_FIRST(w)) <= pri(t)
    BY <1>1, <2>1, FirstAscending
  <2>3. dlist_check(w, DL_FIRST(w))
    BY <2>1, <2>2 DEF dlist_check, DL_EMPTY, DL_FIRST
  <2>4. DL_FIRST(w) # current
    BY <1>2, <2>2, <2>3, WaiterIs
  <2>5. semM'[s].owner_tcb = DL_FIRST(w)
    BY <1>2, <2>2 DEF Released
  <2>6. v \in Seq(Task) /\ dlist_check(v, t) /\ Ascending(k', v)
    BY <1>1, <1>2, <1>9, WaitersAre DEF Sorted
  <2>7. ~ DL_EMPTY(v) /\ DL_FIRST(v) \in Task /\ new(DL_FIRST(v)) <= new(t)
    BY <1>1, <2>6, FirstAscending
  <2>8. semM'[s].wait_pri = pri(DL_FIRST(v))
    BY <1>2, <2>7 DEF Released, HeardOfFirst
  <2>9. DL_FIRST(v) # current
    <3>1. dlist_check(v, DL_FIRST(v))
      BY <2>6, <2>7 DEF dlist_check, DL_EMPTY, DL_FIRST
    <3>2. k'.tcb[DL_FIRST(v)].status = "PEND_SEM_M"
      BY <1>1, <1>2, <3>1, WaitersAre
    <3>3. k'.tcb[current].status = "READY"
      BY <1>2 DEF GivenBy
    <3> QED
      BY <3>2, <3>3
  <2> HIDE DEF w, v
  <2> QED
    BY <1>4, <1>6, <1>9, <2>2, <2>4, <2>5, <2>7, <2>8, <2>9
<1> QED
  BY <1>8, <1>9

LEMMA InheritsKeeps ==
  ASSUME Inv, Inv', Owned(semM, semM_list), OwnersRun, OwnersLive(k, semM),
         Sorted(k, semM), Sorted(k', semM'), Inherits(k, semM), Steps, Killable = {}
  PROVE  Inherits(k', semM')
<1> SUFFICES ASSUME NEW x \in SemMs, NEW t \in Task, dlist_check(semM'[x].wait_list, t)
             PROVE  /\ k'.tcb[semM'[x].owner_tcb].task_priority <= k'.tcb[t].task_priority
                    /\ semM'[x].wait_pri <= k'.tcb[t].task_priority
  BY DEF Inherits
<1>1. CASE Quiet
  <2>1. dlist_check(semM[x].wait_list, t)
    BY <1>1, WaitedBefore DEF Quiet, Calm
  <2>2. semM'[x].wait_pri = semM[x].wait_pri
    BY <1>1 DEF Quiet, dlist_check
  <2>3. semM[x].owner_tcb \in Task
    BY <2>1, WaiterIs
  <2> QED
    BY <1>1, <2>1, <2>2, <2>3 DEF Quiet, Calm, SamePriority, Inherits
<1>2. ASSUME NEW s, Took(s)
      PROVE  /\ k'.tcb[semM'[x].owner_tcb].task_priority <= k'.tcb[t].task_priority
             /\ semM'[x].wait_pri <= k'.tcb[t].task_priority
  <2>1. dlist_check(semM[x].wait_list, t)
    BY <1>2 DEF Took
  <2>2. x # s
    BY <1>2, <2>1, WaiterIs DEF Took
  <2> QED
    BY <1>2, <2>1, <2>2 DEF Took, Inherits
<1>3. ASSUME NEW s, Blocked(s)
      PROVE  /\ k'.tcb[semM'[x].owner_tcb].task_priority <= k'.tcb[t].task_priority
             /\ semM'[x].wait_pri <= k'.tcb[t].task_priority
  BY <1>3, BlockedInherits
<1>4. ASSUME NEW s, Gave(s)
      PROVE  /\ k'.tcb[semM'[x].owner_tcb].task_priority <= k'.tcb[t].task_priority
             /\ semM'[x].wait_pri <= k'.tcb[t].task_priority
  BY <1>4, GaveInherits
<1>5. ~ \E u : Created(u) \/ Deleted(u) \/ Ended(u)
  BY DEF Created, Deleted, Ended
<1>6. CASE UNCHANGED <<k, ctx, semMVars>>
  BY <1>6 DEF semMVars, Inherits
<1> QED
  BY <1>1, <1>2, <1>3, <1>4, <1>5, <1>6 DEF Steps

LEMMA InheritsIs ==
  ASSUME Inv, Inherits(k, semM)
  PROVE  OwnerInherits
<1>1. MInv(k, semM, semM_list, {})
  BY DEF Inv
<1>2. \A s \in SemMs : \A i \in 1 .. Len(semM[s].wait_list) :
        /\ semM[s].wait_list[i] \in Task
        /\ dlist_check(semM[s].wait_list, semM[s].wait_list[i])
  BY <1>1, WaitersAre
<1> QED
  BY <1>2 DEF Inherits, OwnerInherits

\* Priority inheritance works: as long as no task waits for a mutex while it owns
\* one, and no task is deleted, the owner of a mutex is at least as important as
\* every task that waits for it.  _up_owner_pri raises it when a task blocks, and
\* semM_give takes back no more than the waiters of its other mutexes allow.
THEOREM OwnersInherit ==
  ASSUME Disposable \cap MsgQs = {}, Killable = {}
  PROVE  Spec /\ []OwnersRun => []OwnerInherits
<1> DEFINE I == LiveInv /\ Sorted(k, semM) /\ Inherits(k, semM)
<1>1. Init => I
  <2>1. ASSUME Init PROVE Inherits(k, semM)
    BY <2>1, InitMutexes DEF Inherits, dlist_check
  <2> QED
    BY <2>1, LiveInvKeeps, InitMutexes DEF Sorted, Ascending
<1>2. I /\ OwnersRun /\ [Next]_kernelVars => I'
  <2> SUFFICES ASSUME I, OwnersRun, [Next]_kernelVars PROVE I'
    OBVIOUS
  <2>1. LiveInv' /\ MutexInv' /\ Steps
    BY LiveInvKeeps
  <2>2. Sorted(k', semM')
    BY <2>1, SortedKeeps DEF LiveInv, MutexInv
  <2>3. Inherits(k', semM')
    BY <2>1, <2>2, InheritsKeeps DEF LiveInv, MutexInv
  <2> QED
    BY <2>1, <2>2, <2>3
<1>3. I => OwnerInherits
  BY InheritsIs DEF LiveInv, MutexInv
<1> QED
  BY <1>1, <1>2, <1>3, PTL DEF Spec

-----------------------------------------------------------------------------
(* With one mutex.                                                         *)

LEMMA OneMutexKeeps ==
  ASSUME \A a, b \in SemMs : a = b, Inv, Inv', OwnersRun, Steps
  PROVE  OwnersRun'
<1>0. /\ MInv(k, semM, semM_list, {}) /\ MInv(k', semM', semM_list', {})
      /\ current \in Task /\ k.tcb[current].status = "READY"
      /\ \A x \in SemMs : semM[x].owner_tcb \in Task \cup {NULL}
      /\ \A x \in SemMs : semM'[x].owner_tcb \in Task \cup {NULL}
  BY DEF Inv, CurInv, MInv, SEM_MUX
<1> SUFFICES ASSUME NEW x \in SemMs, semM'[x].owner_tcb # NULL,
                    k'.tcb[semM'[x].owner_tcb].status = "PEND_SEM_M"
             PROVE  FALSE
  BY DEF OwnersRun
<1> DEFINE o == semM'[x].owner_tcb
<1>1. o \in Task /\ (semM[x].owner_tcb = o => k.tcb[o].status # "PEND_SEM_M")
  BY <1>0 DEF OwnersRun
<1>2. ~ Quiet
  BY <1>1 DEF Quiet, Calm
<1>3. ASSUME NEW s, Took(s) PROVE FALSE
  <2>1. o = current /\ k' = k
    BY <1>1, <1>3 DEF Took, OwnersRun
  <2> QED
    BY <1>0, <2>1
<1>4. ASSUME NEW s, Blocked(s) PROVE FALSE
  <2>1. x = s /\ semM[x].owner_tcb = o
    BY <1>4 DEF Blocked
  <2> QED
    BY <1>1, <1>4, <2>1 DEF Blocked
<1>5. ASSUME NEW s, Gave(s) PROVE FALSE
  <2> DEFINE w == semM[s].wait_list
  <2>1. /\ x = s /\ ~ DL_EMPTY(w) /\ o = DL_FIRST(w)
        /\ semM'[s].wait_list = dlist_rest(w)
    BY <1>5 DEF Gave, Released, rest
  <2>2. w \in Seq(Task) /\ NoDuplicates(w)
    BY <1>0, <2>1 DEF MInv, HoldsBut
  <2> HIDE DEF w
  <2>3. ~ dlist_check(dlist_rest(w), o)
    BY <2>1, <2>2, RestMembers
  <2>4. k'.tcb[o].pend_obj = s
    BY <1>0, <1>1, <2>1 DEF MInv
  <2>5. dlist_check(semM'[s].wait_list, o)
    BY <1>0, <1>1, <2>1, <2>4, WaitersAre
  <2> QED
    BY <2>1, <2>3, <2>5
<1>6. ASSUME NEW t, Created(t) \/ Ended(t) PROVE FALSE
  BY <1>1, <1>6 DEF Created, Ended, OnlyTask, semMVars
<1>7. ASSUME NEW t, Deleted(t) PROVE FALSE
  BY <1>1, <1>7 DEF Deleted, Gone, GaveBack
<1>8. CASE UNCHANGED <<k, ctx, semMVars>>
  BY <1>1, <1>8 DEF semMVars
<1> QED
  BY <1>2, <1>3, <1>4, <1>5, <1>6, <1>7, <1>8 DEF Steps

\* In a system with one mutex no task waits for it while it owns it: the owner
\* that takes it again only counts, and who gets it from a semM_give has left the
\* wait list.  So the condition of WaitListsSorted and, where no task is deleted,
\* that of OwnersInherit hold there, until a task meets a dead owner.
THEOREM OneMutexOwnersRun ==
  ASSUME Disposable \cap MsgQs = {}, \A a, b \in SemMs : a = b
  PROVE  Spec => [](~ Astray => OwnersRun)
<1> DEFINE I == MutexInv /\ OwnersRun
<1>1. Init => I
  BY MutexInvKeeps, InitMutexes DEF OwnersRun
<1>2. (I \/ Astray) /\ [Next]_kernelVars => (I \/ Astray)'
  BY MutexInvKeeps, OneMutexKeeps, AstrayStays DEF MutexInv, GoesAstray
<1> QED
  BY <1>1, <1>2, PTL DEF Spec

-----------------------------------------------------------------------------
(* What a step does to the tasks that do not run.                          *)

\* The tasks with this status are suspended in this call, on the object that they
\* wait for.
InCallOf(st, call) ==
  \A t \in Task : k.tcb[t].status = st
                    => ctx[t].call = call /\ ctx[t].obj = k.tcb[t].pend_obj

Suspended ==
  /\ InCallOf("PEND_SEM_B", "semB_take") /\ InCallOf("PEND_SEM_C", "semC_take")
  /\ InCallOf("PEND_MSG_S", "msgQ_send") /\ InCallOf("PEND_MSG_R", "msgQ_receive")

\* In this step the running task does not begin to wait, or does so in this call.
CallerAt(st, call) ==
  k'.tcb[current].status = st
    => ctx'[current].call = call /\ ctx'[current].obj = k'.tcb[current].pend_obj

\* In this step the other tasks stay in their calls; the ready ones stay ready, with
\* their ticks, or are deleted; and none begins to wait.
OthersStay ==
  \A t \in Task \ {current} :
    /\ k.tcb[t].status # "FREE" => ctx'[t] = ctx[t]
    /\ (k.tcb[t].status = "READY" /\ k'.tcb[t].status # "FREE")
         => /\ k'.tcb[t].status = "READY"
            /\ k'.tcb[t].delay_ticks = k.tcb[t].delay_ticks
    /\ k'.tcb[t].status \notin {"READY", "FREE"}
         => /\ k'.tcb[t].status = k.tcb[t].status
            /\ k'.tcb[t].pend_obj = k.tcb[t].pend_obj

\* No other task that was woken and has not run since is deleted in this step.
NoneLost ==
  \A t \in Task \ {current} :
    k.tcb[t].status = "READY" /\ ctx[t] # Run => k'.tcb[t].status # "FREE"

\* Only the running task and a task that is created change their call.
LEMMA CallsStay ==
  ASSUME Inv, [Next]_kernelVars
  PROVE  \A t \in Task \ {current} : k.tcb[t].status # "FREE" => ctx'[t] = ctx[t]
<1>1. ctx \in [Task -> Contexts] /\ current \in Task
  BY DEF Inv, CtxInv, CurInv
<1>2. CASE ctx' = ctx \/ \E d : ctx' = [ctx EXCEPT ![current] = d]
  BY <1>1, <1>2
<1>3. CASE DelayStep
  BY <1>2, <1>3 DEF DelayStep, delayQ_delay
<1>4. CASE SemBStep
  BY <1>2, <1>4 DEF SemBStep, semB_take, semB_again, semB_wakeup, semB_give, semB_init,
     semB_flush, semB_delete, semB_unlink, schedVars
<1>5. CASE SemCStep
  BY <1>2, <1>5 DEF SemCStep, semC_take, semC_again, semC_wakeup, semC_give, semC_init,
     semC_flush, semC_delete, semC_unlink, schedVars
<1>6. CASE SemMStep
  BY <1>2, <1>6 DEF SemMStep, semM_take, semM_wakeup, semM_give, semM_init, schedVars
<1>7. CASE MsgQStep
  BY <1>2, <1>7 DEF MsgQStep, msgQ_send, msgQ_send_again, msgQ_send_wakeup, msgQ_receive,
     msgQ_receive_again, msgQ_receive_wakeup, msgQ_init, msgQ_delete, schedVars
<1>8. CASE TaskStep
  <2>1. ASSUME NEW t \in Killable, NEW p \in UserPri, task_create(t, p)
        PROVE  \A u \in Task \ {current} : k.tcb[u].status # "FREE" => ctx'[u] = ctx[u]
    BY <1>1, <2>1 DEF task_create
  <2>2. ASSUME NEW t \in Killable, task_delete(t) PROVE ctx' = ctx
    BY <2>2 DEF task_delete
  <2>3. ASSUME task_end PROVE ctx' = ctx
    BY <2>3 DEF task_end
  <2> QED
    BY <1>2, <1>8, <2>1, <2>2, <2>3 DEF TaskStep
<1>9. CASE tick_announce
  BY <1>2, <1>9 DEF tick_announce
<1>10. CASE UNCHANGED kernelVars
  BY <1>2, <1>10 DEF kernelVars, schedVars
<1> QED
  BY <1>3, <1>4, <1>5, <1>6, <1>7, <1>8, <1>9, <1>10 DEF Next

LEMMA OthersStayIs ==
  ASSUME Inv, [Next]_kernelVars, Steps
  PROVE  OthersStay
<1>1. \A t \in Task \ {current} : k.tcb[t].status # "FREE" => ctx'[t] = ctx[t]
  BY CallsStay
<1>2. CASE Quiet
  BY <1>1, <1>2 DEF Quiet, Calm, OthersStay
<1>3. ASSUME NEW s, Took(s) PROVE OthersStay
  BY <1>1, <1>3 DEF Took, OthersStay
<1>4. ASSUME NEW s, Blocked(s) PROVE OthersStay
  BY <1>1, <1>4 DEF Blocked, OthersStay
<1>5. ASSUME NEW s, Gave(s) PROVE OthersStay
  BY <1>1, <1>5 DEF Gave, GivenBy, OthersStay
<1>6. ASSUME NEW t, Created(t) PROVE OthersStay
  BY <1>1, <1>6 DEF Created, OnlyTask, OthersStay
<1>7. ASSUME NEW t, Deleted(t) PROVE OthersStay
  BY <1>1, <1>7 DEF Deleted, Gone, OthersStay
<1>8. ASSUME NEW t, Ended(t) PROVE OthersStay
  BY <1>1, <1>8 DEF Ended, OnlyTask, OthersStay
<1>9. CASE UNCHANGED <<k, ctx, semMVars>>
  BY <1>9 DEF OthersStay
<1> QED
  BY <1>2, <1>3, <1>4, <1>5, <1>6, <1>7, <1>8, <1>9 DEF Steps

LEMMA InCallStays ==
  ASSUME OthersStay, NEW st \in Waiting, NEW call, InCallOf(st, call), CallerAt(st, call)
  PROVE  InCallOf(st, call)'
<1> SUFFICES ASSUME NEW t \in Task, k'.tcb[t].status = st
             PROVE  ctx'[t].call = call /\ ctx'[t].obj = k'.tcb[t].pend_obj
  BY DEF InCallOf
<1>1. CASE t = current
  BY <1>1 DEF CallerAt
<1>2. CASE t # current
  BY <1>2 DEF OthersStay, InCallOf, Waiting
<1> QED
  BY <1>1, <1>2

-----------------------------------------------------------------------------
(* A resource: the tasks woken for it and its units.                       *)

\* W is enough for n units when the tasks of list l wait.
Enough(W, l, n) == l # << >> => Cardinality(W) >= n

\* What a step does to object o of this call, with list l before and m after it, and
\* n and p units: nobody waits, or no unit is left, or the running task took one, or
\* nothing happened, or a task was woken for one more.
Serves(call, o, l, m, n, p) ==
  \/ m = << >> \/ p = 0
  \/ /\ m # << >> => l # << >>
     /\ \/ p = n - 1
        \/ p = n /\ current \notin Woken(call, o)
        \/ /\ p = n + 1 /\ current \notin Woken(call, o)
           /\ \E u \in Task : u \in Woken(call, o)' /\ u \notin Woken(call, o)

LEMMA WokenStay ==
  ASSUME OthersStay, NoneLost, NEW call, call # "run", NEW o
  PROVE  Woken(call, o) \ {current} \subseteq Woken(call, o)'
<1> SUFFICES ASSUME NEW t \in Woken(call, o), t # current
             PROVE  t \in Woken(call, o)'
  OBVIOUS
<1>1. /\ t \in Task \ {current} /\ ctx[t].call = call /\ ctx[t].obj = o
      /\ k.tcb[t].status = "READY" /\ k.tcb[t].delay_ticks # 0
  BY DEF Woken
<1>2. ctx[t] # Run
  BY <1>1 DEF Run
<1>3. /\ k'.tcb[t].status = "READY" /\ k'.tcb[t].delay_ticks = k.tcb[t].delay_ticks
      /\ ctx'[t] = ctx[t]
  BY <1>1, <1>2 DEF OthersStay, NoneLost
<1> QED
  BY <1>1, <1>3 DEF Woken

\* The counts of two sets of tasks.
LEMMA CountsOn ==
  ASSUME NEW W \in SUBSET Task, NEW V \in SUBSET Task, NEW t, W \ {t} \subseteq V
  PROVE  /\ Cardinality(W) \in Nat /\ Cardinality(V) \in Nat
         /\ Cardinality(V) >= Cardinality(W) - 1
         /\ t \notin W => Cardinality(V) >= Cardinality(W)
         /\ (t \notin W /\ \E u \in V : u \notin W) => Cardinality(V) >= Cardinality(W) + 1
<1>1. IsFiniteSet(W) /\ IsFiniteSet(V) /\ IsFiniteSet(W \ {t})
  BY ReadyQAssumption, FS_Subset
<1>2. /\ Cardinality(W) \in Nat /\ Cardinality(V) \in Nat /\ Cardinality(W \ {t}) \in Nat
  BY <1>1, FS_CardinalityType
<1>3. Cardinality(W \ {t}) <= Cardinality(V)
  BY <1>1, FS_Subset
<1>4. Cardinality(W \ {t}) = IF t \in W THEN Cardinality(W) - 1 ELSE Cardinality(W)
  BY <1>1, FS_RemoveElement
<1>5. ASSUME t \notin W, NEW u \in V, u \notin W
      PROVE  Cardinality(V) >= Cardinality(W) + 1
  <2>1. W \subseteq V \ {u} /\ IsFiniteSet(V \ {u})
    BY <1>1, <1>5, FS_Subset
  <2>2. Cardinality(W) <= Cardinality(V \ {u})
    BY <2>1, FS_Subset
  <2>3. Cardinality(V \ {u}) = Cardinality(V) - 1
    BY <1>1, <1>5, FS_RemoveElement
  <2> QED
    BY <1>2, <2>2, <2>3
<1> QED
  BY <1>2, <1>3, <1>4, <1>5

LEMMA ServesEnough ==
  ASSUME OthersStay, NoneLost, NEW call, call # "run", NEW o, NEW l, NEW m,
         NEW n \in Nat, NEW p \in Nat, Enough(Woken(call, o), l, n),
         Serves(call, o, l, m, n, p)
  PROVE  Enough(Woken(call, o)', m, p)
<1> DEFINE W == Woken(call, o)
           V == Woken(call, o)'
<1>1. W \in SUBSET Task /\ V \in SUBSET Task
  BY DEF Woken
<1>2. W \ {current} \subseteq V
  BY WokenStay
<1>3. Enough(W, l, n)
  OBVIOUS
<1>4. \/ m = << >> \/ p = 0
      \/ /\ m # << >> => l # << >>
         /\ \/ p = n - 1
            \/ p = n /\ current \notin W
            \/ p = n + 1 /\ current \notin W /\ \E u \in V : u \notin W
  BY DEF Serves
<1> HIDE DEF W, V
<1>5. /\ Cardinality(W) \in Nat /\ Cardinality(V) \in Nat
      /\ Cardinality(V) >= Cardinality(W) - 1
      /\ current \notin W => Cardinality(V) >= Cardinality(W)
      /\ (current \notin W /\ \E u \in V : u \notin W)
           => Cardinality(V) >= Cardinality(W) + 1
  BY <1>1, <1>2, CountsOn
<1>6. Enough(V, m, p)
  BY <1>3, <1>4, <1>5 DEF Enough
<1> QED
  BY <1>6 DEF V

-----------------------------------------------------------------------------
(* A step that touches neither the object nor its waiters.                 *)

\* Nobody new waits: a list that is not empty after the step was not before.
LEMMA FewerWait ==
  ASSUME OthersStay, NEW st \in Waiting, NEW o, NEW l, NEW m, HoldsBut(k, l, st, o, {}),
         HoldsBut(k', m, st, o, {}),
         ~ (k'.tcb[current].status = st /\ k'.tcb[current].pend_obj = o)
  PROVE  m # << >> => l # << >>
<1> SUFFICES ASSUME m # << >> PROVE l # << >>
  OBVIOUS
<1>1. m \in Seq(Task) /\ Len(m) \in Nat /\ Len(m) # 0
  BY DEF HoldsBut
<1>2. m[1] \in Task /\ dlist_check(m, m[1])
  BY <1>1 DEF dlist_check
<1>3. k'.tcb[m[1]].status = st /\ k'.tcb[m[1]].pend_obj = o
  BY <1>2 DEF HoldsBut
<1>4. k.tcb[m[1]].status = st /\ k.tcb[m[1]].pend_obj = o
  BY <1>2, <1>3 DEF OthersStay, Waiting
<1>5. dlist_check(l, m[1])
  BY <1>2, <1>4 DEF HoldsBut
<1> QED
  BY <1>5 DEF dlist_check

\* The running task is not in a list that the step leaves alone.
LEMMA NotJoined ==
  ASSUME current \in Task, k.tcb[current].status = "READY", NEW st \in Waiting, NEW o,
         NEW l, HoldsBut(k, l, st, o, {}), HoldsBut(k', l, st, o, {})
  PROVE  ~ (k'.tcb[current].status = st /\ k'.tcb[current].pend_obj = o)
  BY DEF HoldsBut, Waiting

LEMMA NotWoken ==
  ASSUME NEW call, NEW o,
         \/ ctx[current].call # call \/ ctx[current].obj # o
         \/ k.tcb[current].delay_ticks = 0
  PROVE  current \notin Woken(call, o)
  BY DEF Woken

LEMMA ServesNone ==
  ASSUME NEW call, NEW o, NEW l, NEW m, NEW n, NEW p, m = << >> \/ p = 0
  PROVE  Serves(call, o, l, m, n, p)
  BY DEF Serves

LEMMA ServesTook ==
  ASSUME NEW call, NEW o, NEW l, NEW n
  PROVE  Serves(call, o, l, l, n, n - 1)
  BY DEF Serves

\* One unit more, and the first waiter is woken.
LEMMA ServesMore ==
  ASSUME NEW call, NEW o, NEW l, NEW m, NEW n, current \notin Woken(call, o),
         m # << >> => /\ l # << >>
                      /\ \E u \in Task : u \in Woken(call, o)' /\ u \notin Woken(call, o)
  PROVE  Serves(call, o, l, m, n, n + 1)
  BY DEF Serves

LEMMA ServesSame ==
  ASSUME NEW call, NEW o, NEW l, NEW n, current \notin Woken(call, o)
  PROVE  Serves(call, o, l, l, n, n)
  BY DEF Serves

\* A free binary semaphore is one unit.
Free(s) == IF s.owner_tcb = NULL THEN 1 ELSE 0

ServesB ==
  \A s \in SemBs : Serves("semB_take", s, semB[s].wait_list, semB'[s].wait_list,
                          Free(semB[s]), Free(semB'[s]))

ServesC ==
  \A s \in SemCs : Serves("semC_take", s, semC[s].wait_list, semC'[s].wait_list,
                          semC[s].count, semC'[s].count)

\* A free place is a unit for the senders, a message one for the receivers.
ServesQ ==
  \A q \in MsgQs :
    /\ Serves("msgQ_send", q, msgQ[q].wait_send_list, msgQ'[q].wait_send_list,
              MAX_NUM - msgQ[q].cur_num, MAX_NUM - msgQ'[q].cur_num)
    /\ Serves("msgQ_receive", q, msgQ[q].wait_recv_list, msgQ'[q].wait_recv_list,
              msgQ[q].cur_num, msgQ'[q].cur_num)

LEMMA BElsewhere ==
  ASSUME Inv, Inv', UNCHANGED semBVars, ctx[current].call # "semB_take"
  PROVE  CallerAt("PEND_SEM_B", "semB_take") /\ ServesB
<1>1. /\ semB' = semB /\ current \in Task /\ k.tcb[current].status = "READY"
      /\ BInv(k, semB, semB_list) /\ BInv(k', semB, semB_list)
      /\ "PEND_SEM_B" \in Waiting
  BY WaitNames DEF Inv, CurInv, semBVars
<1>2. k'.tcb[current].status # "PEND_SEM_B"
  <2> SUFFICES ASSUME k'.tcb[current].status = "PEND_SEM_B" PROVE FALSE
    OBVIOUS
  <2> DEFINE s == k'.tcb[current].pend_obj
  <2>1. s \in SemBs
    BY <1>1 DEF BInv
  <2>2. /\ HoldsBut(k, semB[s].wait_list, "PEND_SEM_B", s, {})
        /\ HoldsBut(k', semB[s].wait_list, "PEND_SEM_B", s, {})
    BY <1>1, <2>1 DEF BInv
  <2> QED
    BY <1>1, <2>2, NotJoined
<1>3. ASSUME NEW s \in SemBs
      PROVE  Serves("semB_take", s, semB[s].wait_list, semB[s].wait_list,
                    Free(semB[s]), Free(semB[s]))
  BY NotWoken, ServesSame
<1> QED
  BY <1>1, <1>2, <1>3 DEF CallerAt, ServesB

LEMMA CElsewhere ==
  ASSUME Inv, Inv', UNCHANGED semCVars, ctx[current].call # "semC_take"
  PROVE  CallerAt("PEND_SEM_C", "semC_take") /\ ServesC
<1>1. /\ semC' = semC /\ current \in Task /\ k.tcb[current].status = "READY"
      /\ CInv(k, semC, semC_list) /\ CInv(k', semC, semC_list)
      /\ "PEND_SEM_C" \in Waiting
  BY WaitNames DEF Inv, CurInv, semCVars
<1>2. k'.tcb[current].status # "PEND_SEM_C"
  <2> SUFFICES ASSUME k'.tcb[current].status = "PEND_SEM_C" PROVE FALSE
    OBVIOUS
  <2> DEFINE s == k'.tcb[current].pend_obj
  <2>1. s \in SemCs
    BY <1>1 DEF CInv
  <2>2. /\ HoldsBut(k, semC[s].wait_list, "PEND_SEM_C", s, {})
        /\ HoldsBut(k', semC[s].wait_list, "PEND_SEM_C", s, {})
    BY <1>1, <2>1 DEF CInv
  <2> QED
    BY <1>1, <2>2, NotJoined
<1>3. ASSUME NEW s \in SemCs
      PROVE  Serves("semC_take", s, semC[s].wait_list, semC[s].wait_list,
                    semC[s].count, semC[s].count)
  BY NotWoken, ServesSame
<1> QED
  BY <1>1, <1>2, <1>3 DEF CallerAt, ServesC

LEMMA QElsewhere ==
  ASSUME Inv, Inv', UNCHANGED msgQVars,
         ctx[current].call \notin {"msgQ_send", "msgQ_receive"}
  PROVE  /\ CallerAt("PEND_MSG_S", "msgQ_send") /\ CallerAt("PEND_MSG_R", "msgQ_receive")
         /\ ServesQ
<1>1. /\ msgQ' = msgQ /\ current \in Task /\ k.tcb[current].status = "READY"
      /\ QInv(k, msgQ, msgQ_list) /\ QInv(k', msgQ, msgQ_list)
      /\ "PEND_MSG_S" \in Waiting /\ "PEND_MSG_R" \in Waiting
  BY WaitNames DEF Inv, CurInv, msgQVars
<1>2. k'.tcb[current].status \notin {"PEND_MSG_S", "PEND_MSG_R"}
  <2> SUFFICES ASSUME k'.tcb[current].status \in {"PEND_MSG_S", "PEND_MSG_R"} PROVE FALSE
    OBVIOUS
  <2> DEFINE q == k'.tcb[current].pend_obj
  <2>1. q \in MsgQs
    BY <1>1 DEF QInv
  <2>2. /\ HoldsBut(k, msgQ[q].wait_send_list, "PEND_MSG_S", q, {})
        /\ HoldsBut(k', msgQ[q].wait_send_list, "PEND_MSG_S", q, {})
        /\ HoldsBut(k, msgQ[q].wait_recv_list, "PEND_MSG_R", q, {})
        /\ HoldsBut(k', msgQ[q].wait_recv_list, "PEND_MSG_R", q, {})
    BY <1>1, <2>1 DEF QInv
  <2> QED
    BY <1>1, <2>2, NotJoined
<1>3. ASSUME NEW q \in MsgQs
      PROVE  /\ Serves("msgQ_send", q, msgQ[q].wait_send_list, msgQ[q].wait_send_list,
                       MAX_NUM - msgQ[q].cur_num, MAX_NUM - msgQ[q].cur_num)
             /\ Serves("msgQ_receive", q, msgQ[q].wait_recv_list, msgQ[q].wait_recv_list,
                       msgQ[q].cur_num, msgQ[q].cur_num)
  BY NotWoken, ServesSame
<1> QED
  BY <1>1, <1>2, <1>3 DEF CallerAt, ServesQ

-----------------------------------------------------------------------------
(* Binary semaphores.                                                      *)

\* The running task pends: its control block says so.
LEMMA PendIs ==
  ASSUME Inv, InCall, NEW st \in Waiting, NEW o \in Obj \cup {NULL}, NEW ticks \in Nat,
         ticks # 0, NEW n, n = pend(k, st, o, ticks)
  PROVE  n.tcb[current].status = st /\ n.tcb[current].pend_obj = o
<1>1. current # IDLE /\ ticks \in Nat \ {0}
  BY CallerHas DEF InCall
<1> QED
  BY <1>1, PendStep

\* The first task of a wait list is woken, with the ticks that it has left.
LEMMA FirstWoken ==
  ASSUME Inv, NEW st \in Waiting, NEW call, InCallOf(st, call), NEW o,
         NEW a, ReadyInv(a, {}), TicksLeft(a), NEW l, HoldsBut(a, l, st, o, {}),
         l # << >>, k' = wake_first(a, l),
         NEW c, ctx' = [ctx EXCEPT ![current] = c] \/ ctx' = ctx,
         \A t \in Task \ {current} : a.tcb[t] = k.tcb[t], a.tcb[current].status = "READY"
  PROVE  \E u \in Task : u \in Woken(call, o)' /\ u \notin Woken(call, o)
<1> DEFINE u == DL_FIRST(l)
<1>1. l \in Seq(Task) /\ NoDuplicates(l) /\ Len(l) # 0
  BY DEF HoldsBut
<1>2. u \in Task /\ dlist_check(l, u) /\ ~ DL_EMPTY(l)
  BY <1>1, RestMembers DEF DL_EMPTY
<1>3. a.tcb[u].status = st /\ a.tcb[u].pend_obj = o /\ st # "READY" /\ st # "FREE"
  BY <1>2 DEF HoldsBut, Waiting
<1>4. HoldsBut(k', rest(l), st, o, {}) /\ Woke(a, k', {st}) /\ TicksKept(a, k', {})
  BY WakeFirstKeeps
<1>5. ~ dlist_check(rest(l), u)
  BY <1>1, <1>2, RestMembers DEF rest
<1> HIDE DEF u
<1>6. u # current /\ k.tcb[u] = a.tcb[u]
  BY <1>2, <1>3
<1>7. /\ k'.tcb[u].status = "READY" /\ k'.tcb[u].delay_ticks = a.tcb[u].delay_ticks
      /\ a.tcb[u].delay_ticks > 0 /\ a.tcb[u].delay_ticks \in Nat
  <2>1. k'.tcb[u].delay_ticks = a.tcb[u].delay_ticks
    BY <1>2, <1>4 DEF TicksKept
  <2>2. ~ (k'.tcb[u].status = st /\ k'.tcb[u].pend_obj = o)
    BY <1>2, <1>4, <1>5 DEF HoldsBut
  <2>3. k'.tcb[u].status = "READY"
    BY <1>2, <1>3, <1>4, <2>2 DEF Woke
  <2>4. a.tcb[u].delay_ticks > 0 /\ a.tcb[u].delay_ticks \in Nat
    BY <1>2, <1>3 DEF TicksLeft, ReadyInv, KernelState, OS_TCB
  <2> QED
    BY <2>1, <2>3, <2>4
<1>8. ctx[u].call = call /\ ctx[u].obj = o
  BY <1>2, <1>3, <1>6 DEF InCallOf
<1>9. ctx'[u] = ctx[u]
  <2>1. ctx \in [Task -> Contexts]
    BY DEF Inv, CtxInv
  <2> QED
    BY <1>2, <1>6, <2>1
<1>10. u \in Woken(call, o)'
  BY <1>2, <1>7, <1>8, <1>9 DEF Woken
<1>11. u \notin Woken(call, o)
  BY <1>3, <1>6 DEF Woken
<1> QED
  BY <1>2, <1>10, <1>11

LEMMA SemBAgainServes ==
  ASSUME Inv, InCall, NEW s \in SemBs, NEW timeout \in Nat, semB_again(s, timeout),
         ctx[current] = Run \/ ctx[current].obj = s
  PROVE  CallerAt("PEND_SEM_B", "semB_take") /\ ServesB
<1>1. /\ current \in Task /\ k.tcb[current].status = "READY" /\ NULL \notin Task
      /\ semB \in [SemBs -> SEM_BIN] /\ ctx \in [Task -> Contexts]
      /\ "PEND_SEM_B" \in Waiting /\ s \in Obj \cup {NULL}
  BY WaitNames, CallerHas, ReadyQAssumption, KernelAssumption
     DEF Inv, BInv, CtxInv, InCall
<1>2. /\ semB'[s].owner_tcb # NULL
      /\ \A x \in SemBs : x # s => semB'[x] = semB[x]
  BY <1>1 DEF semB_again, SEM_BIN
<1>3. CallerAt("PEND_SEM_B", "semB_take")
  <2>1. CASE k' = SetTicks(k, current, 0)
    <3>1. k'.tcb[current].status = "READY"
      BY <1>1, <2>1, CallerHas, ResetTicksKeeps DEF InCall
    <3> QED
      BY <3>1 DEF CallerAt
  <2>2. CASE k' = k
    BY <1>1, <2>2 DEF CallerAt
  <2>3. CASE /\ timeout # 0 /\ k' = pend(k, "PEND_SEM_B", s, timeout)
             /\ ctx' = [ctx EXCEPT ![current] =
                          [call |-> "semB_take", obj |-> s, msg |-> NULL]]
    <3>1. k'.tcb[current].pend_obj = s
      BY <1>1, <2>3, PendIs
    <3>2. ctx'[current].call = "semB_take" /\ ctx'[current].obj = s
      BY <1>1, <2>3
    <3> QED
      BY <3>1, <3>2 DEF CallerAt
  <2> QED
    BY <2>1, <2>2, <2>3 DEF semB_again
<1>4. ASSUME NEW x \in SemBs
      PROVE  Serves("semB_take", x, semB[x].wait_list, semB'[x].wait_list,
                    Free(semB[x]), Free(semB'[x]))
  <2>1. CASE x = s
    BY <1>2, <2>1 DEF Serves, Free
  <2>2. CASE x # s
    <3>1. current \notin Woken("semB_take", x)
      BY <2>2, NotWoken DEF Run
    <3> QED
      BY <1>2, <2>2, <3>1, ServesSame
  <2> QED
    BY <2>1, <2>2
<1> QED
  BY <1>3, <1>4 DEF ServesB

LEMMA SemBServes ==
  ASSUME Inv, InCallOf("PEND_SEM_B", "semB_take"), SemBStep
  PROVE  CallerAt("PEND_SEM_B", "semB_take") /\ ServesB
<1>1. /\ ListInv(semB_list, SemBs) /\ semB \in [SemBs -> SEM_BIN]
      /\ ReadyInv(k, {}) /\ TicksLeft(k) /\ BCalls(ctx, semB_list)
      /\ current \in Task /\ k.tcb[current].status = "READY"
      /\ \A s \in SemBs : /\ HoldsBut(k, semB[s].wait_list, "PEND_SEM_B", s, {})
                          /\ semB[s].wait_list \in Seq(Task)
      /\ "PEND_SEM_B" \in Waiting /\ k.tcb[current].delay_ticks \in Nat
  BY WaitNames DEF Inv, ListsInv, KInv, BInv, CtxInv, CurInv, ReadyInv, KernelState,
     OS_TCB, HoldsBut
<1>2. ASSUME NEW s \in ToSet(semB_list), NEW n \in Timeouts, semB_take(s, n)
      PROVE  CallerAt("PEND_SEM_B", "semB_take") /\ ServesB
  <2>1. s \in SemBs /\ n \in Nat
    BY <1>1, Listed, KernelAssumption
  <2> QED
    BY <1>2, <2>1, SemBAgainServes DEF semB_take, InCall, MayCall, Running
<1>3. ASSUME semB_wakeup PROVE CallerAt("PEND_SEM_B", "semB_take") /\ ServesB
  <2>1. /\ InCall /\ ctx[current].obj \in SemBs
    BY <1>1, <1>3 DEF semB_wakeup, InCall, BCalls
  <2>2. CASE k.tcb[current].delay_ticks # 0
    BY <1>1, <1>3, <2>1, <2>2, SemBAgainServes DEF semB_wakeup
  <2>3. CASE k.tcb[current].delay_ticks = 0
    <3>1. k' = k /\ semB' = semB
      BY <1>3, <2>3 DEF semB_wakeup
    <3>2. \A s \in SemBs : current \notin Woken("semB_take", s)
      BY <2>3, NotWoken
    <3> QED
      BY <1>1, <3>1, <3>2, ServesSame DEF CallerAt, ServesB
  <2> QED
    BY <2>2, <2>3
\* Semaphore s has no waiters after the step, or it is free and its first waiter is
\* woken; the others are untouched.
<1>4. ASSUME NEW s \in SemBs, MayCall, k'.tcb[current].status = "READY",
             \A x \in SemBs : x # s => semB'[x] = semB[x],
             \/ semB'[s].wait_list = << >>
             \/ /\ semB[s].wait_list # << >> /\ Free(semB'[s]) = 1
                /\ \E u \in Task : /\ u \in Woken("semB_take", s)'
                                   /\ u \notin Woken("semB_take", s)
      PROVE  CallerAt("PEND_SEM_B", "semB_take") /\ ServesB
  <2>1. \A x \in SemBs : current \notin Woken("semB_take", x)
    BY <1>4, NotWoken DEF MayCall, Running, Run
  <2>2. Free(semB[s]) \in {0, 1}
    BY DEF Free
  <2>3. Serves("semB_take", s, semB[s].wait_list, semB'[s].wait_list,
               Free(semB[s]), Free(semB'[s]))
    BY <1>4, <2>1, <2>2 DEF Serves
  <2> QED
    BY <1>4, <2>1, <2>3, ServesSame DEF CallerAt, ServesB
<1>5. ASSUME NEW s \in ToSet(semB_list), semB_give(s)
      PROVE  CallerAt("PEND_SEM_B", "semB_take") /\ ServesB
  <2>1. s \in SemBs
    BY <1>1, Listed
  <2>2. MayCall /\ ctx' = ctx /\ k' = wake_first(k, semB[s].wait_list)
    BY <1>5 DEF semB_give
  <2>3. k'.tcb[current].status = "READY"
    <3>1. TicksKept(k, k', {})
      BY <1>1, <2>1, <2>2, WakeFirstKeeps
    <3> QED
      BY <1>1, <3>1 DEF TicksKept
  <2>4. /\ Free(semB'[s]) = 1 /\ semB'[s].wait_list = rest(semB[s].wait_list)
        /\ \A x \in SemBs : x # s => semB'[x] = semB[x]
    BY <1>1, <1>5, <2>1 DEF semB_give, Free, SEM_BIN
  <2>5. CASE semB[s].wait_list = << >>
    <3>1. semB'[s].wait_list = << >>
      BY <2>4, <2>5 DEF rest, DL_EMPTY
    <3> QED
      BY <1>4, <2>1, <2>2, <2>3, <2>4, <3>1
  <2>6. CASE semB[s].wait_list # << >>
    <3>1. \E u \in Task : u \in Woken("semB_take", s)' /\ u \notin Woken("semB_take", s)
      BY <1>1, <2>1, <2>2, <2>6, FirstWoken
    <3> QED
      BY <1>4, <2>1, <2>2, <2>3, <2>4, <2>6, <3>1
  <2> QED
    BY <2>5, <2>6
<1>6. ASSUME NEW s \in SemBs, semB_flush(s) \/ semB_delete(s)
      PROVE  CallerAt("PEND_SEM_B", "semB_take") /\ ServesB
  <2>1. MayCall /\ k' = flushed(k, semB[s].wait_list) /\ semB' = semB_emptied(s)
    BY <1>6 DEF semB_flush, semB_delete, semB_emptied
  <2>2. k'.tcb[current].status = "READY"
    <3>1. Expired(k, k')
      BY <1>1, <2>1, FlushKeeps
    <3> QED
      BY <1>1, <3>1 DEF Expired
  <2>3. semB'[s].wait_list = << >> /\ \A x \in SemBs : x # s => semB'[x] = semB[x]
    BY <1>1, <2>1 DEF semB_emptied
  <2> QED
    BY <1>4, <2>1, <2>2, <2>3
<1>7. ASSUME NEW s \in SemBs, semB_init(s)
      PROVE  CallerAt("PEND_SEM_B", "semB_take") /\ ServesB
  <2>1. MayCall /\ k' = k /\ semB' = semB_emptied(s)
    BY <1>7 DEF semB_init, schedVars, semB_emptied
  <2>2. semB'[s].wait_list = << >> /\ \A x \in SemBs : x # s => semB'[x] = semB[x]
    BY <1>1, <2>1 DEF semB_emptied
  <2> QED
    BY <1>1, <1>4, <2>1, <2>2
<1>8. ASSUME semB_unlink PROVE CallerAt("PEND_SEM_B", "semB_take") /\ ServesB
  <2>1. k' = k /\ semB' = semB /\ ctx[current].call = "semB_delete"
    BY <1>8 DEF semB_unlink
  <2>2. \A s \in SemBs : current \notin Woken("semB_take", s)
    BY <2>1, NotWoken
  <2> QED
    BY <1>1, <2>1, <2>2, ServesSame DEF CallerAt, ServesB
<1> QED
  BY <1>2, <1>3, <1>5, <1>6, <1>7, <1>8 DEF SemBStep

-----------------------------------------------------------------------------
(* Counting semaphores.                                                    *)

LEMMA SemCAgainServes ==
  ASSUME Inv, InCall, NEW s \in SemCs, NEW timeout \in Nat, semC_again(s, timeout),
         ctx[current] = Run \/ ctx[current].obj = s
  PROVE  CallerAt("PEND_SEM_C", "semC_take") /\ ServesC
<1>1. /\ current \in Task /\ k.tcb[current].status = "READY"
      /\ semC \in [SemCs -> SEM_CNT] /\ ctx \in [Task -> Contexts]
      /\ "PEND_SEM_C" \in Waiting /\ s \in Obj \cup {NULL}
      /\ semC[s].count \in Nat
  BY WaitNames, CallerHas, KernelAssumption, SemCAssumption
     DEF Inv, CInv, CtxInv, InCall, SEM_CNT
<1>2. \A x \in SemCs : x # s => semC'[x] = semC[x]
  BY <1>1 DEF semC_again
<1>3. ASSUME NEW x \in SemCs, x # s
      PROVE  Serves("semC_take", x, semC[x].wait_list, semC'[x].wait_list,
                    semC[x].count, semC'[x].count)
  <2>1. current \notin Woken("semC_take", x)
    BY <1>3, NotWoken DEF Run
  <2> QED
    BY <1>2, <1>3, <2>1, ServesSame
<1> SUFFICES /\ CallerAt("PEND_SEM_C", "semC_take")
             /\ Serves("semC_take", s, semC[s].wait_list, semC'[s].wait_list,
                       semC[s].count, semC'[s].count)
  BY <1>3 DEF ServesC
<1>4. CASE /\ semC' = [semC EXCEPT ![s].count = @ - 1] /\ k' = SetTicks(k, current, 0)
  <2>1. k'.tcb[current].status = "READY"
    BY <1>1, <1>4, CallerHas, ResetTicksKeeps DEF InCall
  <2>2. semC'[s].wait_list = semC[s].wait_list /\ semC'[s].count = semC[s].count - 1
    BY <1>1, <1>4 DEF SEM_CNT
  <2>3. Serves("semC_take", s, semC[s].wait_list, semC'[s].wait_list,
               semC[s].count, semC'[s].count)
    BY <2>2, ServesTook, Zenon
  <2> QED
    BY <2>1, <2>3 DEF CallerAt
<1>5. CASE semC[s].count = 0 /\ k' = k /\ semC' = semC
  <2>1. Serves("semC_take", s, semC[s].wait_list, semC'[s].wait_list,
               semC[s].count, semC'[s].count)
    BY <1>5, ServesNone
  <2> QED
    BY <1>1, <1>5, <2>1 DEF CallerAt
<1>6. CASE /\ semC[s].count = 0 /\ timeout # 0 /\ k' = pend(k, "PEND_SEM_C", s, timeout)
           /\ semC' = [semC EXCEPT ![s].wait_list = dlist_add(@, current)]
           /\ ctx' = [ctx EXCEPT ![current] =
                        [call |-> "semC_take", obj |-> s, msg |-> NULL]]
  <2>1. k'.tcb[current].pend_obj = s
    BY <1>1, <1>6, PendIs
  <2>2. ctx'[current].call = "semC_take" /\ ctx'[current].obj = s
    BY <1>1, <1>6
  <2>3. semC'[s].count = 0
    BY <1>1, <1>6 DEF SEM_CNT
  <2>4. Serves("semC_take", s, semC[s].wait_list, semC'[s].wait_list,
               semC[s].count, semC'[s].count)
    BY <2>3, ServesNone
  <2> QED
    BY <2>1, <2>2, <2>4 DEF CallerAt
<1> QED
  BY <1>4, <1>5, <1>6 DEF semC_again

LEMMA SemCServes ==
  ASSUME Inv, InCallOf("PEND_SEM_C", "semC_take"), SemCStep
  PROVE  CallerAt("PEND_SEM_C", "semC_take") /\ ServesC
<1>1. /\ ListInv(semC_list, SemCs) /\ semC \in [SemCs -> SEM_CNT]
      /\ ReadyInv(k, {}) /\ TicksLeft(k) /\ CCalls(ctx, semC_list)
      /\ current \in Task /\ k.tcb[current].status = "READY"
      /\ \A s \in SemCs : /\ HoldsBut(k, semC[s].wait_list, "PEND_SEM_C", s, {})
                          /\ semC[s].wait_list \in Seq(Task)
      /\ "PEND_SEM_C" \in Waiting /\ k.tcb[current].delay_ticks \in Nat
  BY WaitNames DEF Inv, ListsInv, KInv, CInv, CtxInv, CurInv, ReadyInv, KernelState,
     OS_TCB, HoldsBut
<1>2. ASSUME NEW s \in ToSet(semC_list), NEW n \in Timeouts, semC_take(s, n)
      PROVE  CallerAt("PEND_SEM_C", "semC_take") /\ ServesC
  <2>1. s \in SemCs /\ n \in Nat
    BY <1>1, Listed, KernelAssumption
  <2> QED
    BY <1>2, <2>1, SemCAgainServes DEF semC_take, InCall, MayCall, Running
<1>3. ASSUME semC_wakeup PROVE CallerAt("PEND_SEM_C", "semC_take") /\ ServesC
  <2>1. /\ InCall /\ ctx[current].obj \in SemCs
    BY <1>1, <1>3 DEF semC_wakeup, InCall, CCalls
  <2>2. CASE k.tcb[current].delay_ticks # 0
    BY <1>1, <1>3, <2>1, <2>2, SemCAgainServes DEF semC_wakeup
  <2>3. CASE k.tcb[current].delay_ticks = 0
    <3>1. k' = k /\ semC' = semC
      BY <1>3, <2>3 DEF semC_wakeup
    <3>2. \A s \in SemCs : current \notin Woken("semC_take", s)
      BY <2>3, NotWoken
    <3> QED
      BY <1>1, <3>1, <3>2, ServesSame DEF CallerAt, ServesC
  <2> QED
    BY <2>2, <2>3
\* Semaphore s has no waiters after the step, or it has one unit more and its first
\* waiter is woken; the others are untouched.
<1>4. ASSUME NEW s \in SemCs, MayCall, k'.tcb[current].status = "READY",
             \A x \in SemCs : x # s => semC'[x] = semC[x],
             \/ semC'[s].wait_list = << >>
             \/ /\ semC[s].wait_list # << >> /\ semC'[s].count = semC[s].count + 1
                /\ \E u \in Task : /\ u \in Woken("semC_take", s)'
                                   /\ u \notin Woken("semC_take", s)
      PROVE  CallerAt("PEND_SEM_C", "semC_take") /\ ServesC
  <2>1. \A x \in SemCs : current \notin Woken("semC_take", x)
    BY <1>4, NotWoken DEF MayCall, Running, Run
  <2>2. Serves("semC_take", s, semC[s].wait_list, semC'[s].wait_list,
               semC[s].count, semC'[s].count)
    BY <1>4, <2>1 DEF Serves
  <2> QED
    BY <1>4, <2>1, <2>2, ServesSame DEF CallerAt, ServesC
<1>5. ASSUME NEW s \in ToSet(semC_list), semC_give(s)
      PROVE  CallerAt("PEND_SEM_C", "semC_take") /\ ServesC
  <2>1. s \in SemCs /\ MayCall /\ ctx' = ctx
    BY <1>1, <1>5, Listed DEF semC_give
  <2>2. CASE UNCHANGED <<k, semC>>
    <3>1. \A x \in SemCs : current \notin Woken("semC_take", x)
      BY <2>1, NotWoken DEF MayCall, Running, Run
    <3> QED
      BY <1>1, <2>2, <3>1, ServesSame DEF CallerAt, ServesC
  <2>3. CASE /\ k' = wake_first(k, semC[s].wait_list)
             /\ semC' = [semC EXCEPT ![s].count = @ + 1, ![s].wait_list = rest(@)]
    <3>1. k'.tcb[current].status = "READY"
      <4>1. TicksKept(k, k', {})
        BY <1>1, <2>1, <2>3, WakeFirstKeeps
      <4> QED
        BY <1>1, <4>1 DEF TicksKept
    <3>2. /\ semC'[s].count = semC[s].count + 1
          /\ semC'[s].wait_list = rest(semC[s].wait_list)
          /\ \A x \in SemCs : x # s => semC'[x] = semC[x]
      BY <1>1, <2>1, <2>3 DEF SEM_CNT
    <3>3. CASE semC[s].wait_list = << >>
      <4>1. semC'[s].wait_list = << >>
        BY <3>2, <3>3 DEF rest, DL_EMPTY
      <4> QED
        BY <1>4, <2>1, <3>1, <3>2, <4>1
    <3>4. CASE semC[s].wait_list # << >>
      <4>1. \E u \in Task : u \in Woken("semC_take", s)' /\ u \notin Woken("semC_take", s)
        BY <1>1, <2>1, <2>3, <3>4, FirstWoken
      <4> QED
        BY <1>4, <2>1, <3>1, <3>2, <3>4, <4>1
    <3> QED
      BY <3>3, <3>4
  <2> QED
    BY <1>5, <2>2, <2>3 DEF semC_give
<1>6. ASSUME NEW s \in SemCs, semC_flush(s) \/ semC_delete(s)
      PROVE  CallerAt("PEND_SEM_C", "semC_take") /\ ServesC
  <2>1. MayCall /\ k' = flushed(k, semC[s].wait_list) /\ semC' = semC_emptied(s)
    BY <1>6 DEF semC_flush, semC_delete, semC_emptied
  <2>2. k'.tcb[current].status = "READY"
    <3>1. Expired(k, k')
      BY <1>1, <2>1, FlushKeeps
    <3> QED
      BY <1>1, <3>1 DEF Expired
  <2>3. semC'[s].wait_list = << >> /\ \A x \in SemCs : x # s => semC'[x] = semC[x]
    BY <1>1, <2>1 DEF semC_emptied
  <2> QED
    BY <1>4, <2>1, <2>2, <2>3
<1>7. ASSUME NEW s \in SemCs, NEW n, semC_init(s, n)
      PROVE  CallerAt("PEND_SEM_C", "semC_take") /\ ServesC
  <2>1. MayCall /\ k' = k /\ semC' = [semC EXCEPT ![s] = [count |-> n, wait_list |-> << >>]]
    BY <1>7 DEF semC_init, schedVars
  <2>2. semC'[s].wait_list = << >> /\ \A x \in SemCs : x # s => semC'[x] = semC[x]
    BY <1>1, <2>1
  <2> QED
    BY <1>1, <1>4, <2>1, <2>2
<1>8. ASSUME semC_unlink PROVE CallerAt("PEND_SEM_C", "semC_take") /\ ServesC
  <2>1. k' = k /\ semC' = semC /\ ctx[current].call = "semC_delete"
    BY <1>8 DEF semC_unlink
  <2>2. \A s \in SemCs : current \notin Woken("semC_take", s)
    BY <2>1, NotWoken
  <2> QED
    BY <1>1, <2>1, <2>2, ServesSame DEF CallerAt, ServesC
<1> QED
  BY <1>2, <1>3, <1>5, <1>6, <1>7, <1>8 DEF SemCStep

-----------------------------------------------------------------------------
(* Message queues.                                                         *)

\* A call that is done resets its ticks and wakes the first task of list l.
LEMMA DoneWakes ==
  ASSUME Inv, InCall, NEW st \in MsgWait, NEW call, InCallOf(st, call), NEW q \in MsgQs,
         NEW l, HoldsBut(k, l, st, q, {}), k' = wake_first(SetTicks(k, current, 0), l),
         ctx' = [ctx EXCEPT ![current] = Run]
  PROVE  /\ k'.tcb[current].status = "READY"
         /\ rest(l) # << >>
              => /\ l # << >>
                 /\ \E u \in Task : u \in Woken(call, q)' /\ u \notin Woken(call, q)
<1> DEFINE a == SetTicks(k, current, 0)
<1>1. /\ current # IDLE /\ current \in Task /\ k.tcb[current].status = "READY"
      /\ ReadyInv(k, {}) /\ TicksLeft(k) /\ st \in Waiting /\ st \notin {"READY", "FREE"}
  BY CallerHas DEF InCall, MsgWait, Waiting, Status
<1>2. k'.tcb[current].status = "READY"
  <2>1. CurInv(k', current)
    BY <1>1, DoneAndWoken
  <2> QED
    BY <2>1 DEF CurInv
<1>3. /\ ReadyInv(a, {}) /\ TicksLeft(a) /\ OnlyTask(k, a, current)
      /\ a.tcb[current].status = "READY" /\ MovesOn(k, a, "FREE", NULL)
  BY <1>1, ResetTicksKeeps
<1>4. k' = wake_first(a, l)
  OBVIOUS
<1> HIDE DEF a
<1>5. HoldsBut(a, l, st, q, {})
  BY <1>1, <1>3, MovesStill, StillFrame
<1>6. \A t \in Task \ {current} : a.tcb[t] = k.tcb[t]
  BY <1>3 DEF OnlyTask
<1>7. l # << >> => \E u \in Task : u \in Woken(call, q)' /\ u \notin Woken(call, q)
  BY <1>1, <1>3, <1>4, <1>5, <1>6, FirstWoken
<1>8. rest(l) # << >> => l # << >>
  BY DEF rest, DL_EMPTY
<1> QED
  BY <1>2, <1>7, <1>8

\* What is to show of one queue, and that it is enough: the others are untouched.
ServesSend(q) ==
  Serves("msgQ_send", q, msgQ[q].wait_send_list, msgQ'[q].wait_send_list,
         MAX_NUM - msgQ[q].cur_num, MAX_NUM - msgQ'[q].cur_num)

ServesReceive(q) ==
  Serves("msgQ_receive", q, msgQ[q].wait_recv_list, msgQ'[q].wait_recv_list,
         msgQ[q].cur_num, msgQ'[q].cur_num)

LEMMA ServesOneQueue ==
  ASSUME NEW q \in MsgQs, ServesSend(q), ServesReceive(q),
         ctx[current] = Run \/ ctx[current].obj = q,
         \A x \in MsgQs : x # q => msgQ'[x] = msgQ[x]
  PROVE  ServesQ
<1>1. ASSUME NEW x \in MsgQs, x # q PROVE ServesSend(x) /\ ServesReceive(x)
  <2>1. current \notin Woken("msgQ_send", x) /\ current \notin Woken("msgQ_receive", x)
    BY <1>1, NotWoken DEF Run
  <2> QED
    BY <1>1, <2>1, ServesSame DEF ServesSend, ServesReceive
<1> QED
  BY <1>1 DEF ServesQ, ServesSend, ServesReceive

\* No queue is touched, and the running task was not woken with ticks left.
LEMMA ServesNoQueue ==
  ASSUME \/ ctx[current] = Run \/ k.tcb[current].delay_ticks = 0,
         current \in Task, k.tcb[current].status = "READY", k' = k, msgQ' = msgQ
  PROVE  /\ CallerAt("PEND_MSG_S", "msgQ_send") /\ CallerAt("PEND_MSG_R", "msgQ_receive")
         /\ ServesQ
<1>1. \A q : current \notin Woken("msgQ_send", q) /\ current \notin Woken("msgQ_receive", q)
  BY NotWoken DEF Run
<1> QED
  BY <1>1, ServesSame DEF CallerAt, ServesQ

LEMMA SendServes ==
  ASSUME Inv, InCall, InCallOf("PEND_MSG_R", "msgQ_receive"), NEW q \in MsgQs, NEW m,
         NEW timeout \in Nat, msgQ_send_again(q, m, timeout),
         ctx[current] = Run \/ (ctx[current].call = "msgQ_send" /\ ctx[current].obj = q)
  PROVE  /\ CallerAt("PEND_MSG_S", "msgQ_send") /\ CallerAt("PEND_MSG_R", "msgQ_receive")
         /\ ServesQ
<1>1. /\ current \in Task /\ k.tcb[current].status = "READY"
      /\ msgQ \in [MsgQs -> MSG_QUE] /\ ctx \in [Task -> Contexts]
      /\ "PEND_MSG_S" \in Waiting /\ "PEND_MSG_R" \in MsgWait /\ q \in Obj \cup {NULL}
      /\ HoldsBut(k, msgQ[q].wait_recv_list, "PEND_MSG_R", q, {})
      /\ msgQ[q].cur_num \in Nat /\ MAX_NUM \in Nat
  BY WaitNames, CallerHas, KernelAssumption, MsgQAssumption
     DEF Inv, QInv, CtxInv, InCall, MSG_QUE, MsgWait
<1>2. \A x \in MsgQs : x # q => msgQ'[x] = msgQ[x]
  BY <1>1 DEF msgQ_send_again
<1>3. current \notin Woken("msgQ_receive", q)
  BY NotWoken DEF Run
<1> SUFFICES /\ CallerAt("PEND_MSG_S", "msgQ_send")
             /\ CallerAt("PEND_MSG_R", "msgQ_receive")
             /\ ServesSend(q) /\ ServesReceive(q)
  BY <1>2, ServesOneQueue
<1>4. CASE /\ k' = wake_first(SetTicks(k, current, 0), msgQ[q].wait_recv_list)
           /\ msgQ' = [msgQ EXCEPT ![q] = msg_sent(@, m)]
           /\ ctx' = [ctx EXCEPT ![current] = Run]
  <2> DEFINE l == msgQ[q].wait_recv_list
  <2>1. /\ msgQ'[q].wait_send_list = msgQ[q].wait_send_list
        /\ msgQ'[q].wait_recv_list = rest(l) /\ msgQ'[q].cur_num = msgQ[q].cur_num + 1
    BY <1>1, <1>4 DEF msg_sent, MSG_QUE
  <2>2. /\ k'.tcb[current].status = "READY"
        /\ rest(l) # << >>
             => /\ l # << >>
                /\ \E u \in Task : u \in Woken("msgQ_receive", q)'
                                   /\ u \notin Woken("msgQ_receive", q)
    BY <1>1, <1>4, DoneWakes
  <2> HIDE DEF l
  <2>3. MAX_NUM - (msgQ[q].cur_num + 1) = (MAX_NUM - msgQ[q].cur_num) - 1
    BY <1>1
  <2>4. ServesSend(q)
    BY <2>1, <2>3, ServesTook, Zenon DEF ServesSend
  <2>5. Serves("msgQ_receive", q, l, rest(l), msgQ[q].cur_num, msgQ[q].cur_num + 1)
    BY <1>3, <2>2, ServesMore, Zenon
  <2> QED
    BY <2>1, <2>2, <2>4, <2>5 DEF CallerAt, ServesReceive, l
<1>5. CASE msgQ[q].cur_num = MAX_NUM /\ k' = k /\ msgQ' = msgQ
  <2>1. ServesReceive(q)
    BY <1>3, <1>5, ServesSame DEF ServesReceive
  <2>2. ServesSend(q)
    BY <1>1, <1>5, ServesNone DEF ServesSend
  <2> QED
    BY <1>1, <1>5, <2>1, <2>2 DEF CallerAt
<1>6. CASE /\ msgQ[q].cur_num = MAX_NUM
           /\ timeout # 0
           /\ k' = pend(k, "PEND_MSG_S", q, timeout)
           /\ msgQ' = [msgQ EXCEPT ![q].wait_send_list = dlist_add(@, current)]
           /\ ctx' = [ctx EXCEPT ![current] = [call |-> "msgQ_send", obj |-> q, msg |-> m]]
  <2>1. k'.tcb[current].status = "PEND_MSG_S" /\ k'.tcb[current].pend_obj = q
    BY <1>1, <1>6, PendIs
  <2>2. ctx'[current].call = "msgQ_send" /\ ctx'[current].obj = q
    BY <1>1, <1>6
  <2>3. /\ msgQ'[q].cur_num = MAX_NUM /\ msgQ[q].cur_num = MAX_NUM
        /\ msgQ'[q].wait_recv_list = msgQ[q].wait_recv_list
    BY <1>1, <1>6 DEF MSG_QUE
  <2>4. ServesSend(q)
    BY <1>1, <2>3, ServesNone DEF ServesSend
  <2>5. ServesReceive(q)
    BY <1>3, <2>3, ServesSame DEF ServesReceive
  <2> QED
    BY <2>1, <2>2, <2>4, <2>5 DEF CallerAt
<1> QED
  BY <1>4, <1>5, <1>6 DEF msgQ_send_again

LEMMA ReceiveServes ==
  ASSUME Inv, InCall, InCallOf("PEND_MSG_S", "msgQ_send"), NEW q \in MsgQs,
         NEW timeout \in Nat, msgQ_receive_again(q, timeout),
         ctx[current] = Run \/ (ctx[current].call = "msgQ_receive" /\ ctx[current].obj = q)
  PROVE  /\ CallerAt("PEND_MSG_S", "msgQ_send") /\ CallerAt("PEND_MSG_R", "msgQ_receive")
         /\ ServesQ
<1>1. /\ current \in Task /\ k.tcb[current].status = "READY"
      /\ msgQ \in [MsgQs -> MSG_QUE] /\ ctx \in [Task -> Contexts]
      /\ "PEND_MSG_R" \in Waiting /\ "PEND_MSG_S" \in MsgWait /\ q \in Obj \cup {NULL}
      /\ HoldsBut(k, msgQ[q].wait_send_list, "PEND_MSG_S", q, {})
      /\ msgQ[q].cur_num \in Nat /\ MAX_NUM \in Nat
  BY WaitNames, CallerHas, KernelAssumption, MsgQAssumption
     DEF Inv, QInv, CtxInv, InCall, MSG_QUE, MsgWait
<1>2. \A x \in MsgQs : x # q => msgQ'[x] = msgQ[x]
  BY <1>1 DEF msgQ_receive_again
<1>3. current \notin Woken("msgQ_send", q)
  BY NotWoken DEF Run
<1> SUFFICES /\ CallerAt("PEND_MSG_S", "msgQ_send")
             /\ CallerAt("PEND_MSG_R", "msgQ_receive")
             /\ ServesSend(q) /\ ServesReceive(q)
  BY <1>2, ServesOneQueue
<1>4. CASE /\ k' = wake_first(SetTicks(k, current, 0), msgQ[q].wait_send_list)
           /\ msgQ' = [msgQ EXCEPT ![q] = msg_received(@)]
           /\ ctx' = [ctx EXCEPT ![current] = Run]
  <2> DEFINE l == msgQ[q].wait_send_list
             n == MAX_NUM - msgQ[q].cur_num
  <2>1. /\ msgQ'[q].wait_recv_list = msgQ[q].wait_recv_list
        /\ msgQ'[q].wait_send_list = rest(l) /\ msgQ'[q].cur_num = msgQ[q].cur_num - 1
    BY <1>1, <1>4 DEF msg_received, MSG_QUE
  <2>2. /\ k'.tcb[current].status = "READY"
        /\ rest(l) # << >>
             => /\ l # << >>
                /\ \E u \in Task : u \in Woken("msgQ_send", q)'
                                   /\ u \notin Woken("msgQ_send", q)
    BY <1>1, <1>4, DoneWakes
  <2>3. MAX_NUM - (msgQ[q].cur_num - 1) = n + 1
    BY <1>1
  <2>4. ServesReceive(q)
    BY <2>1, ServesTook, Zenon DEF ServesReceive
  <2> HIDE DEF l, n
  <2>5. Serves("msgQ_send", q, l, rest(l), n, n + 1)
    BY <1>3, <2>2, ServesMore, Zenon
  <2> QED
    BY <2>1, <2>2, <2>3, <2>4, <2>5 DEF CallerAt, ServesSend, l, n
<1>5. CASE msgQ[q].cur_num = 0 /\ k' = k /\ msgQ' = msgQ
  <2>1. ServesSend(q)
    BY <1>3, <1>5, ServesSame DEF ServesSend
  <2>2. ServesReceive(q)
    BY <1>1, <1>5, ServesNone DEF ServesReceive
  <2> QED
    BY <1>1, <1>5, <2>1, <2>2 DEF CallerAt
<1>6. CASE /\ msgQ[q].cur_num = 0
           /\ timeout # 0
           /\ k' = pend(k, "PEND_MSG_R", q, timeout)
           /\ msgQ' = [msgQ EXCEPT ![q].wait_recv_list = dlist_add(@, current)]
           /\ ctx' = [ctx EXCEPT ![current] =
                        [call |-> "msgQ_receive", obj |-> q, msg |-> NULL]]
  <2>1. k'.tcb[current].status = "PEND_MSG_R" /\ k'.tcb[current].pend_obj = q
    BY <1>1, <1>6, PendIs
  <2>2. ctx'[current].call = "msgQ_receive" /\ ctx'[current].obj = q
    BY <1>1, <1>6
  <2>3. /\ msgQ'[q].cur_num = 0 /\ msgQ[q].cur_num = 0
        /\ msgQ'[q].wait_send_list = msgQ[q].wait_send_list
    BY <1>1, <1>6 DEF MSG_QUE
  <2>4. ServesReceive(q)
    BY <1>1, <2>3, ServesNone DEF ServesReceive
  <2>5. ServesSend(q)
    BY <1>3, <2>3, ServesSame DEF ServesSend
  <2> QED
    BY <2>1, <2>2, <2>4, <2>5 DEF CallerAt
<1> QED
  BY <1>4, <1>5, <1>6 DEF msgQ_receive_again

LEMMA MsgQServes ==
  ASSUME Disposable \cap MsgQs = {}, Inv, InCallOf("PEND_MSG_S", "msgQ_send"),
         InCallOf("PEND_MSG_R", "msgQ_receive"), MsgQStep
  PROVE  /\ CallerAt("PEND_MSG_S", "msgQ_send") /\ CallerAt("PEND_MSG_R", "msgQ_receive")
         /\ ServesQ
<1>1. /\ ListInv(msgQ_list, MsgQs) /\ msgQ \in [MsgQs -> MSG_QUE]
      /\ QCalls(ctx, msgQ_list)
      /\ current \in Task /\ k.tcb[current].status = "READY"
      /\ k.tcb[current].delay_ticks \in Nat
  BY DEF Inv, ListsInv, KInv, QInv, CtxInv, CurInv, ReadyInv, KernelState, OS_TCB
<1> DEFINE Goal == /\ CallerAt("PEND_MSG_S", "msgQ_send")
                   /\ CallerAt("PEND_MSG_R", "msgQ_receive")
                   /\ ServesQ
<1>2. ASSUME NEW q \in ToSet(msgQ_list), NEW m \in Msg, NEW n \in Timeouts,
             msgQ_send(q, m, n)
      PROVE  Goal
  <2>1. q \in MsgQs /\ n \in Nat /\ InCall /\ ctx[current] = Run
    BY <1>1, <1>2, Listed, KernelAssumption DEF msgQ_send, InCall, MayCall, Running
  <2> QED
    BY <1>2, <2>1, SendServes DEF msgQ_send
<1>3. ASSUME msgQ_send_wakeup PROVE Goal
  <2>1. CASE k.tcb[current].delay_ticks # 0
    <3>1. InCall /\ ctx[current].obj \in MsgQs
      BY <1>1, <1>3 DEF msgQ_send_wakeup, InCall, QCalls
    <3> QED
      BY <1>1, <1>3, <2>1, <3>1, SendServes DEF msgQ_send_wakeup
  <2>2. CASE k.tcb[current].delay_ticks = 0
    BY <1>1, <1>3, <2>2, ServesNoQueue DEF msgQ_send_wakeup
  <2> QED
    BY <2>1, <2>2
<1>4. ASSUME NEW q \in ToSet(msgQ_list), NEW n \in Timeouts, msgQ_receive(q, n)
      PROVE  Goal
  <2>1. q \in MsgQs /\ n \in Nat /\ InCall /\ ctx[current] = Run
    BY <1>1, <1>4, Listed, KernelAssumption DEF msgQ_receive, InCall, MayCall, Running
  <2> QED
    BY <1>4, <2>1, ReceiveServes DEF msgQ_receive
<1>5. ASSUME msgQ_receive_wakeup PROVE Goal
  <2>1. CASE k.tcb[current].delay_ticks # 0
    <3>1. InCall /\ ctx[current].obj \in MsgQs
      BY <1>1, <1>5 DEF msgQ_receive_wakeup, InCall, QCalls
    <3> QED
      BY <1>1, <1>5, <2>1, <3>1, ReceiveServes DEF msgQ_receive_wakeup
  <2>2. CASE k.tcb[current].delay_ticks = 0
    BY <1>1, <1>5, <2>2, ServesNoQueue DEF msgQ_receive_wakeup
  <2> QED
    BY <2>1, <2>2
<1>6. ASSUME NEW q \in MsgQs, msgQ_init(q) PROVE Goal
  <2>1. ctx[current] = Run /\ k' = k /\ msgQ' = [msgQ EXCEPT ![q] = msgQ_new]
    BY <1>6 DEF msgQ_init, schedVars, MayCall, Running
  <2>2. /\ msgQ'[q].wait_send_list = << >> /\ msgQ'[q].wait_recv_list = << >>
        /\ \A x \in MsgQs : x # q => msgQ'[x] = msgQ[x]
    BY <1>1, <2>1 DEF msgQ_new
  <2>3. ServesSend(q) /\ ServesReceive(q)
    BY <2>2, ServesNone DEF ServesSend, ServesReceive
  <2>4. ServesQ
    BY <2>1, <2>2, <2>3, ServesOneQueue
  <2> QED
    BY <1>1, <2>1, <2>4 DEF CallerAt
<1> QED
  BY <1>2, <1>3, <1>4, <1>5, <1>6 DEF MsgQStep

-----------------------------------------------------------------------------
(* The other steps.                                                        *)

Callers ==
  /\ CallerAt("PEND_SEM_B", "semB_take") /\ CallerAt("PEND_SEM_C", "semC_take")
  /\ CallerAt("PEND_MSG_S", "msgQ_send") /\ CallerAt("PEND_MSG_R", "msgQ_receive")

Resources == ServesB /\ ServesC /\ ServesQ

OutOfCalls ==
  ctx[current].call \notin {"semB_take", "semC_take", "msgQ_send", "msgQ_receive"}

LEMMA Elsewhere ==
  ASSUME Inv, Inv', OutOfCalls, UNCHANGED <<semBVars, semCVars, msgQVars>>
  PROVE  Callers /\ Resources
<1>1. /\ ctx[current].call # "semB_take" /\ ctx[current].call # "semC_take"
      /\ ctx[current].call \notin {"msgQ_send", "msgQ_receive"}
      /\ UNCHANGED semBVars /\ UNCHANGED semCVars /\ UNCHANGED msgQVars
  BY DEF OutOfCalls
<1> QED
  BY <1>1, BElsewhere, CElsewhere, QElsewhere DEF Callers, Resources

\* The units stay and the list has no new waiter.
LEMMA ServesFewer ==
  ASSUME OthersStay, k'.tcb[current].status = "READY", NEW st \in Waiting, NEW call,
         ctx[current].call # call, NEW o, NEW l, NEW m, HoldsBut(k, l, st, o, {}),
         HoldsBut(k', m, st, o, {}), NEW n, NEW p, p = n
  PROVE  Serves(call, o, l, m, n, p)
<1>1. m # << >> => l # << >>
  BY FewerWait DEF Waiting
<1>2. current \notin Woken(call, o)
  BY NotWoken
<1> QED
  BY <1>1, <1>2 DEF Serves

LEMMA FewerServe ==
  ASSUME Inv, Inv', OthersStay, OutOfCalls, k'.tcb[current].status = "READY",
         SameValues("PEND_SEM_B", semB, semB'), SameValues("PEND_SEM_C", semC, semC'),
         SameMessages(msgQ, msgQ')
  PROVE  Callers /\ Resources
<1>1. /\ BInv(k, semB, semB_list) /\ BInv(k', semB', semB_list')
      /\ CInv(k, semC, semC_list) /\ CInv(k', semC', semC_list')
      /\ QInv(k, msgQ, msgQ_list) /\ QInv(k', msgQ', msgQ_list')
      /\ {"PEND_SEM_B", "PEND_SEM_C", "PEND_MSG_S", "PEND_MSG_R"} \subseteq Waiting
  BY WaitNames DEF Inv
<1>2. /\ ctx[current].call # "semB_take" /\ ctx[current].call # "semC_take"
      /\ ctx[current].call # "msgQ_send" /\ ctx[current].call # "msgQ_receive"
  BY DEF OutOfCalls
<1>3. Callers
  BY DEF Callers, CallerAt
<1>4. ServesB
  <2> SUFFICES ASSUME NEW s \in SemBs
               PROVE  Serves("semB_take", s, semB[s].wait_list, semB'[s].wait_list,
                             Free(semB[s]), Free(semB'[s]))
    BY DEF ServesB
  <2>1. Free(semB'[s]) = Free(semB[s])
    BY DEF SameValues, Free
  <2>2. /\ HoldsBut(k, semB[s].wait_list, "PEND_SEM_B", s, {})
        /\ HoldsBut(k', semB'[s].wait_list, "PEND_SEM_B", s, {})
    BY <1>1 DEF BInv
  <2> QED
    BY <1>1, <1>2, <2>1, <2>2, ServesFewer
<1>5. ServesC
  <2> SUFFICES ASSUME NEW s \in SemCs
               PROVE  Serves("semC_take", s, semC[s].wait_list, semC'[s].wait_list,
                             semC[s].count, semC'[s].count)
    BY DEF ServesC
  <2>1. semC'[s].count = semC[s].count
    BY DEF SameValues
  <2>2. /\ HoldsBut(k, semC[s].wait_list, "PEND_SEM_C", s, {})
        /\ HoldsBut(k', semC'[s].wait_list, "PEND_SEM_C", s, {})
    BY <1>1 DEF CInv
  <2> QED
    BY <1>1, <1>2, <2>1, <2>2, ServesFewer
<1>6. ServesQ
  <2> SUFFICES ASSUME NEW q \in MsgQs PROVE ServesSend(q) /\ ServesReceive(q)
    BY DEF ServesQ, ServesSend, ServesReceive
  <2>1. msgQ'[q].cur_num = msgQ[q].cur_num
    BY DEF SameMessages
  <2>2. /\ HoldsBut(k, msgQ[q].wait_send_list, "PEND_MSG_S", q, {})
        /\ HoldsBut(k', msgQ'[q].wait_send_list, "PEND_MSG_S", q, {})
        /\ HoldsBut(k, msgQ[q].wait_recv_list, "PEND_MSG_R", q, {})
        /\ HoldsBut(k', msgQ'[q].wait_recv_list, "PEND_MSG_R", q, {})
    BY <1>1 DEF QInv
  <2>3. MAX_NUM - msgQ'[q].cur_num = MAX_NUM - msgQ[q].cur_num
    BY <2>1
  <2>4. ServesSend(q)
    BY <1>1, <1>2, <2>2, <2>3, ServesFewer DEF ServesSend
  <2>5. ServesReceive(q)
    BY <1>1, <1>2, <2>1, <2>2, ServesFewer DEF ServesReceive
  <2> QED
    BY <2>4, <2>5
<1> QED
  BY <1>3, <1>4, <1>5, <1>6 DEF Resources

LEMMA TickServes ==
  ASSUME Inv, Inv', OthersStay, tick_announce
  PROVE  Callers /\ Resources
<1> DEFINE r == ticked
<1>1. /\ TimePassed(k, r.k) /\ SameMessages(msgQ, r.msgQ)
      /\ SameValues("PEND_SEM_B", semB, r.semB) /\ SameValues("PEND_SEM_C", semC, r.semC)
  BY TickKeeps
<1>2. k' = r.k /\ semB' = r.semB /\ semC' = r.semC /\ msgQ' = r.msgQ /\ IrqEnabled
  BY DEF tick_announce
<1> HIDE DEF r
<1>3. OutOfCalls
  BY <1>2 DEF IrqEnabled, OutOfCalls
<1>4. k'.tcb[current].status = "READY"
  BY <1>1, <1>2 DEF Inv, CurInv, TimePassed
<1>5. /\ SameValues("PEND_SEM_B", semB, semB') /\ SameValues("PEND_SEM_C", semC, semC')
      /\ SameMessages(msgQ, msgQ')
  BY <1>1, <1>2
<1> QED
  BY <1>3, <1>4, <1>5, FewerServe

LEMMA DeleteServes ==
  ASSUME Inv, Inv', OthersStay, NEW t \in Killable, task_delete(t)
  PROVE  Callers /\ Resources
<1>1. t # current /\ OutOfCalls
  <2>1. MayCall /\ t # current
    BY DEF task_delete
  <2> QED
    BY <2>1 DEF MayCall, Running, OutOfCalls, Run
<1>2. k'.tcb[current].status = "READY"
  <2>1. Gone(k, k', t)
    BY TaskDelete
  <2>2. current \in Task /\ k.tcb[current].status = "READY"
    BY DEF Inv, CurInv
  <2> QED
    BY <1>1, <2>1, <2>2 DEF Gone
<1>3. SameValues("PEND_SEM_B", semB, semB')
  <2>1. semB' = semB \/ semB' = semB_remove(k.tcb[t].pend_obj, t)
    BY DEF task_delete
  <2>2. semB \in [SemBs -> SEM_BIN]
    BY DEF Inv, BInv
  <2> QED
    BY <2>1, <2>2 DEF SameValues, semB_remove, SEM_BIN
<1>4. SameValues("PEND_SEM_C", semC, semC')
  <2>1. semC' = semC \/ semC' = semC_remove(k.tcb[t].pend_obj, t)
    BY DEF task_delete
  <2>2. semC \in [SemCs -> SEM_CNT]
    BY DEF Inv, CInv
  <2> QED
    BY <2>1, <2>2 DEF SameValues, semC_remove, SEM_CNT
<1>5. SameMessages(msgQ, msgQ')
  <2> DEFINE o == k.tcb[t].pend_obj
  <2>1. \/ msgQ' = msgQ
        \/ msgQ' = [msgQ EXCEPT ![o].wait_send_list = dlist_remove(@, t)]
        \/ msgQ' = [msgQ EXCEPT ![o].wait_recv_list = dlist_remove(@, t)]
    BY DEF task_delete, msgQ_remove
  <2>2. msgQ \in [MsgQs -> MSG_QUE]
    BY DEF Inv, QInv
  <2> HIDE DEF o
  <2>3. CASE msgQ' = msgQ
    BY <2>3 DEF SameMessages
  <2>4. CASE msgQ' = [msgQ EXCEPT ![o].wait_send_list = dlist_remove(@, t)]
    BY <2>2, <2>4 DEF SameMessages, MSG_QUE
  <2>5. CASE msgQ' = [msgQ EXCEPT ![o].wait_recv_list = dlist_remove(@, t)]
    BY <2>2, <2>5 DEF SameMessages, MSG_QUE
  <2> QED
    BY <2>1, <2>3, <2>4, <2>5
<1> QED
  BY <1>1, <1>2, <1>3, <1>4, <1>5, FewerServe

LEMMA TaskServes ==
  ASSUME Inv, Inv', OthersStay, TaskStep
  PROVE  Callers /\ Resources
<1>1. ASSUME NEW t \in Killable, NEW p \in UserPri, task_create(t, p)
      PROVE  Callers /\ Resources
  BY <1>1, Elsewhere DEF task_create, MayCall, Running, Run, OutOfCalls
<1>2. ASSUME task_end PROVE Callers /\ Resources
  BY <1>2, Elsewhere DEF task_end, MayCall, Running, Run, OutOfCalls
<1> QED
  BY <1>1, <1>2, DeleteServes DEF TaskStep

LEMMA DelayServes ==
  ASSUME Inv, Inv', DelayStep
  PROVE  Callers /\ Resources
<1>1. OutOfCalls
  BY DEF DelayStep, delayQ_delay, MayCall, Running, Run, OutOfCalls
<1> QED
  BY <1>1, Elsewhere DEF DelayStep

LEMMA SemMServes ==
  ASSUME Inv, Inv', SemMStep
  PROVE  Callers /\ Resources
<1>1. MayCall \/ ctx[current].call = "semM_take"
  BY DEF SemMStep, semM_take, semM_wakeup, semM_give, semM_init
<1>2. OutOfCalls
  BY <1>1 DEF MayCall, Running, Run, OutOfCalls
<1> QED
  BY <1>2, Elsewhere DEF SemMStep

LEMMA StepServes ==
  ASSUME Disposable \cap MsgQs = {}, Inv, Inv', OthersStay, Suspended, Next
  PROVE  Callers /\ Resources
<1>1. CASE SemBStep
  <2>1. MayCall \/ ctx[current].call \in {"semB_take", "semB_delete"}
    BY <1>1 DEF SemBStep, semB_take, semB_wakeup, semB_give, semB_init, semB_flush,
       semB_delete, semB_unlink
  <2>2. /\ ctx[current].call # "semC_take"
        /\ ctx[current].call \notin {"msgQ_send", "msgQ_receive"}
    BY <2>1 DEF MayCall, Running, Run
  <2>3. UNCHANGED semCVars /\ UNCHANGED msgQVars
    BY <1>1 DEF SemBStep
  <2>4. CallerAt("PEND_SEM_B", "semB_take") /\ ServesB
    BY <1>1, SemBServes DEF Suspended
  <2> QED
    BY <2>2, <2>3, <2>4, CElsewhere, QElsewhere DEF Callers, Resources
<1>2. CASE SemCStep
  <2>1. MayCall \/ ctx[current].call \in {"semC_take", "semC_delete"}
    BY <1>2 DEF SemCStep, semC_take, semC_wakeup, semC_give, semC_init, semC_flush,
       semC_delete, semC_unlink
  <2>2. /\ ctx[current].call # "semB_take"
        /\ ctx[current].call \notin {"msgQ_send", "msgQ_receive"}
    BY <2>1 DEF MayCall, Running, Run
  <2>3. UNCHANGED semBVars /\ UNCHANGED msgQVars
    BY <1>2 DEF SemCStep
  <2>4. CallerAt("PEND_SEM_C", "semC_take") /\ ServesC
    BY <1>2, SemCServes DEF Suspended
  <2> QED
    BY <2>2, <2>3, <2>4, BElsewhere, QElsewhere DEF Callers, Resources
<1>3. CASE MsgQStep
  <2>1. MayCall \/ ctx[current].call \in {"msgQ_send", "msgQ_receive"}
    BY <1>3 DEF MsgQStep, msgQ_send, msgQ_send_wakeup, msgQ_receive, msgQ_receive_wakeup,
       msgQ_init, msgQ_delete
  <2>2. ctx[current].call # "semB_take" /\ ctx[current].call # "semC_take"
    BY <2>1 DEF MayCall, Running, Run
  <2>3. UNCHANGED semBVars /\ UNCHANGED semCVars
    BY <1>3 DEF MsgQStep
  <2>4. /\ CallerAt("PEND_MSG_S", "msgQ_send") /\ CallerAt("PEND_MSG_R", "msgQ_receive")
        /\ ServesQ
    BY <1>3, MsgQServes DEF Suspended
  <2> QED
    BY <2>2, <2>3, <2>4, BElsewhere, CElsewhere DEF Callers, Resources
<1> QED
  BY <1>1, <1>2, <1>3, DelayServes, SemMServes, TaskServes, TickServes DEF Next

-----------------------------------------------------------------------------
(* The wake-ups.                                                           *)

\* WakeupsPending, in the words of this module.
Served ==
  /\ \A s \in SemBs : Enough(Woken("semB_take", s), semB[s].wait_list, Free(semB[s]))
  /\ \A s \in SemCs : Enough(Woken("semC_take", s), semC[s].wait_list, semC[s].count)
  /\ \A q \in MsgQs :
       /\ Enough(Woken("msgQ_send", q), msgQ[q].wait_send_list, MAX_NUM - msgQ[q].cur_num)
       /\ Enough(Woken("msgQ_receive", q), msgQ[q].wait_recv_list, msgQ[q].cur_num)

LEMMA ServedIs == Served <=> WakeupsPending
<1>1. ASSUME NEW s \in SemBs
      PROVE  Enough(Woken("semB_take", s), semB[s].wait_list, Free(semB[s]))
               <=> ((semB[s].wait_list # << >> /\ semB[s].owner_tcb = NULL)
                      => Woken("semB_take", s) # {})
  <2> DEFINE W == Woken("semB_take", s)
  <2>1. IsFiniteSet(W)
    BY ReadyQAssumption, FS_Subset DEF Woken
  <2>2. Cardinality(W) \in Nat /\ (Cardinality(W) = 0 <=> W = {})
    BY <2>1, FS_CardinalityType, FS_EmptySet
  <2> HIDE DEF W
  <2>3. Enough(W, semB[s].wait_list, Free(semB[s]))
          <=> ((semB[s].wait_list # << >> /\ semB[s].owner_tcb = NULL) => W # {})
    BY <2>2 DEF Enough, Free
  <2> QED
    BY <2>3 DEF W
<1> QED
  BY <1>1 DEF Served, WakeupsPending, Enough

LEMMA ServedKeeps ==
  ASSUME Inv, Inv', OthersStay, NoneLost, Resources, Served
  PROVE  Served'
<1>1. ASSUME NEW s \in SemBs
      PROVE  Enough(Woken("semB_take", s)', semB'[s].wait_list, Free(semB'[s]))
  <2>1. Free(semB[s]) \in Nat /\ Free(semB'[s]) \in Nat
    BY DEF Free
  <2>2. /\ Enough(Woken("semB_take", s), semB[s].wait_list, Free(semB[s]))
        /\ Serves("semB_take", s, semB[s].wait_list, semB'[s].wait_list,
                  Free(semB[s]), Free(semB'[s]))
    BY DEF Served, Resources, ServesB
  <2> QED
    BY <2>1, <2>2, ServesEnough
<1>2. ASSUME NEW s \in SemCs
      PROVE  Enough(Woken("semC_take", s)', semC'[s].wait_list, semC'[s].count)
  <2>1. semC[s].count \in Nat /\ semC'[s].count \in Nat
    BY SemCAssumption DEF Inv, CInv, SEM_CNT
  <2>2. /\ Enough(Woken("semC_take", s), semC[s].wait_list, semC[s].count)
        /\ Serves("semC_take", s, semC[s].wait_list, semC'[s].wait_list,
                  semC[s].count, semC'[s].count)
    BY DEF Served, Resources, ServesC
  <2> QED
    BY <2>1, <2>2, ServesEnough
<1>3. ASSUME NEW q \in MsgQs
      PROVE  /\ Enough(Woken("msgQ_send", q)', msgQ'[q].wait_send_list,
                       MAX_NUM - msgQ'[q].cur_num)
             /\ Enough(Woken("msgQ_receive", q)', msgQ'[q].wait_recv_list, msgQ'[q].cur_num)
  <2>1. msgQ[q].cur_num \in 0 .. MAX_NUM /\ msgQ'[q].cur_num \in 0 .. MAX_NUM
    BY DEF Inv, QInv, MSG_QUE
  <2>2. /\ msgQ[q].cur_num \in Nat /\ msgQ'[q].cur_num \in Nat
        /\ MAX_NUM - msgQ[q].cur_num \in Nat /\ MAX_NUM - msgQ'[q].cur_num \in Nat
    BY <2>1, MsgQAssumption
  <2>3. /\ Enough(Woken("msgQ_send", q), msgQ[q].wait_send_list, MAX_NUM - msgQ[q].cur_num)
        /\ Enough(Woken("msgQ_receive", q), msgQ[q].wait_recv_list, msgQ[q].cur_num)
        /\ ServesSend(q) /\ ServesReceive(q)
    BY DEF Served, Resources, ServesQ, ServesSend, ServesReceive
  <2>4. Enough(Woken("msgQ_send", q)', msgQ'[q].wait_send_list, MAX_NUM - msgQ'[q].cur_num)
    BY <2>2, <2>3, ServesEnough DEF ServesSend
  <2>5. Enough(Woken("msgQ_receive", q)', msgQ'[q].wait_recv_list, msgQ'[q].cur_num)
    BY <2>2, <2>3, ServesEnough DEF ServesReceive
  <2> QED
    BY <2>4, <2>5
<1> QED
  BY <1>1, <1>2, <1>3 DEF Served

LEMMA WakeupsKeep ==
  ASSUME Disposable \cap MsgQs = {}, MutexInv, Suspended, [Next]_kernelVars, ~ GoesAstray
  PROVE  Suspended' /\ (NoneLost /\ WakeupsPending => WakeupsPending')
<1>1. Inv /\ Inv' /\ OthersStay
  <2>1. Inv /\ MutexInv' /\ Steps
    BY MutexInvKeeps DEF MutexInv
  <2> QED
    BY <2>1, OthersStayIs DEF MutexInv
<1>2. CASE UNCHANGED kernelVars
  <2>1. /\ k' = k /\ ctx' = ctx /\ semB' = semB /\ semC' = semC /\ msgQ' = msgQ
    BY <1>2 DEF kernelVars, schedVars, semBVars, semCVars, msgQVars
  <2>2. Suspended'
    BY <2>1 DEF Suspended, InCallOf
  <2>3. WakeupsPending' <=> WakeupsPending
    BY <2>1 DEF WakeupsPending, Woken
  <2> QED
    BY <2>2, <2>3
<1>3. CASE Next
  <2>1. Callers /\ Resources
    BY <1>1, <1>3, StepServes
  <2>2. {"PEND_SEM_B", "PEND_SEM_C", "PEND_MSG_S", "PEND_MSG_R"} \subseteq Waiting
    BY WaitNames
  <2>3. Suspended'
    BY <1>1, <2>1, <2>2, InCallStays DEF Suspended, Callers
  <2>4. ASSUME NoneLost, WakeupsPending PROVE WakeupsPending'
    <3>1. Served'
      BY <1>1, <2>1, <2>4, ServedIs, ServedKeeps
    <3>2. (Served <=> WakeupsPending)'
      BY ServedIs, PTL
    <3> QED
      BY <3>1, <3>2
  <2> QED
    BY <2>3, <2>4
<1> QED
  BY <1>2, <1>3

LEMMA InitWakeups == Init => Suspended /\ WakeupsPending
<1> SUFFICES ASSUME Init PROVE Suspended /\ WakeupsPending
  OBVIOUS
<1>1. \A t \in Task : k.tcb[t].status \in {"READY", "FREE"}
  BY InitMutexes DEF Started
<1>2. Suspended
  BY <1>1 DEF Suspended, InCallOf
<1>3. /\ \A s \in SemBs : semB[s].wait_list = << >>
      /\ \A s \in SemCs : semC[s].wait_list = << >>
      /\ \A q \in MsgQs : msgQ[q].wait_send_list = << >> /\ msgQ[q].wait_recv_list = << >>
  BY DEF Init, semB_start, semC_start, msgQ_start, msgQ_new
<1> QED
  BY <1>2, <1>3 DEF WakeupsPending

\* Between a give and the run of the task that it woke, no step of the kernel but
\* task_delete of that task loses the wake-up: not the tick, not a take by another
\* task, not a flush, not a time-out of another waiter.  It holds until a task
\* meets a dead owner.
THEOREM WakeupsLostByDeleteOnly ==
  ASSUME Disposable \cap MsgQs = {}
  PROVE  Spec => WakeupLostOnlyByDelete
<1> DEFINE I == MutexInv /\ Suspended
           Lost == (WakeupsPending /\ ~ WakeupsPending' /\ ~ Astray') =>
                     \E t \in Task : /\ k.tcb[t].status = "READY" /\ ctx[t] # Run
                                     /\ k'.tcb[t].status = "FREE"
<1>1. Init => I
  BY MutexInvKeeps, InitWakeups
<1>2. (I \/ Astray) /\ [Next]_kernelVars => (I \/ Astray)'
  BY MutexInvKeeps, WakeupsKeep, AstrayStays DEF GoesAstray
<1>3. (I \/ Astray) /\ [Next]_kernelVars => [Lost]_kernelVars
  BY WakeupsKeep, AstrayStays DEF NoneLost, GoesAstray
<1> QED
  <2>1. Spec => [][Lost]_kernelVars
    BY <1>1, <1>2, <1>3, PTL DEF Spec
  <2> QED
    BY <2>1 DEF WakeupLostOnlyByDelete

\* In a system that ends no task while it runs, semB_give, semC_give, msgQ_send and
\* msgQ_receive wake enough tasks: while tasks wait for an object, every unit of it
\* is on its way to a task that was woken and has not run.
THEOREM WakeupsArePending ==
  ASSUME Disposable \cap MsgQs = {}, Killable = {}
  PROVE  Spec => []WakeupsPending
<1> DEFINE I == LiveInv /\ Suspended /\ WakeupsPending
<1>1. Init => I
  BY LiveInvKeeps, InitWakeups
<1>2. ASSUME Steps PROVE NoneLost
  <2>1. CASE Quiet
    BY <2>1 DEF Quiet, Calm, NoneLost
  <2>2. ASSUME NEW s, Took(s) \/ Blocked(s) PROVE NoneLost
    BY <2>2 DEF Took, Blocked, NoneLost
  <2>3. ASSUME NEW s, Gave(s) PROVE NoneLost
    BY <2>3 DEF Gave, GivenBy, NoneLost
  <2>4. CASE UNCHANGED <<k, ctx, semMVars>>
    BY <2>4 DEF NoneLost
  <2> QED
    BY <1>2, <2>1, <2>2, <2>3, <2>4 DEF Steps, Created, Deleted, Ended
<1>3. I /\ [Next]_kernelVars => I'
  BY <1>2, LiveInvKeeps, LiveNotAstray, WakeupsKeep DEF LiveInv
<1>4. I => WakeupsPending
  OBVIOUS
<1> QED
  BY <1>1, <1>3, <1>4, PTL DEF Spec
=============================================================================
