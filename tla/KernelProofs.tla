---------------------------- MODULE KernelProofs ----------------------------
(***************************************************************************)
(* Every step of the kernel keeps the inductive invariant Inv, for every   *)
(* number of tasks, priorities and objects.                                *)
(***************************************************************************)
EXTENDS KernelLemmas

LOCAL INSTANCE FiniteSetsExt
LOCAL INSTANCE SequencesExt

-----------------------------------------------------------------------------
(* What the calls have in common.                                          *)

\* The scheduler loads a ready task.
LEMMA Switched ==
  ASSUME NEW n, KInv(n)
  PROVE  CurInv(n, n.readyQ.highest_tcb)
  BY HighestIsReady, SchedAssumption DEF KInv, CurInv

\* d is right as the call of task t, among the calls c.
CallOK(c, d, t, lb, lc, lq) ==
  /\ d \in Contexts
  /\ d.call = "semB_take"
       => d.obj \in SemBs /\ (d.obj \in Later => dlist_check(lb, d.obj))
  /\ d.call = "semB_delete"
       => /\ d.obj \in SemBs \ Later /\ dlist_check(lb, d.obj)
          /\ \A u \in Task : u # t => ~ (c[u].call = "semB_delete" /\ c[u].obj = d.obj)
  /\ d.call = "semC_take"
       => d.obj \in SemCs /\ (d.obj \in Later => dlist_check(lc, d.obj))
  /\ d.call = "semC_delete"
       => /\ d.obj \in SemCs \ Later /\ dlist_check(lc, d.obj)
          /\ \A u \in Task : u # t => ~ (c[u].call = "semC_delete" /\ c[u].obj = d.obj)
  /\ d.call = "msgQ_send"
       => d.obj \in MsgQs /\ d.msg \in Msg /\ dlist_check(lq, d.obj)
  /\ d.call = "msgQ_receive"
       => d.obj \in MsgQs /\ dlist_check(lq, d.obj)

LEMMA CtxSet ==
  ASSUME NEW c, NEW lb, NEW lc, NEW lq, CtxInv(c, lb, lc, lq), NEW t \in Task, t # IDLE,
         NEW d, CallOK(c, d, t, lb, lc, lq), NEW e, e = [c EXCEPT ![t] = d]
  PROVE  CtxInv(e, lb, lc, lq)
<1>1. /\ c \in [Task -> Contexts] /\ c[IDLE] = Run
      /\ BCalls(c, lb) /\ CCalls(c, lc) /\ QCalls(c, lq) /\ d \in Contexts
  BY DEF CtxInv, CallOK
<1>2. /\ e \in [Task -> Contexts] /\ e[t] = d
      /\ \A u \in Task : u # t => e[u] = c[u]
  BY <1>1
<1>3. e[IDLE] = Run
  BY <1>1, <1>2, SchedAssumption
<1>4. BCalls(e, lb)
  BY <1>1, <1>2 DEF BCalls, CallOK
<1>5. CCalls(e, lc)
  BY <1>1, <1>2 DEF CCalls, CallOK
<1>6. QCalls(e, lq)
  BY <1>1, <1>2 DEF QCalls, CallOK
<1> QED
  BY <1>2, <1>3, <1>4, <1>5, <1>6 DEF CtxInv

\* A task that returns from a call, or is created, is in no call.
LEMMA CtxRun ==
  ASSUME NEW c, NEW lb, NEW lc, NEW lq, CtxInv(c, lb, lc, lq), NEW t \in Task, t # IDLE,
         NEW e, e = [c EXCEPT ![t] = Run]
  PROVE  CtxInv(e, lb, lc, lq)
<1>1. CallOK(c, Run, t, lb, lc, lq)
  BY DEF CallOK, Run, Contexts, Calls
<1> QED
  BY <1>1, CtxSet

\* The running task, when it may call or is in a call, is not the idle task.
LEMMA CallerIs ==
  ASSUME Inv, MayCall \/ ctx[current].call # "run"
  PROVE  current \in Task /\ current # IDLE /\ k.tcb[current].status = "READY"
  BY DEF Inv, CurInv, CtxInv, MayCall, Run

LEMMA PendStep ==
  ASSUME Inv, current # IDLE, NEW st \in Waiting, NEW o \in Obj \cup {NULL},
         NEW ticks \in Nat \ {0}, NEW n, n = pend(k, st, o, ticks)
  PROVE  /\ KInv(n) /\ CurInv(n, n.readyQ.highest_tcb) /\ MovesOn(k, n, st, o)
         /\ OnlyTask(k, n, current)
         /\ n.tcb[current].status = st /\ n.tcb[current].pend_obj = o
<1>1. /\ KInv(k) /\ ReadyInv(k, {}) /\ TicksLeft(k)
      /\ current \in Task /\ k.tcb[current].status = "READY"
  BY DEF Inv, CurInv, KInv
<1>2. /\ ReadyInv(n, {}) /\ TicksLeft(n)
      /\ OnlyTask(k, n, current)
      /\ n.tcb[current].status = st /\ n.tcb[current].pend_obj = o
  BY <1>1, PendKeeps
<1>3. KInv(n)
  BY <1>1, <1>2, SchedAssumption DEF KInv, OnlyTask
<1>4. MovesOn(k, n, st, o)
  BY <1>1, <1>2, OneMoves DEF ReadyOrAt
<1> QED
  BY <1>2, <1>3, <1>4, Switched

\* The task that pends joins the end of a wait list.
LEMMA PendInList ==
  ASSUME NEW ks, NEW n, NEW t \in Task, NEW l, NEW st, NEW o, HoldsBut(ks, l, st, o, {}),
         ks.tcb[t].status # st, OnlyTask(ks, n, t),
         n.tcb[t].status = st, n.tcb[t].pend_obj = o
  PROVE  /\ HoldsBut(n, dlist_add(l, t), st, o, {}) /\ dlist_add(l, t) \in Seq(Task)
<1>1. l \in Seq(Task) /\ NoDuplicates(l) /\ ~ dlist_check(l, t)
  BY DEF HoldsBut
<1> DEFINE m == dlist_add(l, t)
<1>2. m \in Seq(Task) /\ NoDuplicates(m)
      /\ \A x : dlist_check(m, x) <=> (x = t \/ dlist_check(l, x))
  BY <1>1, AddedMembers
<1> HIDE DEF m
<1> QED
  BY <1>2, HoldsMore DEF m

-----------------------------------------------------------------------------
(* Binary semaphores.                                                      *)

\* A step on binary semaphore s: what is left to show.
LEMMA BNext ==
  ASSUME Inv, NEW s, MovesOn(k, k', "PEND_SEM_B", s), KInv(k'), CurInv(k', current'),
         BInv(k', semB', semB_list'), ListInv(semB_list', SemBs),
         CtxInv(ctx', semB_list', semC_list, msgQ_list),
         UNCHANGED <<delayQ, semCVars, semMVars, msgQVars>>
  PROVE  Inv'
<1>1. /\ DInv(k', delayQ) /\ CInv(k', semC, semC_list)
      /\ MInv(k', semM, semM_list, {}) /\ QInv(k', msgQ, msgQ_list)
  BY OthersFrame
<1> QED
  BY <1>1 DEF Inv, ListsInv, semCVars, semMVars, msgQVars

\* Nobody's wait changes.
LEMMA BQuiet ==
  ASSUME Inv, NEW n, MovesOn(k, n, "FREE", NULL), NEW g \in [SemBs -> SEM_BIN],
         \A x \in SemBs : g[x].wait_list = semB[x].wait_list
  PROVE  BInv(n, g, semB_list)
<1>1. BInv(n, semB, semB_list)
  BY OthersFrame
<1> QED
  BY <1>1 DEF BInv

LEMMA SemBAgain ==
  ASSUME Inv, current # IDLE, NEW s \in SemBs, s \in Later => dlist_check(semB_list, s),
         NEW timeout \in Nat, semB_again(s, timeout),
         UNCHANGED <<semCVars, semMVars, msgQVars>>
  PROVE  Inv'
<1>1. /\ KInv(k) /\ CurInv(k, current) /\ current \in Task
      /\ k.tcb[current].status = "READY" /\ ReadyInv(k, {}) /\ TicksLeft(k)
      /\ BInv(k, semB, semB_list) /\ semB \in [SemBs -> SEM_BIN]
      /\ CtxInv(ctx, semB_list, semC_list, msgQ_list) /\ ListInv(semB_list, SemBs)
  BY DEF Inv, CurInv, KInv, BInv, ListsInv
<1>2. UNCHANGED <<delayQ, semB_list, semCVars, semMVars, msgQVars>>
  BY DEF semB_again
<1>3. CASE /\ semB' = [semB EXCEPT ![s].owner_tcb = current]
           /\ k' = SetTicks(k, current, 0)
           /\ ctx' = [ctx EXCEPT ![current] = Run]
           /\ UNCHANGED current
  <2>1. /\ semB' \in [SemBs -> SEM_BIN]
        /\ \A x \in SemBs : semB'[x].wait_list = semB[x].wait_list
    BY <1>1, <1>3 DEF SEM_BIN
  <2>2. /\ ReadyInv(k', {}) /\ TicksLeft(k') /\ OnlyTask(k, k', current)
        /\ k'.tcb[current].status = "READY" /\ \A st, o : MovesOn(k, k', st, o)
    BY <1>1, <1>3, ResetTicksKeeps
  <2>3. KInv(k') /\ CurInv(k', current')
    BY <1>1, <1>3, <2>2, SchedAssumption DEF KInv, CurInv, OnlyTask
  <2>4. BInv(k', semB', semB_list)
    BY <2>1, <2>2, BQuiet
  <2>5. CtxInv(ctx', semB_list, semC_list, msgQ_list)
    BY <1>1, <1>3, CtxRun
  <2> QED
    BY <1>1, <1>2, <2>2, <2>3, <2>4, <2>5, BNext
<1>4. CASE ctx' = [ctx EXCEPT ![current] = Run] /\ UNCHANGED <<k, semB, current>>
  <2>1. CtxInv(ctx', semB_list, semC_list, msgQ_list)
    BY <1>1, <1>4, CtxRun
  <2> QED
    BY <1>1, <1>2, <1>4, <2>1 DEF Inv, ListsInv, semCVars, semMVars, msgQVars
<1>5. CASE /\ timeout # 0
           /\ k' = pend(k, "PEND_SEM_B", s, timeout)
           /\ semB' = [semB EXCEPT ![s].wait_list = dlist_add(@, current)]
           /\ ctx' = [ctx EXCEPT ![current] =
                        [call |-> "semB_take", obj |-> s, msg |-> NULL]]
           /\ SwitchFrom(k')
  <2>1. s \in Obj \cup {NULL} /\ timeout \in Nat \ {0} /\ "PEND_SEM_B" \in Waiting
    BY <1>5, KernelAssumption DEF Waiting, Status
  <2>2. /\ KInv(k') /\ CurInv(k', k'.readyQ.highest_tcb)
        /\ MovesOn(k, k', "PEND_SEM_B", s) /\ OnlyTask(k, k', current)
        /\ k'.tcb[current].status = "PEND_SEM_B" /\ k'.tcb[current].pend_obj = s
    BY <1>5, <2>1, PendStep
  <2>3. HoldsBut(k, semB[s].wait_list, "PEND_SEM_B", s, {})
    BY <1>1 DEF BInv
  <2> DEFINE m == dlist_add(semB[s].wait_list, current)
  <2>4. HoldsBut(k', m, "PEND_SEM_B", s, {}) /\ m \in Seq(Task)
    BY <1>1, <2>2, <2>3, PendInList
  <2>5. semB' = [semB EXCEPT ![s].wait_list = m]
    BY <1>5
  <2> HIDE DEF m
  <2>6. /\ semB' \in [SemBs -> SEM_BIN] /\ semB'[s].wait_list = m
        /\ \A x \in SemBs : x # s => semB'[x].wait_list = semB[x].wait_list
    BY <1>1, <2>4, <2>5 DEF SEM_BIN
  <2>7. BInv(k', semB', semB_list)
    BY <1>1, <2>2, <2>4, <2>6, BStep
  <2> DEFINE d == [call |-> "semB_take", obj |-> s, msg |-> NULL]
  <2>8. CallOK(ctx, d, current, semB_list, semC_list, msgQ_list)
    BY <2>1 DEF CallOK, Contexts, Calls
  <2>9. CtxInv(ctx', semB_list, semC_list, msgQ_list)
    BY <1>1, <1>5, <2>8, CtxSet
  <2>10. CurInv(k', current')
    BY <1>5, <2>2 DEF SwitchFrom
  <2> QED
    BY <1>1, <1>2, <2>2, <2>7, <2>9, <2>10, BNext
<1> QED
  BY <1>3, <1>4, <1>5 DEF semB_again

semB_woken(s) == [semB EXCEPT ![s].owner_tcb = NULL, ![s].wait_list = rest(@)]

\* wake_first is done on the wait list of s, by a task or by an interrupt handler.
LEMMA SemBWake ==
  ASSUME Inv, NEW s \in SemBs, s \in Later => dlist_check(semB_list, s),
         k' = wake_first(k, semB[s].wait_list),
         semB' = semB_woken(s),
         UNCHANGED <<delayQ, current, ctx, semB_list, semCVars, semMVars, msgQVars>>
  PROVE  Inv'
<1>1. /\ KInv(k) /\ CurInv(k, current) /\ ReadyInv(k, {}) /\ TicksLeft(k)
      /\ BInv(k, semB, semB_list) /\ semB \in [SemBs -> SEM_BIN]
      /\ CtxInv(ctx, semB_list, semC_list, msgQ_list) /\ ListInv(semB_list, SemBs)
      /\ HoldsBut(k, semB[s].wait_list, "PEND_SEM_B", s, {})
  BY DEF Inv, KInv, BInv, ListsInv
<1>2. "PEND_SEM_B" \in Waiting
  BY DEF Waiting, Status
<1> DEFINE m == rest(semB[s].wait_list)
<1>3. /\ ReadyInv(k', {}) /\ TicksLeft(k') /\ Woke(k, k', {"PEND_SEM_B"})
      /\ HoldsBut(k', m, "PEND_SEM_B", s, {}) /\ MovesOn(k, k', "PEND_SEM_B", s)
      /\ TicksKept(k, k', {})
  BY <1>1, <1>2, WakeFirstKeeps
<1>4. semB' = [semB EXCEPT ![s].owner_tcb = NULL, ![s].wait_list = m]
  BY DEF semB_woken
<1> HIDE DEF m
<1>5. m \in Seq(Task)
  BY <1>3 DEF HoldsBut
<1>6. /\ semB' \in [SemBs -> SEM_BIN] /\ semB'[s].wait_list = m
      /\ \A x \in SemBs : x # s => semB'[x].wait_list = semB[x].wait_list
  BY <1>1, <1>4, <1>5 DEF SEM_BIN
<1>7. BInv(k', semB', semB_list)
  BY <1>1, <1>3, <1>6, BStep
<1>8. KInv(k') /\ CurInv(k', current)
  BY <1>1, <1>3, SchedAssumption DEF KInv, CurInv, TicksKept
<1> QED
  BY <1>1, <1>3, <1>7, <1>8, BNext

LEMMA SemBGive ==
  ASSUME Inv, NEW s \in SemBs, dlist_check(semB_list, s), semB_give(s),
         UNCHANGED <<semCVars, semMVars, msgQVars>>
  PROVE  Inv'
<1>1. /\ UNCHANGED <<delayQ, current, ctx, semB_list, semCVars, semMVars, msgQVars>>
      /\ k' = wake_first(k, semB[s].wait_list)
      /\ semB' = semB_woken(s)
  BY DEF semB_give, semB_woken
<1> QED
  BY <1>1, SemBWake

semB_emptied(s) == [semB EXCEPT ![s] = [owner_tcb |-> NULL, wait_list |-> << >>]]

\* flushed is done on the wait list of s, in semB_flush and in semB_delete.
LEMMA SemBFlush ==
  ASSUME Inv, NEW s \in SemBs, dlist_check(semB_list, s),
         k' = flushed(k, semB[s].wait_list),
         semB' = semB_emptied(s),
         CtxInv(ctx', semB_list, semC_list, msgQ_list),
         UNCHANGED <<delayQ, current, semB_list, semCVars, semMVars, msgQVars>>
  PROVE  Inv'
<1>1. /\ KInv(k) /\ CurInv(k, current) /\ ReadyInv(k, {}) /\ TicksLeft(k)
      /\ BInv(k, semB, semB_list) /\ semB \in [SemBs -> SEM_BIN]
      /\ ListInv(semB_list, SemBs)
      /\ HoldsBut(k, semB[s].wait_list, "PEND_SEM_B", s, {})
  BY DEF Inv, KInv, BInv, ListsInv
<1>2. "PEND_SEM_B" \in Waiting
  BY DEF Waiting, Status
<1>3. /\ ReadyInv(k', {}) /\ TicksLeft(k') /\ Expired(k, k')
      /\ MovesOn(k, k', "PEND_SEM_B", s) /\ HoldsBut(k', << >>, "PEND_SEM_B", s, {})
  BY <1>1, <1>2, FlushKeeps
<1>4. /\ semB' \in [SemBs -> SEM_BIN] /\ semB'[s].wait_list = << >>
      /\ \A x \in SemBs : x # s => semB'[x].wait_list = semB[x].wait_list
  BY <1>1 DEF SEM_BIN, semB_emptied
<1>5. BInv(k', semB', semB_list)
  <2>1. HoldsBut(k', semB'[s].wait_list, "PEND_SEM_B", s, {})
    BY <1>3, <1>4
  <2> QED
    BY <1>1, <1>3, <1>4, <2>1, BStep
<1>6. KInv(k') /\ CurInv(k', current)
  BY <1>1, <1>3, SchedAssumption DEF KInv, CurInv, Expired
<1> QED
  BY <1>1, <1>3, <1>5, <1>6, BNext

\* Objects in a list of the objects.
LEMMA Listed ==
  ASSUME NEW Os, NEW l, ListInv(l, Os), NEW s
  PROVE  /\ s \in ToSet(l) => s \in Os /\ dlist_check(l, s)
         /\ s \in Os /\ ~ dlist_check(l, s)
              => /\ ListInv(dlist_add(l, s), Os)
                 /\ \A x : dlist_check(dlist_add(l, s), x) <=> (x = s \/ dlist_check(l, x))
         /\ dlist_check(l, s)
              => /\ ListInv(dlist_remove(l, s), Os)
                 /\ \A x : x # s => (dlist_check(dlist_remove(l, s), x) <=> dlist_check(l, x))
<1>1. l \in Seq(Os) /\ NoDuplicates(l)
  BY DEF ListInv
<1>2. ASSUME s \in ToSet(l) PROVE s \in Os /\ dlist_check(l, s)
  BY <1>1, <1>2 DEF ToSet, dlist_check
<1>3. ASSUME s \in Os, ~ dlist_check(l, s)
      PROVE  /\ ListInv(dlist_add(l, s), Os)
             /\ \A x : dlist_check(dlist_add(l, s), x) <=> (x = s \/ dlist_check(l, x))
  BY <1>1, <1>3, AddedMembers DEF ListInv
<1>4. ASSUME dlist_check(l, s)
      PROVE  /\ ListInv(dlist_remove(l, s), Os)
             /\ \A x : x # s => (dlist_check(dlist_remove(l, s), x) <=> dlist_check(l, x))
  BY <1>1, <1>4, RemovedMembers DEF ListInv
<1> QED
  BY <1>2, <1>3, <1>4

\* A semaphore that is linked while the system runs has no waiters.
LEMMA SemBInit ==
  ASSUME Inv, NEW s \in SemBs \cap Later, semB_init(s),
         UNCHANGED <<semCVars, semMVars, msgQVars>>
  PROVE  Inv'
<1>1. /\ BInv(k, semB, semB_list) /\ semB \in [SemBs -> SEM_BIN]
      /\ ListInv(semB_list, SemBs)
      /\ CtxInv(ctx, semB_list, semC_list, msgQ_list)
  BY DEF Inv, BInv, ListsInv
<1>2. /\ ~ dlist_check(semB_list, s) /\ semB_list' = dlist_add(semB_list, s)
      /\ semB' = [semB EXCEPT ![s] = [owner_tcb |-> NULL, wait_list |-> << >>]]
      /\ UNCHANGED <<k, delayQ, current, ctx>>
  BY DEF semB_init, schedVars
<1>3. /\ ListInv(semB_list', SemBs)
      /\ \A x : dlist_check(semB_list', x) <=> (x = s \/ dlist_check(semB_list, x))
  BY <1>1, <1>2, Listed
<1>4. /\ semB' \in [SemBs -> SEM_BIN] /\ semB'[s].wait_list = << >>
      /\ \A x \in SemBs : x # s => semB'[x].wait_list = semB[x].wait_list
  BY <1>1, <1>2 DEF SEM_BIN
<1>5. HoldsBut(k, << >>, "PEND_SEM_B", s, {})
  BY <1>1, <1>2 DEF BInv, HoldsBut, dlist_check, NoDuplicates
<1>6. BInv(k, semB', semB_list')
  BY <1>1, <1>3, <1>4, <1>5 DEF BInv
<1>7. CtxInv(ctx, semB_list', semC_list, msgQ_list)
  BY <1>1, <1>3 DEF CtxInv, BCalls
<1> QED
  BY <1>2, <1>3, <1>6, <1>7 DEF Inv, ListsInv, semCVars, semMVars, msgQVars

\* No other task is about to unlink the semaphore that this one unlinks.
LEMMA SemBUnlink ==
  ASSUME Inv, semB_unlink, UNCHANGED <<semCVars, semMVars, msgQVars>>
  PROVE  Inv'
<1> DEFINE s == ctx[current].obj
<1>1. /\ BInv(k, semB, semB_list) /\ ListInv(semB_list, SemBs)
      /\ CtxInv(ctx, semB_list, semC_list, msgQ_list)
  BY DEF Inv, ListsInv
<1>2. /\ ctx[current].call = "semB_delete" /\ semB_list' = dlist_remove(semB_list, s)
      /\ ctx' = [ctx EXCEPT ![current] = Run] /\ UNCHANGED <<k, delayQ, current, semB>>
  BY DEF semB_unlink
<1>3. current \in Task /\ current # IDLE
  BY <1>2, CallerIs
<1>4. s \in SemBs \ Later /\ dlist_check(semB_list, s)
  BY <1>1, <1>2, <1>3 DEF CtxInv, BCalls
<1>5. /\ ListInv(semB_list', SemBs)
      /\ \A x : x # s => (dlist_check(semB_list', x) <=> dlist_check(semB_list, x))
  BY <1>1, <1>2, <1>4, Listed
<1>6. BInv(k, semB, semB_list')
  BY <1>1, <1>4, <1>5 DEF BInv
<1>7. CtxInv(ctx', semB_list, semC_list, msgQ_list)
  BY <1>1, <1>2, <1>3, CtxRun
<1>8. ctx'[current].call = "run" /\ \A u \in Task : u # current => ctx'[u] = ctx[u]
  BY <1>1, <1>2, <1>3 DEF CtxInv, Run
<1>9. BCalls(ctx', semB_list')
  <2>1. \A u \in Task : ctx'[u].call = "semB_delete" => ctx'[u].obj # s
    BY <1>1, <1>2, <1>3, <1>8 DEF CtxInv, BCalls
  <2> QED
    BY <1>4, <1>5, <1>7, <2>1 DEF CtxInv, BCalls
<1> QED
  BY <1>2, <1>5, <1>6, <1>7, <1>9 DEF Inv, ListsInv, CtxInv, semCVars, semMVars, msgQVars

LEMMA SemBKeeps ==
  ASSUME Inv, SemBStep
  PROVE  Inv'
<1> USE DEF SemBStep
<1>1. /\ ListInv(semB_list, SemBs) /\ CtxInv(ctx, semB_list, semC_list, msgQ_list)
      /\ UNCHANGED <<semCVars, semMVars, msgQVars>>
  BY DEF Inv, ListsInv
<1>2. ASSUME NEW s \in ToSet(semB_list), NEW n \in Timeouts, semB_take(s, n) PROVE Inv'
  <2>1. s \in SemBs /\ dlist_check(semB_list, s)
    BY <1>1, Listed
  <2>2. current # IDLE /\ semB_again(s, n) /\ n \in Nat
    BY <1>2, KernelAssumption DEF semB_take, MayCall
  <2> QED
    BY <1>1, <2>1, <2>2, SemBAgain
<1>3. ASSUME semB_wakeup PROVE Inv'
  <2>1. ctx[current].call = "semB_take" /\ current \in Task /\ current # IDLE
    BY <1>3, CallerIs DEF semB_wakeup
  <2>2. CASE k.tcb[current].delay_ticks # 0
    <3>1. semB_again(ctx[current].obj, k.tcb[current].delay_ticks)
      BY <1>3, <2>2 DEF semB_wakeup
    <3>2. k.tcb[current].delay_ticks \in Nat
      BY <2>1 DEF Inv, KInv, ReadyInv, KernelState, OS_TCB
    <3>3. ctx[current].obj \in SemBs
          /\ (ctx[current].obj \in Later => dlist_check(semB_list, ctx[current].obj))
      BY <1>1, <2>1 DEF CtxInv, BCalls
    <3> QED
      BY <1>1, <2>1, <3>1, <3>2, <3>3, SemBAgain
  <2>3. CASE k.tcb[current].delay_ticks = 0
    <3>1. ctx' = [ctx EXCEPT ![current] = Run]
          /\ UNCHANGED <<k, delayQ, current, semB, semB_list>>
      BY <1>3, <2>3 DEF semB_wakeup
    <3>2. CtxInv(ctx', semB_list, semC_list, msgQ_list)
      BY <1>1, <2>1, <3>1, CtxRun
    <3> QED
      BY <1>1, <3>1, <3>2 DEF Inv, ListsInv, semCVars, semMVars, msgQVars
  <2> QED
    BY <2>2, <2>3
<1>4. ASSUME NEW s \in ToSet(semB_list), semB_give(s) PROVE Inv'
  BY <1>1, <1>4, Listed, SemBGive
<1>5. ASSUME NEW s \in SemBs \cap Later, semB_init(s) PROVE Inv'
  BY <1>1, <1>5, SemBInit
<1>6. ASSUME NEW s \in SemBs \cap Disposable, semB_flush(s) PROVE Inv'
  BY <1>1, <1>6, SemBFlush DEF semB_flush, semB_emptied
<1>7. ASSUME NEW s \in SemBs \cap Disposable, semB_delete(s) PROVE Inv'
  <2> DEFINE d == [call |-> "semB_delete", obj |-> s, msg |-> NULL]
  <2>1. current \in Task /\ current # IDLE
    BY <1>7, CallerIs DEF semB_delete
  <2>2. s \in Obj /\ s \notin Later
    BY KernelAssumption
  <2>3. /\ dlist_check(semB_list, s) /\ ctx' = [ctx EXCEPT ![current] = d]
        /\ \A u \in Task : ~ (ctx[u].call = "semB_delete" /\ ctx[u].obj = s)
    BY <1>7 DEF semB_delete, Deleting
  <2>4. CallOK(ctx, d, current, semB_list, semC_list, msgQ_list)
    BY <2>2, <2>3 DEF CallOK, Contexts, Calls
  <2>5. CtxInv(ctx', semB_list, semC_list, msgQ_list)
    BY <1>1, <2>1, <2>3, <2>4, CtxSet
  <2> QED
    BY <1>1, <1>7, <2>3, <2>5, SemBFlush DEF semB_delete, semB_emptied
<1>8. ASSUME semB_unlink PROVE Inv'
  BY <1>1, <1>8, SemBUnlink
<1> QED
  BY <1>2, <1>3, <1>4, <1>5, <1>6, <1>7, <1>8

-----------------------------------------------------------------------------
(* Counting semaphores.                                                    *)

\* A step on counting semaphore s: what is left to show.
LEMMA CNext ==
  ASSUME Inv, NEW s, MovesOn(k, k', "PEND_SEM_C", s), KInv(k'), CurInv(k', current'),
         CInv(k', semC', semC_list'), ListInv(semC_list', SemCs),
         CtxInv(ctx', semB_list, semC_list', msgQ_list),
         UNCHANGED <<delayQ, semBVars, semMVars, msgQVars>>
  PROVE  Inv'
<1>1. /\ DInv(k', delayQ) /\ BInv(k', semB, semB_list)
      /\ MInv(k', semM, semM_list, {}) /\ QInv(k', msgQ, msgQ_list)
  BY OthersFrame
<1> QED
  BY <1>1 DEF Inv, ListsInv, semBVars, semMVars, msgQVars

LEMMA CQuiet ==
  ASSUME Inv, NEW n, MovesOn(k, n, "FREE", NULL), NEW g \in [SemCs -> SEM_CNT],
         \A x \in SemCs : g[x].wait_list = semC[x].wait_list
  PROVE  CInv(n, g, semC_list)
<1>1. CInv(n, semC, semC_list)
  BY OthersFrame
<1> QED
  BY <1>1 DEF CInv

LEMMA SemCAgain ==
  ASSUME Inv, current # IDLE, NEW s \in SemCs, s \in Later => dlist_check(semC_list, s),
         NEW timeout \in Nat, semC_again(s, timeout),
         UNCHANGED <<semBVars, semMVars, msgQVars>>
  PROVE  Inv'
<1>1. /\ KInv(k) /\ CurInv(k, current) /\ current \in Task
      /\ k.tcb[current].status = "READY" /\ ReadyInv(k, {}) /\ TicksLeft(k)
      /\ CInv(k, semC, semC_list) /\ semC \in [SemCs -> SEM_CNT]
      /\ CtxInv(ctx, semB_list, semC_list, msgQ_list) /\ ListInv(semC_list, SemCs)
  BY DEF Inv, CurInv, KInv, CInv, ListsInv
<1>2. UNCHANGED <<delayQ, semC_list, semBVars, semMVars, msgQVars>>
  BY DEF semC_again
<1>3. CASE /\ semC[s].count > 0
           /\ semC' = [semC EXCEPT ![s].count = @ - 1]
           /\ k' = SetTicks(k, current, 0)
           /\ ctx' = [ctx EXCEPT ![current] = Run]
           /\ UNCHANGED current
  <2>1. /\ semC' \in [SemCs -> SEM_CNT]
        /\ \A x \in SemCs : semC'[x].wait_list = semC[x].wait_list
    BY <1>1, <1>3, SemCAssumption DEF SEM_CNT
  <2>2. /\ ReadyInv(k', {}) /\ TicksLeft(k') /\ OnlyTask(k, k', current)
        /\ k'.tcb[current].status = "READY" /\ \A st, o : MovesOn(k, k', st, o)
    BY <1>1, <1>3, ResetTicksKeeps
  <2>3. KInv(k') /\ CurInv(k', current')
    BY <1>1, <1>3, <2>2, SchedAssumption DEF KInv, CurInv, OnlyTask
  <2>4. CInv(k', semC', semC_list)
    BY <2>1, <2>2, CQuiet
  <2>5. CtxInv(ctx', semB_list, semC_list, msgQ_list)
    BY <1>1, <1>3, CtxRun
  <2> QED
    BY <1>1, <1>2, <2>2, <2>3, <2>4, <2>5, CNext
<1>4. CASE ctx' = [ctx EXCEPT ![current] = Run] /\ UNCHANGED <<k, semC, current>>
  <2>1. CtxInv(ctx', semB_list, semC_list, msgQ_list)
    BY <1>1, <1>4, CtxRun
  <2> QED
    BY <1>1, <1>2, <1>4, <2>1 DEF Inv, ListsInv, semBVars, semMVars, msgQVars
<1>5. CASE /\ timeout # 0
           /\ k' = pend(k, "PEND_SEM_C", s, timeout)
           /\ semC' = [semC EXCEPT ![s].wait_list = dlist_add(@, current)]
           /\ ctx' = [ctx EXCEPT ![current] =
                        [call |-> "semC_take", obj |-> s, msg |-> NULL]]
           /\ SwitchFrom(k')
  <2>1. s \in Obj \cup {NULL} /\ timeout \in Nat \ {0} /\ "PEND_SEM_C" \in Waiting
    BY <1>5, KernelAssumption DEF Waiting, Status
  <2>2. /\ KInv(k') /\ CurInv(k', k'.readyQ.highest_tcb)
        /\ MovesOn(k, k', "PEND_SEM_C", s) /\ OnlyTask(k, k', current)
        /\ k'.tcb[current].status = "PEND_SEM_C" /\ k'.tcb[current].pend_obj = s
    BY <1>5, <2>1, PendStep
  <2>3. HoldsBut(k, semC[s].wait_list, "PEND_SEM_C", s, {})
    BY <1>1 DEF CInv
  <2> DEFINE m == dlist_add(semC[s].wait_list, current)
  <2>4. HoldsBut(k', m, "PEND_SEM_C", s, {}) /\ m \in Seq(Task)
    BY <1>1, <2>2, <2>3, PendInList
  <2>5. semC' = [semC EXCEPT ![s].wait_list = m]
    BY <1>5
  <2> HIDE DEF m
  <2>6. /\ semC' \in [SemCs -> SEM_CNT] /\ semC'[s].wait_list = m
        /\ \A x \in SemCs : x # s => semC'[x].wait_list = semC[x].wait_list
    BY <1>1, <2>4, <2>5 DEF SEM_CNT
  <2>7. CInv(k', semC', semC_list)
    BY <1>1, <2>2, <2>4, <2>6, CStep
  <2> DEFINE d == [call |-> "semC_take", obj |-> s, msg |-> NULL]
  <2>8. CallOK(ctx, d, current, semB_list, semC_list, msgQ_list)
    BY <2>1 DEF CallOK, Contexts, Calls
  <2>9. CtxInv(ctx', semB_list, semC_list, msgQ_list)
    BY <1>1, <1>5, <2>8, CtxSet
  <2>10. CurInv(k', current')
    BY <1>5, <2>2 DEF SwitchFrom
  <2> QED
    BY <1>1, <1>2, <2>2, <2>7, <2>9, <2>10, CNext
<1> QED
  BY <1>3, <1>4, <1>5 DEF semC_again

LEMMA SemCGive ==
  ASSUME Inv, NEW s \in SemCs, dlist_check(semC_list, s), semC[s].count < MAX_COUNT,
         semC_give(s),
         UNCHANGED <<semBVars, semMVars, msgQVars>>
  PROVE  Inv'
<1>1. /\ KInv(k) /\ CurInv(k, current) /\ ReadyInv(k, {}) /\ TicksLeft(k)
      /\ CInv(k, semC, semC_list) /\ semC \in [SemCs -> SEM_CNT]
      /\ CtxInv(ctx, semB_list, semC_list, msgQ_list) /\ ListInv(semC_list, SemCs)
      /\ HoldsBut(k, semC[s].wait_list, "PEND_SEM_C", s, {})
  BY DEF Inv, KInv, CInv, ListsInv
<1>2. /\ UNCHANGED <<delayQ, current, ctx, semC_list, semBVars, semMVars, msgQVars>>
      /\ k' = wake_first(k, semC[s].wait_list)
      /\ semC' = [semC EXCEPT ![s].count = @ + 1, ![s].wait_list = rest(@)]
  BY DEF semC_give
<1>3. "PEND_SEM_C" \in Waiting
  BY DEF Waiting, Status
<1> DEFINE m == rest(semC[s].wait_list)
<1>4. /\ ReadyInv(k', {}) /\ TicksLeft(k') /\ Woke(k, k', {"PEND_SEM_C"})
      /\ HoldsBut(k', m, "PEND_SEM_C", s, {}) /\ MovesOn(k, k', "PEND_SEM_C", s)
      /\ TicksKept(k, k', {})
  BY <1>1, <1>2, <1>3, WakeFirstKeeps
<1>5. semC' = [semC EXCEPT ![s].count = @ + 1, ![s].wait_list = m]
  BY <1>2
<1> HIDE DEF m
<1>6. m \in Seq(Task)
  BY <1>4 DEF HoldsBut
<1>7. /\ semC' \in [SemCs -> SEM_CNT] /\ semC'[s].wait_list = m
      /\ \A x \in SemCs : x # s => semC'[x].wait_list = semC[x].wait_list
  <2> DEFINE r == [semC[s] EXCEPT !.count = @ + 1, !.wait_list = m]
  <2>1. semC' = [semC EXCEPT ![s] = r]
    BY <1>1, <1>5
  <2>2. r \in SEM_CNT /\ r.wait_list = m
    <3>1. semC[s] \in SEM_CNT /\ semC[s].count \in 0 .. MAX_COUNT
      BY <1>1 DEF SEM_CNT
    <3>2. semC[s].count + 1 \in 0 .. MAX_COUNT
      BY <3>1, SemCAssumption
    <3> QED
      BY <1>6, <3>1, <3>2 DEF SEM_CNT
  <2> HIDE DEF r
  <2> QED
    BY <1>1, <2>1, <2>2
<1>8. CInv(k', semC', semC_list)
  BY <1>1, <1>4, <1>7, CStep
<1>9. KInv(k') /\ CurInv(k', current)
  BY <1>1, <1>4, SchedAssumption DEF KInv, CurInv, TicksKept
<1> QED
  BY <1>1, <1>2, <1>4, <1>8, <1>9, CNext

semC_emptied(s) == [semC EXCEPT ![s] = [count |-> 0, wait_list |-> << >>]]

LEMMA SemCFlush ==
  ASSUME Inv, NEW s \in SemCs, dlist_check(semC_list, s),
         k' = flushed(k, semC[s].wait_list),
         semC' = semC_emptied(s),
         CtxInv(ctx', semB_list, semC_list, msgQ_list),
         UNCHANGED <<delayQ, current, semC_list, semBVars, semMVars, msgQVars>>
  PROVE  Inv'
<1>1. /\ KInv(k) /\ CurInv(k, current) /\ ReadyInv(k, {}) /\ TicksLeft(k)
      /\ CInv(k, semC, semC_list) /\ semC \in [SemCs -> SEM_CNT]
      /\ ListInv(semC_list, SemCs)
      /\ HoldsBut(k, semC[s].wait_list, "PEND_SEM_C", s, {})
  BY DEF Inv, KInv, CInv, ListsInv
<1>2. "PEND_SEM_C" \in Waiting
  BY DEF Waiting, Status
<1>3. /\ ReadyInv(k', {}) /\ TicksLeft(k') /\ Expired(k, k')
      /\ MovesOn(k, k', "PEND_SEM_C", s) /\ HoldsBut(k', << >>, "PEND_SEM_C", s, {})
  BY <1>1, <1>2, FlushKeeps
<1>4. /\ semC' \in [SemCs -> SEM_CNT] /\ semC'[s].wait_list = << >>
      /\ \A x \in SemCs : x # s => semC'[x].wait_list = semC[x].wait_list
  BY <1>1, SemCAssumption DEF SEM_CNT, semC_emptied
<1>5. CInv(k', semC', semC_list)
  <2>1. HoldsBut(k', semC'[s].wait_list, "PEND_SEM_C", s, {})
    BY <1>3, <1>4
  <2> QED
    BY <1>1, <1>3, <1>4, <2>1, CStep
<1>6. KInv(k') /\ CurInv(k', current)
  BY <1>1, <1>3, SchedAssumption DEF KInv, CurInv, Expired
<1> QED
  BY <1>1, <1>3, <1>5, <1>6, CNext

LEMMA SemCInit ==
  ASSUME Inv, NEW s \in SemCs \cap Later, NEW n \in 0 .. MAX_COUNT,
         semC_init(s, n),
         UNCHANGED <<semBVars, semMVars, msgQVars>>
  PROVE  Inv'
<1>1. /\ CInv(k, semC, semC_list) /\ semC \in [SemCs -> SEM_CNT]
      /\ ListInv(semC_list, SemCs)
      /\ CtxInv(ctx, semB_list, semC_list, msgQ_list)
  BY DEF Inv, CInv, ListsInv
<1>2. /\ ~ dlist_check(semC_list, s) /\ semC_list' = dlist_add(semC_list, s)
      /\ semC' = [semC EXCEPT ![s] = [count |-> n, wait_list |-> << >>]]
      /\ UNCHANGED <<k, delayQ, current, ctx>>
  BY DEF semC_init, schedVars
<1>3. /\ ListInv(semC_list', SemCs)
      /\ \A x : dlist_check(semC_list', x) <=> (x = s \/ dlist_check(semC_list, x))
  BY <1>1, <1>2, Listed
<1>4. /\ semC' \in [SemCs -> SEM_CNT] /\ semC'[s].wait_list = << >>
      /\ \A x \in SemCs : x # s => semC'[x].wait_list = semC[x].wait_list
  BY <1>1, <1>2 DEF SEM_CNT
<1>5. HoldsBut(k, << >>, "PEND_SEM_C", s, {})
  BY <1>1, <1>2 DEF CInv, HoldsBut, dlist_check, NoDuplicates
<1>6. CInv(k, semC', semC_list')
  BY <1>1, <1>3, <1>4, <1>5 DEF CInv
<1>7. CtxInv(ctx, semB_list, semC_list', msgQ_list)
  BY <1>1, <1>3 DEF CtxInv, CCalls
<1> QED
  BY <1>2, <1>3, <1>6, <1>7 DEF Inv, ListsInv, semBVars, semMVars, msgQVars

LEMMA SemCUnlink ==
  ASSUME Inv, semC_unlink, UNCHANGED <<semBVars, semMVars, msgQVars>>
  PROVE  Inv'
<1> DEFINE s == ctx[current].obj
<1>1. /\ CInv(k, semC, semC_list) /\ ListInv(semC_list, SemCs)
      /\ CtxInv(ctx, semB_list, semC_list, msgQ_list)
  BY DEF Inv, ListsInv
<1>2. /\ ctx[current].call = "semC_delete" /\ semC_list' = dlist_remove(semC_list, s)
      /\ ctx' = [ctx EXCEPT ![current] = Run] /\ UNCHANGED <<k, delayQ, current, semC>>
  BY DEF semC_unlink
<1>3. current \in Task /\ current # IDLE
  BY <1>2, CallerIs
<1>4. s \in SemCs \ Later /\ dlist_check(semC_list, s)
  BY <1>1, <1>2, <1>3 DEF CtxInv, CCalls
<1>5. /\ ListInv(semC_list', SemCs)
      /\ \A x : x # s => (dlist_check(semC_list', x) <=> dlist_check(semC_list, x))
  BY <1>1, <1>2, <1>4, Listed
<1>6. CInv(k, semC, semC_list')
  BY <1>1, <1>4, <1>5 DEF CInv
<1>7. CtxInv(ctx', semB_list, semC_list, msgQ_list)
  BY <1>1, <1>2, <1>3, CtxRun
<1>8. ctx'[current].call = "run" /\ \A u \in Task : u # current => ctx'[u] = ctx[u]
  BY <1>1, <1>2, <1>3 DEF CtxInv, Run
<1>9. CCalls(ctx', semC_list')
  <2>1. \A u \in Task : ctx'[u].call = "semC_delete" => ctx'[u].obj # s
    BY <1>1, <1>2, <1>3, <1>8 DEF CtxInv, CCalls
  <2> QED
    BY <1>4, <1>5, <1>7, <2>1 DEF CtxInv, CCalls
<1> QED
  BY <1>2, <1>5, <1>6, <1>7, <1>9 DEF Inv, ListsInv, CtxInv, semBVars, semMVars, msgQVars

LEMMA SemCKeeps ==
  ASSUME Inv, SemCStep
  PROVE  Inv'
<1> USE DEF SemCStep
<1>1. /\ ListInv(semC_list, SemCs) /\ CtxInv(ctx, semB_list, semC_list, msgQ_list)
      /\ UNCHANGED <<semBVars, semMVars, msgQVars>>
  BY DEF Inv, ListsInv
<1>2. ASSUME NEW s \in ToSet(semC_list), NEW n \in Timeouts, semC_take(s, n) PROVE Inv'
  <2>1. s \in SemCs /\ dlist_check(semC_list, s)
    BY <1>1, Listed
  <2>2. current # IDLE /\ semC_again(s, n) /\ n \in Nat
    BY <1>2, KernelAssumption DEF semC_take, MayCall
  <2> QED
    BY <1>1, <2>1, <2>2, SemCAgain
<1>3. ASSUME semC_wakeup PROVE Inv'
  <2>1. ctx[current].call = "semC_take" /\ current \in Task /\ current # IDLE
    BY <1>3, CallerIs DEF semC_wakeup
  <2>2. CASE k.tcb[current].delay_ticks # 0
    <3>1. semC_again(ctx[current].obj, k.tcb[current].delay_ticks)
      BY <1>3, <2>2 DEF semC_wakeup
    <3>2. k.tcb[current].delay_ticks \in Nat
      BY <2>1 DEF Inv, KInv, ReadyInv, KernelState, OS_TCB
    <3>3. ctx[current].obj \in SemCs
          /\ (ctx[current].obj \in Later => dlist_check(semC_list, ctx[current].obj))
      BY <1>1, <2>1 DEF CtxInv, CCalls
    <3> QED
      BY <1>1, <2>1, <3>1, <3>2, <3>3, SemCAgain
  <2>3. CASE k.tcb[current].delay_ticks = 0
    <3>1. ctx' = [ctx EXCEPT ![current] = Run]
          /\ UNCHANGED <<k, delayQ, current, semC, semC_list>>
      BY <1>3, <2>3 DEF semC_wakeup
    <3>2. CtxInv(ctx', semB_list, semC_list, msgQ_list)
      BY <1>1, <2>1, <3>1, CtxRun
    <3> QED
      BY <1>1, <3>1, <3>2 DEF Inv, ListsInv, semBVars, semMVars, msgQVars
  <2> QED
    BY <2>2, <2>3
<1>4. ASSUME NEW s \in ToSet(semC_list), semC_give(s) PROVE Inv'
  <2>1. s \in SemCs /\ dlist_check(semC_list, s)
    BY <1>1, Listed
  <2>2. CASE semC[s].count < MAX_COUNT
    BY <1>1, <1>4, <2>1, <2>2, SemCGive
  <2>3. CASE ~ (semC[s].count < MAX_COUNT)
    <3>1. UNCHANGED <<k, delayQ, current, ctx, semC, semC_list>>
      BY <1>4, <2>3 DEF semC_give
    <3> QED
      BY <1>1, <3>1 DEF Inv, ListsInv, semBVars, semMVars, msgQVars
  <2> QED
    BY <2>2, <2>3
<1>5. ASSUME NEW s \in SemCs \cap Later, NEW n \in 0 .. MAX_COUNT, semC_init(s, n)
      PROVE  Inv'
  BY <1>1, <1>5, SemCInit
<1>6. ASSUME NEW s \in SemCs \cap Disposable, semC_flush(s) PROVE Inv'
  BY <1>1, <1>6, SemCFlush DEF semC_flush, semC_emptied
<1>7. ASSUME NEW s \in SemCs \cap Disposable, semC_delete(s) PROVE Inv'
  <2> DEFINE d == [call |-> "semC_delete", obj |-> s, msg |-> NULL]
  <2>1. current \in Task /\ current # IDLE
    BY <1>7, CallerIs DEF semC_delete
  <2>2. s \in Obj /\ s \notin Later
    BY KernelAssumption
  <2>3. /\ dlist_check(semC_list, s) /\ ctx' = [ctx EXCEPT ![current] = d]
        /\ \A u \in Task : ~ (ctx[u].call = "semC_delete" /\ ctx[u].obj = s)
    BY <1>7 DEF semC_delete, Deleting
  <2>4. CallOK(ctx, d, current, semB_list, semC_list, msgQ_list)
    BY <2>2, <2>3 DEF CallOK, Contexts, Calls
  <2>5. CtxInv(ctx', semB_list, semC_list, msgQ_list)
    BY <1>1, <2>1, <2>3, <2>4, CtxSet
  <2> QED
    BY <1>1, <1>7, <2>3, <2>5, SemCFlush DEF semC_delete, semC_emptied
<1>8. ASSUME semC_unlink PROVE Inv'
  BY <1>1, <1>8, SemCUnlink
<1> QED
  BY <1>2, <1>3, <1>4, <1>5, <1>6, <1>7, <1>8

-----------------------------------------------------------------------------
(* Message queues.                                                         *)

LEMMA QNext ==
  ASSUME Inv, NEW st \in MsgWait, NEW q, MovesOn(k, k', st, q),
         KInv(k'), CurInv(k', current'),
         QInv(k', msgQ', msgQ_list'), ListInv(msgQ_list', MsgQs),
         CtxInv(ctx', semB_list, semC_list, msgQ_list'),
         UNCHANGED <<delayQ, semBVars, semCVars, semMVars>>
  PROVE  Inv'
<1>1. /\ DInv(k', delayQ) /\ BInv(k', semB, semB_list)
      /\ CInv(k', semC, semC_list) /\ MInv(k', semM, semM_list, {})
  BY OthersFrame DEF MsgWait
<1> QED
  BY <1>1 DEF Inv, ListsInv, semBVars, semCVars, semMVars

\* A sender or a receiver whose call is done: its ticks are reset and the first
\* task of a wait list of the other side is woken.
LEMMA DoneAndWoken ==
  ASSUME Inv, current # IDLE, NEW st \in MsgWait, NEW q \in MsgQs,
         NEW s, HoldsBut(k, s, st, q, {}), NEW n, n = wake_first(SetTicks(k, current, 0), s)
  PROVE  /\ KInv(n) /\ CurInv(n, current) /\ MovesOn(k, n, st, q)
         /\ HoldsBut(n, rest(s), st, q, {}) /\ rest(s) \in Seq(Task)
<1> DEFINE a == SetTicks(k, current, 0)
<1>1. /\ KInv(k) /\ CurInv(k, current) /\ current \in Task
      /\ k.tcb[current].status = "READY" /\ ReadyInv(k, {}) /\ TicksLeft(k)
  BY DEF Inv, CurInv, KInv
<1>2. /\ ReadyInv(a, {}) /\ TicksLeft(a) /\ OnlyTask(k, a, current)
      /\ a.tcb[current].status = "READY" /\ \A st1, o : MovesOn(k, a, st1, o)
  BY <1>1, ResetTicksKeeps
<1>3. st \in Waiting /\ st # "READY" /\ st # "FREE"
  BY DEF MsgWait, Waiting, Status
<1> HIDE DEF a
<1>4. HoldsBut(a, s, st, q, {})
  <2>1. MovesOn(k, a, "FREE", NULL)
    BY <1>2
  <2> QED
    BY <1>3, <2>1, MovesFrame
<1>5. n = wake_first(a, s)
  BY DEF a
<1>6. /\ ReadyInv(n, {}) /\ TicksLeft(n) /\ HoldsBut(n, rest(s), st, q, {})
      /\ MovesOn(a, n, st, q) /\ TicksKept(a, n, {})
  BY <1>2, <1>3, <1>4, <1>5, WakeFirstKeeps
<1>7. KInv(n) /\ CurInv(n, current)
  BY <1>1, <1>2, <1>6, SchedAssumption DEF KInv, CurInv, OnlyTask, TicksKept
<1>8. MovesOn(k, n, st, q)
  <2> SUFFICES ASSUME NEW t \in Task
               PROVE  \/ /\ n.tcb[t].status = k.tcb[t].status
                         /\ n.tcb[t].pend_obj = k.tcb[t].pend_obj
                      \/ ReadyOrAt(k, t, st, q) /\ ReadyOrAt(n, t, st, q)
    BY DEF MovesOn
  <2>1. CASE t = current
    BY <1>1, <1>7, <2>1 DEF CurInv, ReadyOrAt
  <2>2. CASE t # current
    <3>1. a.tcb[t] = k.tcb[t]
      BY <1>2, <2>2 DEF OnlyTask
    <3> QED
      BY <1>6, <3>1 DEF MovesOn, ReadyOrAt
  <2> QED
    BY <2>1, <2>2
<1>9. rest(s) \in Seq(Task)
  BY <1>6 DEF HoldsBut
<1> QED
  BY <1>6, <1>7, <1>8, <1>9

LEMMA SentIs ==
  ASSUME NEW f \in [MsgQs -> MSG_QUE], NEW q \in MsgQs, NEW m \in Msg,
         f[q].cur_num < MAX_NUM, f[q].cur_num = Len(f[q].msg_list),
         rest(f[q].wait_recv_list) \in Seq(Task),
         NEW g, g = [f EXCEPT ![q] = msg_sent(@, m)]
  PROVE  /\ g \in [MsgQs -> MSG_QUE] /\ \A x \in MsgQs : x # q => g[x] = f[x]
         /\ g[q].wait_send_list = f[q].wait_send_list
         /\ g[q].wait_recv_list = rest(f[q].wait_recv_list)
         /\ g[q].cur_num = Len(g[q].msg_list)
<1> DEFINE l == f[q].msg_list
           w == rest(f[q].wait_recv_list)
           r == msg_sent(f[q], m)
<1>1. g = [f EXCEPT ![q] = r]
  OBVIOUS
<1>2. f[q] \in MSG_QUE /\ l \in Seq(Msg) /\ f[q].cur_num \in 0 .. MAX_NUM
  BY DEF MSG_QUE
<1>3. dlist_add(l, m) \in Seq(Msg) /\ Len(dlist_add(l, m)) = Len(l) + 1
  BY <1>2 DEF dlist_add
<1>4. f[q].cur_num + 1 \in 0 .. MAX_NUM
  BY <1>2, MsgQAssumption
<1>5. /\ r \in MSG_QUE /\ r.wait_send_list = f[q].wait_send_list /\ r.wait_recv_list = w
      /\ r.cur_num = f[q].cur_num + 1 /\ r.msg_list = dlist_add(l, m)
  BY <1>2, <1>3, <1>4 DEF MSG_QUE, msg_sent
<1>6. r.cur_num = Len(r.msg_list)
  BY <1>3, <1>5
<1> HIDE DEF r, w, l
<1>7. g \in [MsgQs -> MSG_QUE] /\ g[q] = r /\ \A x \in MsgQs : x # q => g[x] = f[x]
  BY <1>1, <1>5
<1> QED
  BY <1>5, <1>6, <1>7 DEF w

LEMMA ReceivedIs ==
  ASSUME NEW f \in [MsgQs -> MSG_QUE], NEW q \in MsgQs,
         f[q].cur_num > 0, f[q].cur_num = Len(f[q].msg_list),
         rest(f[q].wait_send_list) \in Seq(Task),
         NEW g, g = [f EXCEPT ![q] = msg_received(@)]
  PROVE  /\ g \in [MsgQs -> MSG_QUE] /\ \A x \in MsgQs : x # q => g[x] = f[x]
         /\ g[q].wait_recv_list = f[q].wait_recv_list
         /\ g[q].wait_send_list = rest(f[q].wait_send_list)
         /\ g[q].cur_num = Len(g[q].msg_list)
<1> DEFINE l == f[q].msg_list
           w == rest(f[q].wait_send_list)
           r == msg_received(f[q])
<1>1. g = [f EXCEPT ![q] = r]
  OBVIOUS
<1>2. f[q] \in MSG_QUE /\ l \in Seq(Msg) /\ f[q].cur_num \in 0 .. MAX_NUM
  BY DEF MSG_QUE
<1>3. rest(l) \in Seq(Msg) /\ Len(rest(l)) = Len(l) - 1
  BY <1>2 DEF rest, dlist_rest, DL_EMPTY
<1>4. f[q].cur_num - 1 \in 0 .. MAX_NUM
  BY <1>2, MsgQAssumption
<1>5. /\ r \in MSG_QUE /\ r.wait_recv_list = f[q].wait_recv_list /\ r.wait_send_list = w
      /\ r.cur_num = f[q].cur_num - 1 /\ r.msg_list = rest(l)
  BY <1>2, <1>3, <1>4 DEF MSG_QUE, msg_received
<1>6. r.cur_num = Len(r.msg_list)
  BY <1>3, <1>5
<1> HIDE DEF r, w, l
<1>7. g \in [MsgQs -> MSG_QUE] /\ g[q] = r /\ \A x \in MsgQs : x # q => g[x] = f[x]
  BY <1>1, <1>5
<1> QED
  BY <1>5, <1>6, <1>7 DEF w

LEMMA MsgQSendAgain ==
  ASSUME Inv, current # IDLE, NEW q \in MsgQs, dlist_check(msgQ_list, q), NEW m \in Msg,
         NEW timeout \in Nat, msgQ_send_again(q, m, timeout),
         UNCHANGED <<semBVars, semCVars, semMVars>>
  PROVE  Inv'
<1>1. /\ KInv(k) /\ CurInv(k, current) /\ current \in Task
      /\ k.tcb[current].status = "READY" /\ ReadyInv(k, {}) /\ TicksLeft(k)
      /\ QInv(k, msgQ, msgQ_list) /\ msgQ \in [MsgQs -> MSG_QUE]
      /\ HoldsBut(k, msgQ[q].wait_send_list, "PEND_MSG_S", q, {})
      /\ HoldsBut(k, msgQ[q].wait_recv_list, "PEND_MSG_R", q, {})
      /\ msgQ[q].cur_num = Len(msgQ[q].msg_list)
      /\ CtxInv(ctx, semB_list, semC_list, msgQ_list) /\ ListInv(msgQ_list, MsgQs)
  BY DEF Inv, CurInv, KInv, QInv, ListsInv
<1>2. UNCHANGED <<delayQ, msgQ_list, semBVars, semCVars, semMVars>>
  BY DEF msgQ_send_again
<1>3. CASE /\ msgQ[q].cur_num < MAX_NUM
           /\ k' = wake_first(SetTicks(k, current, 0), msgQ[q].wait_recv_list)
           /\ msgQ' = [msgQ EXCEPT ![q] = msg_sent(@, m)]
           /\ ctx' = [ctx EXCEPT ![current] = Run]
           /\ UNCHANGED current
  <2>1. "PEND_MSG_R" \in MsgWait
    BY DEF MsgWait
  <2>2. /\ KInv(k') /\ CurInv(k', current) /\ MovesOn(k, k', "PEND_MSG_R", q)
        /\ HoldsBut(k', rest(msgQ[q].wait_recv_list), "PEND_MSG_R", q, {})
        /\ rest(msgQ[q].wait_recv_list) \in Seq(Task)
    BY <1>1, <1>3, <2>1, DoneAndWoken
  <2>3. /\ msgQ' \in [MsgQs -> MSG_QUE] /\ \A x \in MsgQs : x # q => msgQ'[x] = msgQ[x]
        /\ msgQ'[q].wait_send_list = msgQ[q].wait_send_list
        /\ msgQ'[q].wait_recv_list = rest(msgQ[q].wait_recv_list)
        /\ msgQ'[q].cur_num = Len(msgQ'[q].msg_list)
    BY <1>1, <1>3, <2>2, SentIs
  <2>4. HoldsBut(k', msgQ[q].wait_send_list, "PEND_MSG_S", q, {})
    BY <1>1, <2>2, MovesFrame
  <2>5. QInv(k', msgQ', msgQ_list)
    BY <1>1, <2>1, <2>2, <2>3, <2>4, QStep DEF MsgWait
  <2>6. CtxInv(ctx', semB_list, semC_list, msgQ_list)
    BY <1>1, <1>3, CtxRun
  <2> QED
    BY <1>1, <1>2, <1>3, <2>1, <2>2, <2>5, <2>6, QNext
<1>4. CASE ctx' = [ctx EXCEPT ![current] = Run] /\ UNCHANGED <<k, msgQ, current>>
  <2>1. CtxInv(ctx', semB_list, semC_list, msgQ_list)
    BY <1>1, <1>4, CtxRun
  <2> QED
    BY <1>1, <1>2, <1>4, <2>1 DEF Inv, ListsInv, semBVars, semCVars, semMVars
<1>5. CASE /\ timeout # 0
           /\ k' = pend(k, "PEND_MSG_S", q, timeout)
           /\ msgQ' = [msgQ EXCEPT ![q].wait_send_list = dlist_add(@, current)]
           /\ ctx' = [ctx EXCEPT ![current] =
                        [call |-> "msgQ_send", obj |-> q, msg |-> m]]
           /\ SwitchFrom(k')
  <2>1. /\ q \in Obj \cup {NULL} /\ timeout \in Nat \ {0}
        /\ "PEND_MSG_S" \in Waiting /\ "PEND_MSG_S" \in MsgWait
    BY <1>5, KernelAssumption DEF Waiting, Status, MsgWait
  <2>2. /\ KInv(k') /\ CurInv(k', k'.readyQ.highest_tcb)
        /\ MovesOn(k, k', "PEND_MSG_S", q) /\ OnlyTask(k, k', current)
        /\ k'.tcb[current].status = "PEND_MSG_S" /\ k'.tcb[current].pend_obj = q
    BY <1>5, <2>1, PendStep
  <2> DEFINE w == dlist_add(msgQ[q].wait_send_list, current)
  <2>3. HoldsBut(k', w, "PEND_MSG_S", q, {}) /\ w \in Seq(Task)
    BY <1>1, <2>2, PendInList
  <2>4. msgQ' = [msgQ EXCEPT ![q].wait_send_list = w]
    BY <1>5
  <2> HIDE DEF w
  <2>5. /\ msgQ' \in [MsgQs -> MSG_QUE] /\ msgQ'[q].wait_send_list = w
        /\ \A x \in MsgQs : x # q => msgQ'[x] = msgQ[x]
        /\ msgQ'[q].wait_recv_list = msgQ[q].wait_recv_list
        /\ msgQ'[q].cur_num = msgQ[q].cur_num /\ msgQ'[q].msg_list = msgQ[q].msg_list
    BY <1>1, <2>3, <2>4 DEF MSG_QUE
  <2>6. HoldsBut(k', msgQ[q].wait_recv_list, "PEND_MSG_R", q, {})
    BY <1>1, <2>2, MovesFrame
  <2>7. QInv(k', msgQ', msgQ_list)
    BY <1>1, <2>1, <2>2, <2>3, <2>5, <2>6, QStep DEF MsgWait
  <2> DEFINE d == [call |-> "msgQ_send", obj |-> q, msg |-> m]
  <2>8. CallOK(ctx, d, current, semB_list, semC_list, msgQ_list)
    BY <2>1 DEF CallOK, Contexts, Calls
  <2>9. CtxInv(ctx', semB_list, semC_list, msgQ_list)
    BY <1>1, <1>5, <2>8, CtxSet
  <2>10. CurInv(k', current')
    BY <1>5, <2>2 DEF SwitchFrom
  <2> QED
    BY <1>1, <1>2, <2>1, <2>2, <2>7, <2>9, <2>10, QNext
<1> QED
  BY <1>3, <1>4, <1>5 DEF msgQ_send_again

LEMMA MsgQReceiveAgain ==
  ASSUME Inv, current # IDLE, NEW q \in MsgQs, dlist_check(msgQ_list, q),
         NEW timeout \in Nat, msgQ_receive_again(q, timeout),
         UNCHANGED <<semBVars, semCVars, semMVars>>
  PROVE  Inv'
<1>1. /\ KInv(k) /\ CurInv(k, current) /\ current \in Task
      /\ k.tcb[current].status = "READY" /\ ReadyInv(k, {}) /\ TicksLeft(k)
      /\ QInv(k, msgQ, msgQ_list) /\ msgQ \in [MsgQs -> MSG_QUE]
      /\ HoldsBut(k, msgQ[q].wait_send_list, "PEND_MSG_S", q, {})
      /\ HoldsBut(k, msgQ[q].wait_recv_list, "PEND_MSG_R", q, {})
      /\ msgQ[q].cur_num = Len(msgQ[q].msg_list)
      /\ CtxInv(ctx, semB_list, semC_list, msgQ_list) /\ ListInv(msgQ_list, MsgQs)
  BY DEF Inv, CurInv, KInv, QInv, ListsInv
<1>2. UNCHANGED <<delayQ, msgQ_list, semBVars, semCVars, semMVars>>
  BY DEF msgQ_receive_again
<1>3. CASE /\ msgQ[q].cur_num > 0
           /\ k' = wake_first(SetTicks(k, current, 0), msgQ[q].wait_send_list)
           /\ msgQ' = [msgQ EXCEPT ![q] = msg_received(@)]
           /\ ctx' = [ctx EXCEPT ![current] = Run]
           /\ UNCHANGED current
  <2>1. "PEND_MSG_S" \in MsgWait
    BY DEF MsgWait
  <2>2. /\ KInv(k') /\ CurInv(k', current) /\ MovesOn(k, k', "PEND_MSG_S", q)
        /\ HoldsBut(k', rest(msgQ[q].wait_send_list), "PEND_MSG_S", q, {})
        /\ rest(msgQ[q].wait_send_list) \in Seq(Task)
    BY <1>1, <1>3, <2>1, DoneAndWoken
  <2>3. /\ msgQ' \in [MsgQs -> MSG_QUE] /\ \A x \in MsgQs : x # q => msgQ'[x] = msgQ[x]
        /\ msgQ'[q].wait_recv_list = msgQ[q].wait_recv_list
        /\ msgQ'[q].wait_send_list = rest(msgQ[q].wait_send_list)
        /\ msgQ'[q].cur_num = Len(msgQ'[q].msg_list)
    BY <1>1, <1>3, <2>2, ReceivedIs
  <2>4. HoldsBut(k', msgQ[q].wait_recv_list, "PEND_MSG_R", q, {})
    BY <1>1, <2>2, MovesFrame
  <2>5. QInv(k', msgQ', msgQ_list)
    BY <1>1, <2>1, <2>2, <2>3, <2>4, QStep DEF MsgWait
  <2>6. CtxInv(ctx', semB_list, semC_list, msgQ_list)
    BY <1>1, <1>3, CtxRun
  <2> QED
    BY <1>1, <1>2, <1>3, <2>1, <2>2, <2>5, <2>6, QNext
<1>4. CASE ctx' = [ctx EXCEPT ![current] = Run] /\ UNCHANGED <<k, msgQ, current>>
  <2>1. CtxInv(ctx', semB_list, semC_list, msgQ_list)
    BY <1>1, <1>4, CtxRun
  <2> QED
    BY <1>1, <1>2, <1>4, <2>1 DEF Inv, ListsInv, semBVars, semCVars, semMVars
<1>5. CASE /\ timeout # 0
           /\ k' = pend(k, "PEND_MSG_R", q, timeout)
           /\ msgQ' = [msgQ EXCEPT ![q].wait_recv_list = dlist_add(@, current)]
           /\ ctx' = [ctx EXCEPT ![current] =
                        [call |-> "msgQ_receive", obj |-> q, msg |-> NULL]]
           /\ SwitchFrom(k')
  <2>1. /\ q \in Obj \cup {NULL} /\ timeout \in Nat \ {0}
        /\ "PEND_MSG_R" \in Waiting /\ "PEND_MSG_R" \in MsgWait
    BY <1>5, KernelAssumption DEF Waiting, Status, MsgWait
  <2>2. /\ KInv(k') /\ CurInv(k', k'.readyQ.highest_tcb)
        /\ MovesOn(k, k', "PEND_MSG_R", q) /\ OnlyTask(k, k', current)
        /\ k'.tcb[current].status = "PEND_MSG_R" /\ k'.tcb[current].pend_obj = q
    BY <1>5, <2>1, PendStep
  <2> DEFINE w == dlist_add(msgQ[q].wait_recv_list, current)
  <2>3. HoldsBut(k', w, "PEND_MSG_R", q, {}) /\ w \in Seq(Task)
    BY <1>1, <2>2, PendInList
  <2>4. msgQ' = [msgQ EXCEPT ![q].wait_recv_list = w]
    BY <1>5
  <2> HIDE DEF w
  <2>5. /\ msgQ' \in [MsgQs -> MSG_QUE] /\ msgQ'[q].wait_recv_list = w
        /\ \A x \in MsgQs : x # q => msgQ'[x] = msgQ[x]
        /\ msgQ'[q].wait_send_list = msgQ[q].wait_send_list
        /\ msgQ'[q].cur_num = msgQ[q].cur_num /\ msgQ'[q].msg_list = msgQ[q].msg_list
    BY <1>1, <2>3, <2>4 DEF MSG_QUE
  <2>6. HoldsBut(k', msgQ[q].wait_send_list, "PEND_MSG_S", q, {})
    BY <1>1, <2>2, MovesFrame
  <2>7. QInv(k', msgQ', msgQ_list)
    BY <1>1, <2>1, <2>2, <2>3, <2>5, <2>6, QStep DEF MsgWait
  <2> DEFINE d == [call |-> "msgQ_receive", obj |-> q, msg |-> NULL]
  <2>8. CallOK(ctx, d, current, semB_list, semC_list, msgQ_list)
    BY <2>1 DEF CallOK, Contexts, Calls
  <2>9. CtxInv(ctx', semB_list, semC_list, msgQ_list)
    BY <1>1, <1>5, <2>8, CtxSet
  <2>10. CurInv(k', current')
    BY <1>5, <2>2 DEF SwitchFrom
  <2> QED
    BY <1>1, <1>2, <2>1, <2>2, <2>7, <2>9, <2>10, QNext
<1> QED
  BY <1>3, <1>4, <1>5 DEF msgQ_receive_again

LEMMA MsgQInit ==
  ASSUME Inv, NEW q \in MsgQs \cap Later, msgQ_init(q),
         UNCHANGED <<semBVars, semCVars, semMVars>>
  PROVE  Inv'
<1>1. /\ QInv(k, msgQ, msgQ_list) /\ msgQ \in [MsgQs -> MSG_QUE]
      /\ ListInv(msgQ_list, MsgQs)
      /\ CtxInv(ctx, semB_list, semC_list, msgQ_list)
  BY DEF Inv, QInv, ListsInv
<1>2. /\ ~ dlist_check(msgQ_list, q) /\ msgQ_list' = dlist_add(msgQ_list, q)
      /\ msgQ' = [msgQ EXCEPT ![q] = msgQ_new]
      /\ UNCHANGED <<k, delayQ, current, ctx>>
  BY DEF msgQ_init, schedVars
<1>3. /\ ListInv(msgQ_list', MsgQs)
      /\ \A x : dlist_check(msgQ_list', x) <=> (x = q \/ dlist_check(msgQ_list, x))
  BY <1>1, <1>2, Listed
<1>4. /\ msgQ_new \in MSG_QUE /\ msgQ_new.wait_send_list = << >>
      /\ msgQ_new.wait_recv_list = << >> /\ msgQ_new.cur_num = Len(msgQ_new.msg_list)
  BY MsgQAssumption DEF msgQ_new, MSG_QUE
<1>5. /\ msgQ' \in [MsgQs -> MSG_QUE] /\ msgQ'[q] = msgQ_new
      /\ \A x \in MsgQs : x # q => msgQ'[x] = msgQ[x]
  BY <1>1, <1>2, <1>4
<1>6. HoldsBut(k, << >>, "PEND_MSG_S", q, {}) /\ HoldsBut(k, << >>, "PEND_MSG_R", q, {})
  BY <1>1, <1>2 DEF QInv, HoldsBut, dlist_check, NoDuplicates
<1>7. /\ HoldsBut(k, msgQ'[q].wait_send_list, "PEND_MSG_S", q, {})
      /\ HoldsBut(k, msgQ'[q].wait_recv_list, "PEND_MSG_R", q, {})
      /\ msgQ'[q].cur_num = Len(msgQ'[q].msg_list)
  BY <1>4, <1>5, <1>6
<1>8. QInv(k, msgQ', msgQ_list')
  BY <1>1, <1>3, <1>5, <1>7 DEF QInv
<1>9. CtxInv(ctx, semB_list, semC_list, msgQ_list')
  BY <1>1, <1>3 DEF CtxInv, QCalls
<1> QED
  BY <1>2, <1>3, <1>8, <1>9 DEF Inv, ListsInv, semBVars, semCVars, semMVars

\* No message queue is deleted: msgQ_delete unlinks waiters without waking them.
LEMMA MsgQKeeps ==
  ASSUME Disposable \cap MsgQs = {}, Inv, MsgQStep
  PROVE  Inv'
<1> USE DEF MsgQStep
<1>1. /\ ListInv(msgQ_list, MsgQs) /\ CtxInv(ctx, semB_list, semC_list, msgQ_list)
      /\ UNCHANGED <<semBVars, semCVars, semMVars>>
  BY DEF Inv, ListsInv
<1>2. ASSUME NEW q \in ToSet(msgQ_list), NEW m \in Msg, NEW n \in Timeouts,
             msgQ_send(q, m, n)
      PROVE  Inv'
  <2>1. q \in MsgQs /\ dlist_check(msgQ_list, q)
    BY <1>1, Listed
  <2>2. current # IDLE /\ msgQ_send_again(q, m, n) /\ n \in Nat
    BY <1>2, KernelAssumption DEF msgQ_send, MayCall
  <2> QED
    BY <1>1, <2>1, <2>2, MsgQSendAgain
<1>3. ASSUME NEW q \in ToSet(msgQ_list), NEW n \in Timeouts, msgQ_receive(q, n)
      PROVE  Inv'
  <2>1. q \in MsgQs /\ dlist_check(msgQ_list, q)
    BY <1>1, Listed
  <2>2. current # IDLE /\ msgQ_receive_again(q, n) /\ n \in Nat
    BY <1>3, KernelAssumption DEF msgQ_receive, MayCall
  <2> QED
    BY <1>1, <2>1, <2>2, MsgQReceiveAgain
<1>4. ASSUME current \in Task, current # IDLE, ctx' = [ctx EXCEPT ![current] = Run],
             UNCHANGED <<k, delayQ, current, msgQ, msgQ_list>>
      PROVE  Inv'
  <2>1. CtxInv(ctx', semB_list, semC_list, msgQ_list)
    BY <1>1, <1>4, CtxRun
  <2> QED
    BY <1>1, <1>4, <2>1 DEF Inv, ListsInv, semBVars, semCVars, semMVars
<1>5. ASSUME msgQ_send_wakeup PROVE Inv'
  <2>1. ctx[current].call = "msgQ_send" /\ current \in Task /\ current # IDLE
    BY <1>5, CallerIs DEF msgQ_send_wakeup
  <2>2. CASE k.tcb[current].delay_ticks # 0
    <3>1. msgQ_send_again(ctx[current].obj, ctx[current].msg, k.tcb[current].delay_ticks)
      BY <1>5, <2>2 DEF msgQ_send_wakeup
    <3>2. k.tcb[current].delay_ticks \in Nat
      BY <2>1 DEF Inv, KInv, ReadyInv, KernelState, OS_TCB
    <3>3. ctx[current].obj \in MsgQs /\ ctx[current].msg \in Msg
          /\ dlist_check(msgQ_list, ctx[current].obj)
      BY <1>1, <2>1 DEF CtxInv, QCalls
    <3> QED
      BY <1>1, <2>1, <3>1, <3>2, <3>3, MsgQSendAgain
  <2>3. CASE k.tcb[current].delay_ticks = 0
    BY <1>4, <1>5, <2>1, <2>3 DEF msgQ_send_wakeup
  <2> QED
    BY <2>2, <2>3
<1>6. ASSUME msgQ_receive_wakeup PROVE Inv'
  <2>1. ctx[current].call = "msgQ_receive" /\ current \in Task /\ current # IDLE
    BY <1>6, CallerIs DEF msgQ_receive_wakeup
  <2>2. CASE k.tcb[current].delay_ticks # 0
    <3>1. msgQ_receive_again(ctx[current].obj, k.tcb[current].delay_ticks)
      BY <1>6, <2>2 DEF msgQ_receive_wakeup
    <3>2. k.tcb[current].delay_ticks \in Nat
      BY <2>1 DEF Inv, KInv, ReadyInv, KernelState, OS_TCB
    <3>3. ctx[current].obj \in MsgQs /\ dlist_check(msgQ_list, ctx[current].obj)
      BY <1>1, <2>1 DEF CtxInv, QCalls
    <3> QED
      BY <1>1, <2>1, <3>1, <3>2, <3>3, MsgQReceiveAgain
  <2>3. CASE k.tcb[current].delay_ticks = 0
    BY <1>4, <1>6, <2>1, <2>3 DEF msgQ_receive_wakeup
  <2> QED
    BY <2>2, <2>3
<1>7. ASSUME NEW q \in MsgQs \cap Later, msgQ_init(q) PROVE Inv'
  BY <1>1, <1>7, MsgQInit
<1> QED
  BY <1>2, <1>3, <1>5, <1>6, <1>7

-----------------------------------------------------------------------------
(* Delays and the tick.                                                    *)

LEMMA DelayKeeps ==
  ASSUME Inv, DelayStep
  PROVE  Inv'
<1>1. PICK n \in Delays : delayQ_delay(n)
  BY DEF DelayStep
<1>2. /\ KInv(k) /\ DInv(k, delayQ) /\ ReadyInv(k, {}) /\ TicksLeft(k)
      /\ BInv(k, semB, semB_list) /\ CInv(k, semC, semC_list)
      /\ MInv(k, semM, semM_list, {}) /\ QInv(k, msgQ, msgQ_list)
  BY DEF Inv, KInv
<1>3. /\ UNCHANGED <<ctx, semBVars, semCVars, semMVars, msgQVars>>
      /\ current' = k'.readyQ.highest_tcb
      /\ current \in Task /\ current # IDLE /\ k.tcb[current].status = "READY"
  BY <1>1, CallerIs DEF DelayStep, delayQ_delay, SwitchFrom
<1>4. CASE n = 0
  <2>1. k' = readyQ_put(readyQ_remove(k, current), current) /\ UNCHANGED delayQ
    BY <1>1, <1>4 DEF delayQ_delay
  <2>2. /\ ReadyInv(k', {}) /\ TicksLeft(k') /\ OnlyTask(k, k', current)
        /\ \A st, o : MovesOn(k, k', st, o)
    BY <1>2, <1>3, <2>1, RotateKeeps
  <2>3. KInv(k') /\ CurInv(k', current')
    BY <1>2, <1>3, <2>2, Switched, SchedAssumption DEF KInv, OnlyTask
  <2>4. MovesOn(k, k', "FREE", NULL)
    BY <2>2
  <2>5. /\ DInv(k', delayQ) /\ BInv(k', semB, semB_list) /\ CInv(k', semC, semC_list)
        /\ MInv(k', semM, semM_list, {}) /\ QInv(k', msgQ, msgQ_list)
    BY <2>4, OthersFrame
  <2> QED
    BY <1>3, <2>1, <2>3, <2>5 DEF Inv, ListsInv, semBVars, semCVars, semMVars, msgQVars
<1>5. CASE n # 0
  <2>1. k' = pend(k, "DELAY", NULL, n) /\ delayQ' = dlist_add(delayQ, current)
    BY <1>1, <1>5 DEF delayQ_delay
  <2>2. "DELAY" \in Waiting /\ n \in Nat \ {0}
    BY <1>5, KernelAssumption DEF Waiting, Status
  <2>3. /\ KInv(k') /\ CurInv(k', k'.readyQ.highest_tcb)
        /\ MovesOn(k, k', "DELAY", NULL) /\ OnlyTask(k, k', current)
        /\ k'.tcb[current].status = "DELAY" /\ k'.tcb[current].pend_obj = NULL
    BY <1>3, <2>1, <2>2, PendStep
  <2>4. DInv(k', delayQ')
    <3>1. HoldsBut(k', delayQ', "DELAY", NULL, {})
      BY <1>2, <1>3, <2>1, <2>3, PendInList DEF DInv
    <3> QED
      BY <1>2, <1>3, <2>3, <3>1 DEF DInv, OnlyTask
  <2>5. /\ BInv(k', semB, semB_list) /\ CInv(k', semC, semC_list)
        /\ MInv(k', semM, semM_list, {}) /\ QInv(k', msgQ, msgQ_list)
    BY <2>3, OthersFrame
  <2> QED
    BY <1>3, <2>3, <2>4, <2>5 DEF Inv, ListsInv, semBVars, semCVars, semMVars, msgQVars
<1> QED
  BY <1>4, <1>5

LEMMA TickAnnounceKeeps ==
  ASSUME Inv, tick_announce
  PROVE  Inv'
<1> DEFINE r == ticked
<1>1. /\ KInv(r.k) /\ CurInv(r.k, r.k.readyQ.highest_tcb) /\ DInv(r.k, r.delayQ)
      /\ BInv(r.k, r.semB, semB_list) /\ CInv(r.k, r.semC, semC_list)
      /\ MInv(r.k, r.semM, semM_list, {}) /\ QInv(r.k, r.msgQ, msgQ_list)
  BY TickKeeps
<1>2. /\ k' = r.k /\ semB' = r.semB /\ semC' = r.semC /\ semM' = r.semM
      /\ msgQ' = r.msgQ /\ delayQ' = r.delayQ /\ current' = k'.readyQ.highest_tcb
      /\ UNCHANGED <<ctx, semB_list, semC_list, semM_list, msgQ_list>>
  BY DEF tick_announce, SwitchFrom
<1> HIDE DEF r
<1> QED
  BY <1>1, <1>2 DEF Inv, ListsInv

-----------------------------------------------------------------------------
(* Mutexes.                                                                *)

LEMMA MNext ==
  ASSUME Inv, NEW s, MovesOn(k, k', "PEND_SEM_M", s), KInv(k'), CurInv(k', current'),
         MInv(k', semM', semM_list', {}), ListInv(semM_list', SemMs),
         CtxInv(ctx', semB_list, semC_list, msgQ_list),
         UNCHANGED <<delayQ, semBVars, semCVars, msgQVars>>
  PROVE  Inv'
<1>1. /\ DInv(k', delayQ) /\ BInv(k', semB, semB_list)
      /\ CInv(k', semC, semC_list) /\ QInv(k', msgQ, msgQ_list)
  BY OthersFrame
<1> QED
  BY <1>1 DEF Inv, ListsInv, semBVars, semCVars, msgQVars

LEMMA MovesTrans ==
  ASSUME NEW a, NEW b, NEW c, NEW st, NEW o, MovesOn(a, b, st, o), MovesOn(b, c, st, o)
  PROVE  MovesOn(a, c, st, o)
  BY DEF MovesOn, ReadyOrAt

\* The take_count stays within its word.
LEMMA CountInWord ==
  ASSUME NEW x \in Int
  PROVE  x % UINT \in 0 .. UINT - 1 /\ 0 \in 0 .. UINT - 1 /\ 1 \in 0 .. UINT - 1
  BY SemMAssumption

\* The mutex keeps its waiters and has an owner.
LEMMA SemMOwned ==
  ASSUME Inv, NEW s \in SemMs, NEW r \in SEM_MUX, r.owner_tcb # NULL,
         r.wait_list = semM[s].wait_list, semM' = [semM EXCEPT ![s] = r],
         UNCHANGED <<schedVars, semM_list, semBVars, semCVars, msgQVars>>
  PROVE  Inv'
<1>1. MInv(k, semM, semM_list, {}) /\ semM \in [SemMs -> SEM_MUX]
  BY DEF Inv, MInv
<1>2. /\ semM' \in [SemMs -> SEM_MUX] /\ semM'[s] = r
      /\ \A x \in SemMs : x # s => semM'[x] = semM[x]
  BY <1>1
<1>3. MInv(k, semM', semM_list, {})
  BY <1>1, <1>2 DEF MInv
<1> QED
  BY <1>3 DEF Inv, ListsInv, schedVars, semBVars, semCVars, msgQVars

\* The task that pends joins a wait list in its place.
LEMMA PendSorted ==
  ASSUME NEW ks, NEW n \in KernelState, NEW t \in Task, NEW l, NEW st, NEW o,
         HoldsBut(ks, l, st, o, {}), ks.tcb[t].status # st, OnlyTask(ks, n, t),
         n.tcb[t].status = st, n.tcb[t].pend_obj = o
  PROVE  HoldsBut(n, sort_pri_put(n, l, t), st, o, {}) /\ sort_pri_put(n, l, t) \in Seq(Task)
<1>1. l \in Seq(Task) /\ NoDuplicates(l) /\ ~ dlist_check(l, t)
  BY DEF HoldsBut
<1> DEFINE m == sort_pri_put(n, l, t)
<1>2. m \in Seq(Task) /\ NoDuplicates(m)
      /\ \A x : dlist_check(m, x) <=> (x = t \/ dlist_check(l, x))
  BY <1>1, SortPutMembers
<1> HIDE DEF m
<1> QED
  BY <1>2, HoldsMore DEF m

\* The running task, which has raised the owners, joins the wait list of s.
LEMMA SemMBlock ==
  ASSUME Inv, current # IDLE, NEW s \in SemMs, dlist_check(semM_list, s),
         semM[s].owner_tcb # NULL, NEW timeout \in Nat \ {0}, NEW a, NEW f,
         ReadyInv(a, {}), TicksLeft(a), MInv(a, f, semM_list, {}),
         Boosted(k, a), SameButPri(semM, f),
         NEW n, n = pend(a, "PEND_SEM_M", s, timeout),
         NEW g, g = WithList(f, s, sort_pri_put(n, f[s].wait_list, current))
  PROVE  KInv(n) /\ MovesOn(k, n, "PEND_SEM_M", s) /\ MInv(n, g, semM_list, {})
<1>1. /\ KInv(k) /\ current \in Task /\ k.tcb[current].status = "READY"
  BY DEF Inv, CurInv, KInv
<1>2. /\ a.tcb[current].status = "READY" /\ a.tcb[IDLE].status = "READY"
      /\ f \in [SemMs -> SEM_MUX] /\ f[s].owner_tcb # NULL
      /\ HoldsBut(a, f[s].wait_list, "PEND_SEM_M", s, {})
  BY <1>1, SchedAssumption DEF KInv, Boosted, SameButPri, MInv
<1>3. s \in Obj \cup {NULL} /\ "PEND_SEM_M" \in Waiting
  BY KernelAssumption DEF Waiting, Status
<1>4. /\ ReadyInv(n, {}) /\ TicksLeft(n) /\ OnlyTask(a, n, current)
      /\ n.tcb[current].status = "PEND_SEM_M" /\ n.tcb[current].pend_obj = s
  BY <1>1, <1>2, <1>3, PendKeeps
<1>5. KInv(n)
  BY <1>2, <1>4, SchedAssumption DEF KInv, OnlyTask
<1>6. MovesOn(k, a, "PEND_SEM_M", s)
  BY BoostedMoves
<1>7. MovesOn(a, n, "PEND_SEM_M", s)
  BY <1>1, <1>2, <1>4, OneMoves DEF ReadyOrAt
<1>8. MovesOn(k, n, "PEND_SEM_M", s)
  BY <1>6, <1>7, MovesTrans
<1> DEFINE w == f[s].wait_list
           m == sort_pri_put(n, w, current)
<1>9. g = WithList(f, s, m)
  OBVIOUS
<1>10. HoldsBut(a, w, "PEND_SEM_M", s, {}) /\ n \in KernelState
  BY <1>2, <1>4 DEF ReadyInv
<1> HIDE DEF w
<1>11. HoldsBut(n, m, "PEND_SEM_M", s, {}) /\ m \in Seq(Task)
  BY <1>1, <1>2, <1>4, <1>10, PendSorted
<1> HIDE DEF m
<1>12. SemKind("PEND_SEM_M", SemMs, SEM_MUX)
  BY DEF SemKind
<1>13. /\ g \in [SemMs -> SEM_MUX] /\ g[s].wait_list = m
       /\ \A x \in SemMs : x # s => g[x] = f[x]
       /\ SameOwners(f, g)
  BY <1>2, <1>9, <1>11, <1>12, WithListIs DEF SameValues
<1>14. g[s].owner_tcb # NULL
  BY <1>2, <1>13 DEF SameOwners
<1>15. HoldsBut(n, g[s].wait_list, "PEND_SEM_M", s, {})
  BY <1>11, <1>13
<1>16. MInv(n, g, semM_list, {})
  BY <1>7, <1>13, <1>14, <1>15, MStep
<1> QED
  BY <1>5, <1>8, <1>16

\* The running task is to wait for a mutex, and _up_owner_pri meets a dead owner.
GoesAstray ==
  /\ Astray'
  /\ \E s \in SemMs : /\ semM[s].owner_tcb # NULL
                      /\ ~ raised(k, s, k.tcb[current].task_priority).ok

LEMMA SemMTake ==
  ASSUME Inv, NEW s \in SemMs, dlist_check(semM_list, s), NEW timeout \in Nat,
         semM_take(s, timeout), UNCHANGED <<semBVars, semCVars, msgQVars>>
  PROVE  Inv' \/ GoesAstray
<1>1. /\ current \in Task /\ current # IDLE /\ current # NULL
      /\ semM[s] \in SEM_MUX
  BY CallerIs, ReadyQAssumption DEF semM_take, Inv, MInv
<1>2. UNCHANGED <<delayQ, semM_list>>
  BY DEF semM_take
<1>3. CASE /\ semM' = [semM EXCEPT ![s].owner_tcb = current, ![s].take_count = 1]
           /\ UNCHANGED <<k, current, ctx>>
  <2> DEFINE r == [semM[s] EXCEPT !.owner_tcb = current, !.take_count = 1]
  <2>1. semM' = [semM EXCEPT ![s] = r]
    BY <1>3 DEF Inv, MInv
  <2>2. r \in SEM_MUX /\ r.owner_tcb # NULL /\ r.wait_list = semM[s].wait_list
    <3>1. 1 \in 0 .. UINT - 1
      BY CountInWord
    <3> QED
      BY <1>1, <3>1 DEF SEM_MUX
  <2> HIDE DEF r
  <2> QED
    BY <1>2, <1>3, <2>1, <2>2, SemMOwned DEF schedVars
<1>4. CASE /\ semM[s].owner_tcb = current
           /\ semM' = [semM EXCEPT ![s].take_count = (@ + 1) % UINT]
           /\ UNCHANGED <<k, current, ctx>>
  <2> DEFINE c == (semM[s].take_count + 1) % UINT
             r == [semM[s] EXCEPT !.take_count = c]
  <2>1. semM' = [semM EXCEPT ![s] = r]
    BY <1>4 DEF Inv, MInv
  <2>2. c \in 0 .. UINT - 1
    <3>1. semM[s].take_count + 1 \in Int
      BY <1>1 DEF SEM_MUX
    <3> QED
      BY <3>1, CountInWord
  <2> HIDE DEF c
  <2>3. r \in SEM_MUX /\ r.owner_tcb # NULL /\ r.wait_list = semM[s].wait_list
    BY <1>1, <1>4, <2>2 DEF SEM_MUX
  <2> HIDE DEF r
  <2> QED
    BY <1>2, <1>4, <2>1, <2>3, SemMOwned DEF schedVars
<1>5. CASE UNCHANGED <<k, semM, current, ctx>>
  BY <1>2, <1>5 DEF Inv, ListsInv, semBVars, semCVars, msgQVars
<1>6. CASE /\ semM[s].owner_tcb \notin {NULL, current} /\ timeout # 0
           /\ LET r  == raised(k, s, k.tcb[current].task_priority)
                  k1 == pend(r.k, "PEND_SEM_M", s, timeout)
              IN  /\ r.ok
                  /\ k' = k1
                  /\ semM' = [r.objs EXCEPT ![s].wait_list = sort_pri_put(k1, @, current)]
           /\ ctx' = [ctx EXCEPT ![current] =
                        [call |-> "semM_take", obj |-> s, msg |-> NULL]]
           /\ SwitchFrom(k')
  <2>1. semM[s].owner_tcb # NULL /\ timeout \in Nat \ {0}
    BY <1>6
  <2> DEFINE r == raised(k, s, k.tcb[current].task_priority)
  <2>2. /\ k' = pend(r.k, "PEND_SEM_M", s, timeout) /\ r.ok
        /\ semM' = WithList(r.objs, s, sort_pri_put(k', r.objs[s].wait_list, current))
    BY <1>6 DEF WithList
  <2> HIDE DEF r
  <2>3. KInv(k') /\ MovesOn(k, k', "PEND_SEM_M", s) /\ MInv(k', semM', semM_list, {})
    <3>1. /\ ReadyInv(k, {}) /\ TicksLeft(k) /\ MInv(k, semM, semM_list, {})
          /\ k \in KernelState
      BY DEF Inv, KInv, ReadyInv
    <3>2. k.tcb[current].task_priority \in Priority
      BY <1>1, <3>1, PrioritiesAreInt
    <3>3. /\ ReadyInv(r.k, {}) /\ TicksLeft(r.k) /\ MInv(r.k, r.objs, semM_list, {})
          /\ Boosted(k, r.k) /\ SameButPri(semM, r.objs)
      BY <2>2, <3>1, <3>2, RaisedKeeps DEF r
    <3> QED
      BY <1>1, <2>1, <2>2, <3>3, SemMBlock
  <2>4. CurInv(k', current')
    BY <1>6, <2>3, Switched DEF SwitchFrom
  <2> DEFINE d == [call |-> "semM_take", obj |-> s, msg |-> NULL]
  <2>5. CallOK(ctx, d, current, semB_list, semC_list, msgQ_list)
    BY KernelAssumption DEF CallOK, Contexts, Calls
  <2>6. CtxInv(ctx, semB_list, semC_list, msgQ_list) /\ ListInv(semM_list, SemMs)
    BY DEF Inv, ListsInv
  <2>7. CtxInv(ctx', semB_list, semC_list, msgQ_list)
    BY <1>1, <1>6, <2>5, <2>6, CtxSet
  <2> QED
    BY <1>2, <2>3, <2>4, <2>6, <2>7, MNext
<1>7. CASE /\ semM[s].owner_tcb # NULL
           /\ ~ raised(k, s, k.tcb[current].task_priority).ok
           /\ ctx' = [ctx EXCEPT ![current] =
                       [call |-> "up_owner_pri", obj |-> s, msg |-> NULL]]
           /\ UNCHANGED current
  <2>1. Astray'
    BY <1>1, <1>7 DEF Inv, CtxInv, Astray
  <2> QED
    BY <1>7, <2>1 DEF GoesAstray
<1> QED
  BY <1>3, <1>4, <1>5, <1>6, <1>7 DEF semM_take

LEMMA HighestWaitIs ==
  ASSUME ListInv(semM_list, SemMs), NEW f \in [SemMs -> SEM_MUX]
  PROVE  /\ get_highest_wait_pri(f) \in Priority
         /\ \/ get_highest_wait_pri(f) = LOWEST
            \/ \E x \in SemMs : f[x].owner_tcb = current
         /\ \A x \in SemMs : (dlist_check(semM_list, x) /\ f[x].owner_tcb = current)
                               => get_highest_wait_pri(f) <= f[x].wait_pri
<1> DEFINE S == {LOWEST} \cup {f[m].wait_pri : m \in {m \in ToSet(semM_list) :
                                                          f[m].owner_tcb = current}}
<1>1. \A m \in ToSet(semM_list) : f[m].wait_pri \in Priority
  BY Listed DEF SEM_MUX
<1>2. LOWEST \in Priority /\ Priority \subseteq Nat
  BY ReadyQAssumption DEF LOWEST, Priority
<1>3. S \subseteq Priority /\ S # {}
  BY <1>1, <1>2
<1>4. get_highest_wait_pri(f) = Min(S)
  BY DEF get_highest_wait_pri
<1>5. \A p \in S : p = LOWEST \/ \E x \in SemMs : f[x].owner_tcb = current
  BY Listed
<1>6. \A x \in SemMs : (dlist_check(semM_list, x) /\ f[x].owner_tcb = current)
                         => f[x].wait_pri \in S
  <2>1. \A x : dlist_check(semM_list, x) => x \in ToSet(semM_list)
    BY DEF dlist_check, ToSet
  <2> QED
    BY <2>1
<1> HIDE DEF S
<1>7. get_highest_wait_pri(f) \in S /\ \A p \in S : get_highest_wait_pri(f) <= p
  BY <1>2, <1>3, <1>4, MinIsLeast
<1> QED
  BY <1>3, <1>5, <1>6, <1>7

\* The mutex is free or has been handed to its first waiter.
FreeOrHanded(n, m) ==
  IF DL_EMPTY(m.wait_list) THEN [m EXCEPT !.owner_tcb = NULL]
  ELSE handed(n, m, DL_FIRST(m.wait_list))

WithMutex(f, s, h) == [f EXCEPT ![s] = h]

\* Mutex m has the priority of its first waiter.
HeardOfFirst(ks, m) ==
  \/ DL_EMPTY(m.wait_list)
  \/ m.wait_pri = ks.tcb[DL_FIRST(m.wait_list)].task_priority

LEMMA SemMRelease ==
  ASSUME Inv, current # IDLE, NEW s \in SemMs, dlist_check(semM_list, s),
         NEW m \in SEM_MUX, m.wait_list = semM[s].wait_list,
         NEW n, n = wake_first(k, m.wait_list),
         NEW h, h = FreeOrHanded(n, m), NEW g, g = WithMutex(semM, s, h)
  PROVE  /\ KInv(n) /\ CurInv(n, current) /\ MovesOn(k, n, "PEND_SEM_M", s)
         /\ g \in [SemMs -> SEM_MUX] /\ MInv(n, g, semM_list, {})
         /\ Woke(k, n, {"PEND_SEM_M"}) /\ TicksKept(k, n, {})
         /\ g[s].wait_list = rest(m.wait_list)
         /\ g[s].owner_tcb = IF DL_EMPTY(m.wait_list) THEN NULL ELSE DL_FIRST(m.wait_list)
         /\ HeardOfFirst(k, g[s])
         /\ \A x \in SemMs : x # s => g[x] = semM[x]
<1> DEFINE l == m.wait_list
<1>1. /\ KInv(k) /\ ReadyInv(k, {}) /\ TicksLeft(k) /\ CurInv(k, current)
      /\ MInv(k, semM, semM_list, {}) /\ semM \in [SemMs -> SEM_MUX]
      /\ HoldsBut(k, l, "PEND_SEM_M", s, {}) /\ l \in Seq(Task) /\ NoDuplicates(l)
  BY DEF Inv, KInv, MInv, HoldsBut
<1>2. "PEND_SEM_M" \in Waiting
  BY DEF Waiting, Status
<1>3. /\ ReadyInv(n, {}) /\ TicksLeft(n) /\ Woke(k, n, {"PEND_SEM_M"})
      /\ HoldsBut(n, rest(l), "PEND_SEM_M", s, {}) /\ MovesOn(k, n, "PEND_SEM_M", s)
      /\ TicksKept(k, n, {})
  BY <1>1, <1>2, WakeFirstKeeps
<1>4. KInv(n) /\ CurInv(n, current)
  BY <1>1, <1>3, SchedAssumption DEF KInv, CurInv, TicksKept
<1>5. /\ h \in SEM_MUX /\ h.wait_list = rest(l)
      /\ h.owner_tcb # NULL \/ Len(h.wait_list) = 0
      /\ h.owner_tcb = IF DL_EMPTY(l) THEN NULL ELSE DL_FIRST(l)
      /\ HeardOfFirst(n, h)
  <2>1. CASE DL_EMPTY(l)
    <3>1. h = [m EXCEPT !.owner_tcb = NULL]
      BY <2>1 DEF FreeOrHanded
    <3>2. h \in SEM_MUX /\ h.wait_list = l /\ h.owner_tcb = NULL
      BY <3>1 DEF SEM_MUX
    <3> QED
      BY <2>1, <3>2 DEF rest, DL_EMPTY, HeardOfFirst
  <2>2. CASE ~ DL_EMPTY(l)
    <3>1. h = handed(n, m, DL_FIRST(l)) /\ n \in KernelState
      BY <1>3, <2>2 DEF ReadyInv, FreeOrHanded
    <3>2. DL_FIRST(l) \in Task /\ DL_FIRST(l) # NULL
      BY <1>1, <2>2, RestMembers, ReadyQAssumption
    <3>3. /\ h \in SEM_MUX /\ h.owner_tcb = DL_FIRST(l) /\ h.wait_list = dlist_rest(l)
          /\ h.wait_pri = IF DL_EMPTY(h.wait_list) THEN LOWEST
                          ELSE n.tcb[DL_FIRST(h.wait_list)].task_priority
      BY <2>2, <3>1, <3>2, HandedIs
    <3> QED
      BY <2>2, <3>2, <3>3 DEF rest, HeardOfFirst
  <2> QED
    BY <2>1, <2>2
<1> HIDE DEF l
<1>6. /\ g \in [SemMs -> SEM_MUX] /\ g[s] = h
      /\ \A x \in SemMs : x # s => g[x] = semM[x]
  BY <1>1, <1>5 DEF WithMutex
<1>7. HoldsBut(n, g[s].wait_list, "PEND_SEM_M", s, {})
  BY <1>3, <1>5, <1>6
<1>8. MInv(n, g, semM_list, {})
  BY <1>1, <1>3, <1>5, <1>6, <1>7, MStep
<1>9. HeardOfFirst(k, g[s])
  <2>1. CASE DL_EMPTY(h.wait_list)
    BY <1>6, <2>1 DEF HeardOfFirst
  <2>2. CASE ~ DL_EMPTY(h.wait_list)
    <3>1. DL_FIRST(h.wait_list) \in Task
      <4>1. h.wait_list \in Seq(Task) /\ Len(h.wait_list) # 0
        BY <1>5, <2>2 DEF SEM_MUX, DL_EMPTY
      <4> QED
        BY <4>1 DEF DL_FIRST
    <3> QED
      BY <1>3, <1>5, <1>6, <2>2, <3>1 DEF HeardOfFirst, Woke, SamePriority
  <2> QED
    BY <2>1, <2>2
<1> QED
  BY <1>3, <1>4, <1>5, <1>6, <1>8, <1>9 DEF l

\* From ks to n task t gave a mutex: a task that waited for one became ready,
\* with its ticks, and t has no better priority than p.
GivenBy(ks, n, t, p) ==
  /\ \A u \in Task \ {t} :
       /\ SamePriority(ks, n, u) /\ n.tcb[u].delay_ticks = ks.tcb[u].delay_ticks
       /\ \/ /\ n.tcb[u].status = ks.tcb[u].status
             /\ n.tcb[u].pend_obj = ks.tcb[u].pend_obj
          \/ ks.tcb[u].status = "PEND_SEM_M" /\ n.tcb[u].status = "READY"
  /\ n.tcb[t].status = "READY" /\ n.tcb[t].delay_ticks = ks.tcb[t].delay_ticks
  /\ n.tcb[t].origin_pri = ks.tcb[t].origin_pri
  /\ n.tcb[t].task_priority = IF p > ks.tcb[t].task_priority THEN p
                              ELSE ks.tcb[t].task_priority

\* Mutex s is free, or its first waiter's.
Released(s, g) ==
  /\ g[s].wait_list = rest(semM[s].wait_list)
  /\ g[s].owner_tcb = IF DL_EMPTY(semM[s].wait_list) THEN NULL
                      ELSE DL_FIRST(semM[s].wait_list)
  /\ HeardOfFirst(k, g[s])
  /\ \A x \in SemMs : x # s => g[x] = semM[x]

\* Mutexes f and g differ in their counts only.
SameButCount(f, g) ==
  \A x \in SemMs : /\ g[x].owner_tcb = f[x].owner_tcb
                   /\ g[x].wait_pri = f[x].wait_pri
                   /\ g[x].wait_list = f[x].wait_list

LEMMA SemMGive ==
  ASSUME Inv, NEW s \in SemMs, dlist_check(semM_list, s), semM_give(s),
         UNCHANGED <<semBVars, semCVars, msgQVars>>
  PROVE  /\ Inv'
         /\ \/ UNCHANGED k /\ SameButCount(semM, semM')
            \/ /\ Released(s, semM') /\ semM' \in [SemMs -> SEM_MUX]
               /\ GivenBy(k, k', current, Min({get_highest_wait_pri(semM'),
                                                k.tcb[current].origin_pri}))
<1> DEFINE c == (semM[s].take_count - 1) % UINT
           m == [semM[s] EXCEPT !.take_count = c]
           n == wake_first(k, m.wait_list)
           h == FreeOrHanded(n, m)
           g == WithMutex(semM, s, h)
           pri == Min({get_highest_wait_pri(g), k.tcb[current].origin_pri})
<1>1. /\ current \in Task /\ current # IDLE /\ current # NULL
      /\ k \in KernelState /\ semM[s] \in SEM_MUX
      /\ ListInv(semM_list, SemMs) /\ CtxInv(ctx, semB_list, semC_list, msgQ_list)
  BY CallerIs, ReadyQAssumption DEF semM_give, Inv, MInv, KInv, ReadyInv, ListsInv
<1>2. /\ UNCHANGED <<delayQ, ctx, semM_list>> /\ semM[s].owner_tcb = current
      /\ IF m.take_count # 0
         THEN semM' = [semM EXCEPT ![s] = m] /\ UNCHANGED <<k, current>>
         ELSE /\ semM' = g
              /\ IF pri > k.tcb[current].task_priority
                 THEN /\ k' = readyQ_put([readyQ_remove(n, current) EXCEPT
                                            !.tcb[current].task_priority = pri], current)
                      /\ SwitchFrom(k')
                 ELSE k' = n /\ UNCHANGED current
  BY DEF semM_give, FreeOrHanded, WithMutex
<1>3. c \in 0 .. UINT - 1
  <2>1. semM[s].take_count - 1 \in Int
    BY <1>1 DEF SEM_MUX
  <2> QED
    BY <2>1, CountInWord
<1> HIDE DEF c
<1>4. /\ m \in SEM_MUX /\ m.wait_list = semM[s].wait_list
      /\ m.owner_tcb = semM[s].owner_tcb /\ m.wait_pri = semM[s].wait_pri
  BY <1>1, <1>3 DEF SEM_MUX
<1> HIDE DEF m
<1>5. CASE m.take_count # 0
  <2>1. semM' = [semM EXCEPT ![s] = m] /\ UNCHANGED <<k, current>>
    BY <1>2, <1>5
  <2>2. SameButCount(semM, semM')
    BY <1>4, <2>1 DEF SameButCount, Inv, MInv
  <2>3. Inv'
    BY <1>1, <1>2, <1>4, <2>1, SemMOwned DEF schedVars
  <2> QED
    BY <2>1, <2>2, <2>3
<1>6. CASE ~ (m.take_count # 0)
  <2>0. /\ n = wake_first(k, m.wait_list)
        /\ h = FreeOrHanded(n, m) /\ g = WithMutex(semM, s, h)
    OBVIOUS
  <2> HIDE DEF g, h, n
  <2>1. /\ KInv(n) /\ CurInv(n, current) /\ MovesOn(k, n, "PEND_SEM_M", s)
        /\ g \in [SemMs -> SEM_MUX] /\ MInv(n, g, semM_list, {})
        /\ Woke(k, n, {"PEND_SEM_M"}) /\ TicksKept(k, n, {})
        /\ g[s].wait_list = rest(m.wait_list)
        /\ g[s].owner_tcb = IF DL_EMPTY(m.wait_list) THEN NULL ELSE DL_FIRST(m.wait_list)
        /\ HeardOfFirst(k, g[s])
        /\ \A x \in SemMs : x # s => g[x] = semM[x]
    BY <1>1, <1>4, <2>0, SemMRelease
  <2>6. Released(s, g)
    BY <1>4, <2>1 DEF Released
  <2>7. n.tcb[current] = k.tcb[current]
    BY <1>1, CallerIs, <2>1 DEF TicksKept, semM_give
  <2>2. /\ semM' = g
        /\ IF pri > k.tcb[current].task_priority
           THEN /\ k' = readyQ_put([readyQ_remove(n, current) EXCEPT
                                      !.tcb[current].task_priority = pri], current)
                /\ SwitchFrom(k')
           ELSE k' = n /\ UNCHANGED current
    BY <1>2, <1>6
  <2>3. pri \in Priority
    <3>1. get_highest_wait_pri(g) \in Priority
      BY <1>1, <2>1, HighestWaitIs
    <3>2. k.tcb[current].origin_pri \in Priority
      BY <1>1 DEF KernelState, OS_TCB
    <3>3. Priority \subseteq Nat
      BY ReadyQAssumption DEF Priority
    <3> DEFINE S == {get_highest_wait_pri(g), k.tcb[current].origin_pri}
    <3>4. S \subseteq Priority /\ S # {} /\ pri = Min(S)
      BY <3>1, <3>2
    <3> HIDE DEF S, pri
    <3> QED
      BY <3>3, <3>4, MinIsLeast
  <2> HIDE DEF pri
  <2>4. CASE pri > k.tcb[current].task_priority
    <3>1. /\ k' = readyQ_put([readyQ_remove(n, current) EXCEPT
                                !.tcb[current].task_priority = pri], current)
          /\ current' = k'.readyQ.highest_tcb
      BY <2>2, <2>4 DEF SwitchFrom
    <3>2. /\ ReadyInv(n, {}) /\ TicksLeft(n) /\ n.tcb[current].status = "READY"
      BY <2>1 DEF KInv, CurInv
    <3>3. /\ ReadyInv(k', {}) /\ TicksLeft(k') /\ OnlyTask(n, k', current)
          /\ \A st, o : MovesOn(n, k', st, o)
          /\ k'.tcb[current].status = "READY" /\ k'.tcb[current].task_priority = pri
          /\ k'.tcb[current].origin_pri = n.tcb[current].origin_pri
          /\ k'.tcb[current].delay_ticks = n.tcb[current].delay_ticks
      BY <1>1, <2>3, <3>1, <3>2, RequeueKeeps
    <3>4. KInv(k') /\ CurInv(k', current')
      BY <1>1, <2>1, <3>1, <3>3, Switched, SchedAssumption DEF KInv, OnlyTask
    <3>5. MovesOn(k, k', "PEND_SEM_M", s)
      BY <2>1, <3>3, MovesTrans
    <3>6. MInv(k', g, semM_list, {})
      <4>1. MovesOn(n, k', "FREE", NULL)
        BY <3>3
      <4>2. Still(n, k', "PEND_SEM_M")
        BY <4>1, MovesStill
      <4> QED
        BY <2>1, <4>2, MFrame
    <3>7. Inv'
      BY <1>1, <1>2, <2>2, <3>4, <3>5, <3>6, MNext
    <3>8. GivenBy(k, k', current, pri)
      BY <2>1, <2>4, <2>7, <3>3 DEF GivenBy, OnlyTask, Woke, TicksKept, SamePriority
    <3> QED
      BY <2>1, <2>2, <2>6, <3>7, <3>8 DEF pri
  <2>5. CASE ~ (pri > k.tcb[current].task_priority)
    <3>1. k' = n /\ current' = current
      BY <2>2, <2>5
    <3>2. Inv'
      BY <1>1, <1>2, <2>1, <2>2, <3>1, MNext
    <3>3. k.tcb[current].status = "READY"
      BY CallerIs DEF semM_give
    <3>4. GivenBy(k, k', current, pri)
      BY <2>1, <2>5, <2>7, <3>1, <3>3 DEF GivenBy, Woke, TicksKept, SamePriority
    <3> QED
      BY <2>1, <2>2, <2>6, <3>2, <3>4 DEF pri
  <2> QED
    BY <2>4, <2>5
<1> QED
  BY <1>5, <1>6

LEMMA SemMInit ==
  ASSUME Inv, NEW s \in SemMs \cap Later, semM_init(s),
         UNCHANGED <<semBVars, semCVars, msgQVars>>
  PROVE  Inv'
<1>1. /\ MInv(k, semM, semM_list, {}) /\ semM \in [SemMs -> SEM_MUX]
      /\ ListInv(semM_list, SemMs)
  BY DEF Inv, MInv, ListsInv
<1>2. /\ ~ dlist_check(semM_list, s) /\ semM_list' = dlist_add(semM_list, s)
      /\ semM' = [semM EXCEPT ![s] = semM_new]
      /\ UNCHANGED <<k, delayQ, current, ctx>>
  BY DEF semM_init, schedVars
<1>3. /\ ListInv(semM_list', SemMs)
      /\ \A x : dlist_check(semM_list', x) <=> (x = s \/ dlist_check(semM_list, x))
  BY <1>1, <1>2, Listed
<1>4. semM_new \in SEM_MUX /\ semM_new.wait_list = << >>
  <2>1. 0 \in 0 .. UINT - 1
    BY CountInWord
  <2>2. LOWEST \in Priority
    BY ReadyQAssumption DEF LOWEST, Priority
  <2> QED
    BY <2>1, <2>2 DEF semM_new, SEM_MUX
<1>5. /\ semM' \in [SemMs -> SEM_MUX] /\ semM'[s] = semM_new
      /\ \A x \in SemMs : x # s => semM'[x] = semM[x]
  BY <1>1, <1>2, <1>4
<1>6. HoldsBut(k, << >>, "PEND_SEM_M", s, {})
  BY <1>1, <1>2 DEF MInv, HoldsBut, dlist_check, NoDuplicates
<1>7. HoldsBut(k, semM'[s].wait_list, "PEND_SEM_M", s, {})
  BY <1>4, <1>5, <1>6
<1>8. \A t \in Task : ~ (k.tcb[t].status = "PEND_SEM_M" /\ k.tcb[t].pend_obj = s)
  BY <1>1, <1>2 DEF MInv
<1>9. MInv(k, semM', semM_list', {})
  BY <1>1, <1>3, <1>5, <1>7, <1>8 DEF MInv
<1> QED
  BY <1>2, <1>3, <1>9 DEF Inv, ListsInv, semBVars, semCVars, msgQVars

LEMMA SemMKeeps ==
  ASSUME Inv, SemMStep
  PROVE  Inv' \/ GoesAstray
<1> USE DEF SemMStep
<1>1. /\ ListInv(semM_list, SemMs) /\ UNCHANGED <<semBVars, semCVars, msgQVars>>
      /\ CtxInv(ctx, semB_list, semC_list, msgQ_list)
  BY DEF Inv, ListsInv
<1>2. ASSUME NEW s \in ToSet(semM_list), NEW n \in Timeouts, semM_take(s, n)
      PROVE  Inv' \/ GoesAstray
  <2>1. s \in SemMs /\ dlist_check(semM_list, s) /\ n \in Nat
    BY <1>1, Listed, KernelAssumption
  <2> QED
    BY <1>1, <1>2, <2>1, SemMTake
<1>3. ASSUME semM_wakeup PROVE Inv'
  <2>1. /\ current \in Task /\ current # IDLE /\ k.tcb[current].status = "READY"
        /\ k' = SetTicks(k, current, 0) /\ ctx' = [ctx EXCEPT ![current] = Run]
        /\ UNCHANGED <<delayQ, current, semM, semM_list>>
    BY <1>3, CallerIs DEF semM_wakeup
  <2>2. KInv(k) /\ ReadyInv(k, {}) /\ TicksLeft(k)
    BY DEF Inv, KInv
  <2>3. /\ ReadyInv(k', {}) /\ TicksLeft(k') /\ OnlyTask(k, k', current)
        /\ k'.tcb[current].status = "READY" /\ \A st, o : MovesOn(k, k', st, o)
    BY <2>1, <2>2, ResetTicksKeeps
  <2>4. KInv(k') /\ CurInv(k', current')
    BY <2>1, <2>2, <2>3, SchedAssumption DEF KInv, CurInv, OnlyTask
  <2>5. MInv(k', semM, semM_list, {})
    <3>1. MovesOn(k, k', "FREE", NULL)
      BY <2>3
    <3> QED
      BY <3>1, OthersFrame
  <2>6. CtxInv(ctx', semB_list, semC_list, msgQ_list)
    BY <1>1, <2>1, CtxRun
  <2> QED
    BY <1>1, <2>1, <2>3, <2>4, <2>5, <2>6, MNext
<1>4. ASSUME NEW s \in ToSet(semM_list), semM_give(s) PROVE Inv'
  BY <1>1, <1>4, Listed, SemMGive
<1>5. ASSUME NEW s \in SemMs \cap Later, semM_init(s) PROVE Inv'
  BY <1>1, <1>5, SemMInit
<1> QED
  BY <1>2, <1>3, <1>4, <1>5

-----------------------------------------------------------------------------
(* Tasks come and go.                                                      *)

LEMMA TaskCreate ==
  ASSUME Inv, NEW t \in Killable, NEW p \in UserPri, task_create(t, p)
  PROVE  Inv'
<1>1. /\ t \in Task /\ t # IDLE /\ p \in Priority
  BY KernelAssumption, ReadyQAssumption DEF Priority
<1>2. /\ KInv(k) /\ ReadyInv(k, {}) /\ TicksLeft(k) /\ CurInv(k, current)
      /\ CtxInv(ctx, semB_list, semC_list, msgQ_list)
  BY DEF Inv, KInv
<1>3. /\ k.tcb[t].status = "FREE" /\ k' = created(k, t, p)
      /\ ctx' = [ctx EXCEPT ![t] = Run]
      /\ UNCHANGED <<delayQ, current, semBVars, semCVars, semMVars, msgQVars>>
  BY DEF task_create
<1>4. /\ ReadyInv(k', {}) /\ TicksLeft(k') /\ OnlyTask(k, k', t)
      /\ k'.tcb[t].status = "READY"
  BY <1>1, <1>2, <1>3, CreatedKeeps
<1>5. KInv(k') /\ CurInv(k', current)
  BY <1>2, <1>3, <1>4, SchedAssumption DEF KInv, CurInv, OnlyTask
<1>6. MovesOn(k, k', "FREE", k.tcb[t].pend_obj)
  BY <1>1, <1>3, <1>4, OneMoves DEF ReadyOrAt
<1>7. /\ DInv(k', delayQ) /\ BInv(k', semB, semB_list) /\ CInv(k', semC, semC_list)
      /\ MInv(k', semM, semM_list, {}) /\ QInv(k', msgQ, msgQ_list)
  BY <1>6, OthersFrame
<1>8. CtxInv(ctx', semB_list, semC_list, msgQ_list)
  BY <1>1, <1>2, <1>3, CtxRun
<1> QED
  BY <1>3, <1>5, <1>7, <1>8 DEF Inv, ListsInv, semBVars, semCVars, semMVars, msgQVars

LEMMA TaskEnd ==
  ASSUME Inv, task_end
  PROVE  Inv' /\ OnlyTask(k, k', current) /\ k'.tcb[current].status = "FREE"
<1>1. /\ KInv(k) /\ ReadyInv(k, {}) /\ TicksLeft(k)
      /\ current \in Task /\ current # IDLE /\ k.tcb[current].status = "READY"
  BY CallerIs DEF Inv, KInv, task_end
<1> DEFINE a == readyQ_remove(k, current)
<1>2. /\ k' = released(a, current, "READY") /\ current' = k'.readyQ.highest_tcb
      /\ UNCHANGED <<delayQ, ctx, semBVars, semCVars, semMVars, msgQVars>>
      /\ "READY" \in Status
  BY DEF task_end, SwitchFrom, Status
<1>3. ReadyInv(a, {current}) /\ a.tcb = k.tcb
  BY <1>1, RemoveKeeps
<1> HIDE DEF a
<1>4. TicksLeft(a)
  BY <1>1, <1>3 DEF TicksLeft
<1>5. /\ ReadyInv(k', {}) /\ TicksLeft(k') /\ OnlyTask(a, k', current)
      /\ k'.tcb[current].status = "FREE"
  BY <1>1, <1>2, <1>3, <1>4, FreedKeeps
<1>6. OnlyTask(k, k', current)
  BY <1>3, <1>5 DEF OnlyTask
<1>7. KInv(k') /\ CurInv(k', current')
  BY <1>1, <1>2, <1>5, <1>6, Switched, SchedAssumption DEF KInv, OnlyTask
<1>8. MovesOn(k, k', "FREE", k'.tcb[current].pend_obj)
  BY <1>1, <1>5, <1>6, OneMoves DEF ReadyOrAt
<1>9. /\ DInv(k', delayQ) /\ BInv(k', semB, semB_list) /\ CInv(k', semC, semC_list)
      /\ MInv(k', semM, semM_list, {}) /\ QInv(k', msgQ, msgQ_list)
  BY <1>8, OthersFrame
<1>10. Inv'
  BY <1>2, <1>7, <1>9 DEF Inv, ListsInv, semBVars, semCVars, semMVars, msgQVars
<1> QED
  BY <1>5, <1>6, <1>10

\* From ks to n task t went; tasks that waited for a mutex may have become ready.
Gone(ks, n, t) ==
  /\ n.tcb[t].status = "FREE"
  /\ \A u \in Task \ {t} :
       /\ SamePriority(ks, n, u) /\ n.tcb[u].delay_ticks = ks.tcb[u].delay_ticks
       /\ \/ /\ n.tcb[u].status = ks.tcb[u].status
             /\ n.tcb[u].pend_obj = ks.tcb[u].pend_obj
          \/ ks.tcb[u].status = "PEND_SEM_M" /\ n.tcb[u].status = "READY"

\* The list of the status st and the object o after task t was deleted.
ListWithout(ks, l, st, o, t) ==
  IF ks.tcb[t].status = st /\ ks.tcb[t].pend_obj = o THEN dlist_remove(l, t) ELSE l

LEMMA WithoutHolds ==
  ASSUME NEW ks, NEW n, NEW t \in Task, Gone(ks, n, t), NEW l, NEW o,
         NEW st \in Waiting \ {"PEND_SEM_M"}, HoldsBut(ks, l, st, o, {}),
         NEW m, m = ListWithout(ks, l, st, o, t)
  PROVE  HoldsBut(n, m, st, o, {}) /\ m \in Seq(Task)
<1>1. l \in Seq(Task) /\ NoDuplicates(l) /\ st \notin {"READY", "FREE", "PEND_SEM_M"}
  BY DEF HoldsBut, Waiting
<1>2. CASE ks.tcb[t].status = st /\ ks.tcb[t].pend_obj = o
  <2>1. m = dlist_remove(l, t) /\ dlist_check(l, t)
    BY <1>2 DEF ListWithout, HoldsBut
  <2>2. /\ m \in Seq(Task) /\ NoDuplicates(m) /\ ~ dlist_check(m, t)
        /\ \A x : x # t => (dlist_check(m, x) <=> dlist_check(l, x))
    BY <1>1, <2>1, RemovedMembers
  <2> QED
    BY <1>1, <2>2 DEF HoldsBut, Gone
<1>3. CASE ~ (ks.tcb[t].status = st /\ ks.tcb[t].pend_obj = o)
  <2>1. m = l
    BY <1>3 DEF ListWithout
  <2> QED
    BY <1>1, <1>3, <2>1 DEF HoldsBut, Gone
<1> QED
  BY <1>2, <1>3

LEMMA UpdateWaitPriIs ==
  ASSUME NEW ks \in KernelState, NEW m \in SEM_MUX, NEW h, h = update_wait_pri(ks, m)
  PROVE  h \in SEM_MUX /\ h.wait_list = m.wait_list /\ h.owner_tcb = m.owner_tcb
<1> DEFINE p == IF DL_EMPTY(m.wait_list) THEN LOWEST
                ELSE ks.tcb[DL_FIRST(m.wait_list)].task_priority
<1>1. h = [m EXCEPT !.wait_pri = p]
  BY DEF update_wait_pri
<1>2. p \in Priority
  <2>1. m.wait_list \in Seq(Task)
    BY DEF SEM_MUX
  <2>2. CASE DL_EMPTY(m.wait_list)
    BY <2>2, ReadyQAssumption DEF LOWEST, Priority
  <2>3. CASE ~ DL_EMPTY(m.wait_list)
    <3>1. DL_FIRST(m.wait_list) \in Task
      BY <2>1, <2>3 DEF DL_FIRST, DL_EMPTY
    <3> QED
      BY <2>3, <3>1, PrioritiesAreInt
  <2> QED
    BY <2>2, <2>3
<1> HIDE DEF p
<1> QED
  BY <1>1, <1>2 DEF SEM_MUX

\* The mutexes without a task that is about to go.
LEMMA SemMRemoved ==
  ASSUME Inv, NEW t \in Task, NEW f,
         f = IF k.tcb[t].status = "PEND_SEM_M" THEN semM_remove(k.tcb[t].pend_obj, t)
             ELSE semM
  PROVE  MInv(k, f, semM_list, {t}) /\ GaveBack(semM, f, t)
<1>1. MInv(k, semM, semM_list, {}) /\ k \in KernelState
  BY DEF Inv, KInv, ReadyInv
<1>2. CASE k.tcb[t].status # "PEND_SEM_M"
  <2>1. f = semM
    BY <1>2
  <2>2. \A s \in SemMs : HoldsBut(k, semM[s].wait_list, "PEND_SEM_M", s, {t})
    BY <1>1, <1>2 DEF MInv, HoldsBut
  <2>3. GaveBack(semM, semM, t)
    BY InOrderSame, Zenon DEF GaveBack
  <2> QED
    BY <1>1, <2>1, <2>2, <2>3 DEF MInv
<1>3. CASE k.tcb[t].status = "PEND_SEM_M"
  <2> DEFINE o == k.tcb[t].pend_obj
             l == semM[o].wait_list
             m == dlist_remove(l, t)
             x == [semM[o] EXCEPT !.wait_list = m]
             h == update_wait_pri(k, x)
  <2>1. f = [semM EXCEPT ![o] = h]
    BY <1>3 DEF semM_remove
  <2>2. /\ o \in SemMs /\ semM \in [SemMs -> SEM_MUX] /\ semM[o].owner_tcb # NULL
        /\ HoldsBut(k, l, "PEND_SEM_M", o, {})
    BY <1>1, <1>3 DEF MInv
  <2>3. l \in Seq(Task) /\ NoDuplicates(l) /\ dlist_check(l, t)
    BY <1>3, <2>2 DEF HoldsBut
  <2>4. /\ m \in Seq(Task) /\ NoDuplicates(m) /\ ~ dlist_check(m, t)
        /\ \A u : u # t => (dlist_check(m, u) <=> dlist_check(l, u))
        /\ InOrder(l, m)
    BY <2>3, RemovedMembers, InOrderRemove
  <2> HIDE DEF m
  <2>5. x \in SEM_MUX /\ x.wait_list = m /\ x.owner_tcb = semM[o].owner_tcb
    BY <2>2, <2>4 DEF SEM_MUX
  <2> HIDE DEF x
  <2>6. h \in SEM_MUX /\ h.wait_list = m /\ h.owner_tcb = semM[o].owner_tcb
    BY <1>1, <2>5, UpdateWaitPriIs
  <2> HIDE DEF h
  <2>7. /\ f \in [SemMs -> SEM_MUX] /\ f[o] = h
        /\ \A s \in SemMs : s # o => f[s] = semM[s]
    BY <2>1, <2>2, <2>6
  <2>8. HoldsBut(k, m, "PEND_SEM_M", o, {t})
    <3> HIDE DEF o, l
    <3> QED
      BY <2>2, <2>4 DEF HoldsBut
  <2>9. ASSUME NEW s \in SemMs PROVE HoldsBut(k, f[s].wait_list, "PEND_SEM_M", s, {t})
    <3>1. CASE s = o
      BY <2>6, <2>7, <2>8, <3>1
    <3>2. CASE s # o
      <4>1. f[s] = semM[s] /\ HoldsBut(k, semM[s].wait_list, "PEND_SEM_M", s, {})
        BY <1>1, <2>7, <3>2 DEF MInv
      <4> QED
        BY <3>2, <4>1 DEF HoldsBut
    <3> QED
      BY <3>1, <3>2
  <2>10. \A s \in SemMs : f[s].owner_tcb = semM[s].owner_tcb
    BY <2>6, <2>7
  <2>11. GaveBack(semM, f, t)
    <3>1. ASSUME NEW s \in SemMs PROVE InOrder(semM[s].wait_list, f[s].wait_list)
      BY <2>4, <2>6, <2>7, InOrderSame
    <3> QED
      BY <2>10, <3>1 DEF GaveBack
  <2>12. MInv(k, f, semM_list, {t})
    BY <1>1, <2>7, <2>9, <2>10 DEF MInv
  <2> QED
    BY <2>11, <2>12
<1> QED
  BY <1>2, <1>3

\* The control block of a task that gave its mutexes is free.
LEMMA FreedIs ==
  ASSUME NEW ks, NEW a, NEW b, NEW g, NEW l, NEW t \in Task, t # IDLE, KInv(ks),
         a.tcb = ks.tcb, ReadyInv(b, {t}), TicksLeft(b), MInv(b, g, l, {t}),
         GivenAway(a, b, t), NEW st \in Status, NEW n, n = released(b, t, st)
  PROVE  KInv(n) /\ Gone(ks, n, t) /\ MInv(n, g, l, {})
<1>1. /\ ReadyInv(n, {}) /\ TicksLeft(n) /\ OnlyTask(b, n, t) /\ n.tcb[t].status = "FREE"
  BY FreedKeeps
<1>2. Gone(ks, n, t)
  BY <1>1 DEF Gone, GivenAway, Woke, TicksKept, OnlyTask, SamePriority
<1>3. KInv(n)
  BY <1>1, <1>2, SchedAssumption DEF KInv, Gone
<1>4. ASSUME NEW s \in SemMs PROVE HoldsBut(n, g[s].wait_list, "PEND_SEM_M", s, {})
  <2>1. HoldsBut(b, g[s].wait_list, "PEND_SEM_M", s, {t})
    BY DEF MInv
  <2> QED
    BY <1>1, <2>1 DEF HoldsBut, OnlyTask
<1>5. MInv(n, g, l, {})
  BY <1>1, <1>4 DEF MInv, OnlyTask
<1> QED
  BY <1>2, <1>3, <1>5

\* The deleted task gives its mutexes and its control block is free.
LEMMA DeletedIs ==
  ASSUME Inv, NEW t \in Task, t # IDLE, NEW a, NEW f,
         a = IF k.tcb[t].status = "READY" THEN readyQ_remove(k, t) ELSE k,
         f = IF k.tcb[t].status = "PEND_SEM_M" THEN semM_remove(k.tcb[t].pend_obj, t)
             ELSE semM,
         NEW r, r = semM_free(a, f, t), NEW n, n = released(r.k, t, k.tcb[t].status)
  PROVE  /\ KInv(n) /\ Gone(k, n, t) /\ MInv(n, r.objs, semM_list, {})
         /\ GaveBack(semM, r.objs, t)
<1>1. /\ KInv(k) /\ ReadyInv(k, {}) /\ TicksLeft(k)
      /\ semM_list \in Seq(SemMs)
  BY DEF Inv, KInv, ListsInv, ListInv
<1>2. ReadyInv(a, {t}) /\ a.tcb = k.tcb
  <2>1. CASE k.tcb[t].status = "READY"
    BY <1>1, <2>1, RemoveKeeps
  <2>2. CASE k.tcb[t].status # "READY"
    <3>1. ReadyInv(k, {} \cup {t}) /\ {} \cup {t} = {t}
      BY <1>1, <2>2, NotReadyIsOff
    <3> QED
      BY <2>2, <3>1
  <2> QED
    BY <2>1, <2>2
<1>3. TicksLeft(a)
  BY <1>1, <1>2 DEF TicksLeft
<1>4. MInv(a, f, semM_list, {t}) /\ GaveBack(semM, f, t)
  <2>1. MInv(k, f, semM_list, {t}) /\ GaveBack(semM, f, t)
    BY SemMRemoved
  <2>2. Still(k, a, "PEND_SEM_M")
    BY <1>2 DEF Still
  <2> QED
    BY <2>1, <2>2, MFrame
<1>5. FreeInv(r, semM_list, t) /\ GivenAway(a, r.k, t) /\ GaveBack(f, r.objs, t)
  BY <1>1, <1>2, <1>3, <1>4, SemMFreeKeeps
<1> DEFINE b  == r.k
           g  == r.objs
           st == k.tcb[t].status
<1>6. /\ ReadyInv(b, {t}) /\ TicksLeft(b) /\ MInv(b, g, semM_list, {t})
      /\ GivenAway(a, b, t) /\ n = released(b, t, st) /\ a.tcb = k.tcb /\ KInv(k)
      /\ st \in Status
  BY <1>1, <1>2, <1>5 DEF FreeInv, ReadyInv, KernelState, OS_TCB
<1>7. KInv(n) /\ Gone(k, n, t) /\ MInv(n, g, semM_list, {})
  <2> HIDE DEF b, g, st
  <2> QED
    BY <1>6, FreedIs
<1>8. GaveBack(semM, r.objs, t)
  BY <1>4, <1>5, GaveBackTrans
<1> QED
  BY <1>7, <1>8

\* A semaphore list without the deleted task.
LEMMA SemsGone ==
  ASSUME NEW st \in Waiting \ {"PEND_SEM_M"}, NEW Os, NEW Rec, SemKind(st, Os, Rec),
         NEW ks, NEW n, NEW t \in Task, Gone(ks, n, t), NEW f \in [Os -> Rec],
         \A s \in Os : HoldsBut(ks, f[s].wait_list, st, s, {}),
         NEW o, o = ks.tcb[t].pend_obj, ks.tcb[t].status = st => o \in Os,
         NEW g, g = IF ks.tcb[t].status = st
                    THEN WithList(f, o, dlist_remove(f[o].wait_list, t)) ELSE f
  PROVE  g \in [Os -> Rec] /\ \A s \in Os : HoldsBut(n, g[s].wait_list, st, s, {})
<1>1. /\ g \in [Os -> Rec]
      /\ \A s \in Os : g[s].wait_list = ListWithout(ks, f[s].wait_list, st, s, t)
  <2>1. CASE ks.tcb[t].status = st
    <3> DEFINE m == dlist_remove(f[o].wait_list, t)
    <3>1. o \in Os /\ HoldsBut(ks, f[o].wait_list, st, o, {}) /\ g = WithList(f, o, m)
      BY <2>1
    <3>2. m \in Seq(Task)
      <4>1. m = ListWithout(ks, f[o].wait_list, st, o, t)
        BY <2>1 DEF ListWithout
      <4> HIDE DEF m
      <4> QED
        BY <3>1, <4>1, WithoutHolds
    <3> HIDE DEF m
    <3>3. /\ g \in [Os -> Rec] /\ g[o].wait_list = m
          /\ \A x \in Os : x # o => g[x] = f[x]
      BY <3>1, <3>2, WithListIs
    <3>4. ASSUME NEW s \in Os
          PROVE  g[s].wait_list = ListWithout(ks, f[s].wait_list, st, s, t)
      <4>1. CASE s = o
        BY <2>1, <3>3, <4>1 DEF ListWithout, m
      <4>2. CASE s # o
        BY <3>3, <4>2 DEF ListWithout
      <4> QED
        BY <4>1, <4>2
    <3> QED
      BY <3>3, <3>4
  <2>2. CASE ks.tcb[t].status # st
    BY <2>2 DEF ListWithout
  <2> QED
    BY <2>1, <2>2
<1>2. ASSUME NEW s \in Os PROVE HoldsBut(n, g[s].wait_list, st, s, {})
  BY <1>1, WithoutHolds
<1> QED
  BY <1>1, <1>2

\* The lists of a message queue without the deleted task.
LEMMA MsgQGone ==
  ASSUME Inv, NEW n, NEW t \in Task, Gone(k, n, t),
         NEW g, g = IF k.tcb[t].status \in {"PEND_MSG_S", "PEND_MSG_R"}
                    THEN msgQ_remove(k.tcb[t].pend_obj, t) ELSE msgQ
  PROVE  QInv(n, g, msgQ_list)
<1> DEFINE o == k.tcb[t].pend_obj
           S(q) == ListWithout(k, msgQ[q].wait_send_list, "PEND_MSG_S", q, t)
           R(q) == ListWithout(k, msgQ[q].wait_recv_list, "PEND_MSG_R", q, t)
<1>1. QInv(k, msgQ, msgQ_list) /\ msgQ \in [MsgQs -> MSG_QUE]
  BY DEF Inv, QInv
<1>2. ASSUME NEW q \in MsgQs
      PROVE  /\ HoldsBut(n, S(q), "PEND_MSG_S", q, {}) /\ S(q) \in Seq(Task)
             /\ HoldsBut(n, R(q), "PEND_MSG_R", q, {}) /\ R(q) \in Seq(Task)
  <2>1. /\ HoldsBut(k, msgQ[q].wait_send_list, "PEND_MSG_S", q, {})
        /\ HoldsBut(k, msgQ[q].wait_recv_list, "PEND_MSG_R", q, {})
    BY <1>1 DEF QInv
  <2>2. {"PEND_MSG_S", "PEND_MSG_R"} \subseteq Waiting \ {"PEND_SEM_M"}
    BY DEF Waiting, Status
  <2> QED
    BY <2>1, <2>2, WithoutHolds
<1>3. /\ g \in [MsgQs -> MSG_QUE] /\ SameMessages(msgQ, g)
      /\ \A q \in MsgQs : g[q].wait_send_list = S(q) /\ g[q].wait_recv_list = R(q)
  <2>1. CASE k.tcb[t].status \notin {"PEND_MSG_S", "PEND_MSG_R"}
    BY <1>1, <2>1 DEF ListWithout, SameMessages
  <2>2. CASE k.tcb[t].status \in {"PEND_MSG_S", "PEND_MSG_R"}
    <3>1. o \in MsgQs /\ msgQ[o] \in MSG_QUE
      BY <1>1, <2>2 DEF QInv
    <3>2. g = QueueLists(msgQ, o, S(o), R(o))
      <4>1. CASE k.tcb[t].status = "PEND_MSG_S"
        <5>1. S(o) = dlist_remove(msgQ[o].wait_send_list, t) /\ R(o) = msgQ[o].wait_recv_list
          BY <4>1 DEF ListWithout
        <5>2. g = [msgQ EXCEPT ![o].wait_send_list = dlist_remove(@, t)]
          BY <4>1 DEF msgQ_remove
        <5> HIDE DEF S, R
        <5> DEFINE x == msgQ[o]
                   y == [x EXCEPT !.wait_send_list = S(o), !.wait_recv_list = R(o)]
        <5>3. y = [x EXCEPT !.wait_send_list = S(o)]
          BY <3>1, <5>1 DEF MSG_QUE
        <5>4. g = [msgQ EXCEPT ![o] = [x EXCEPT !.wait_send_list = S(o)]]
          BY <1>1, <3>1, <5>1, <5>2
        <5>5. QueueLists(msgQ, o, S(o), R(o)) = [msgQ EXCEPT ![o] = y]
          BY <1>1, <3>1 DEF QueueLists
        <5> QED
          BY <5>3, <5>4, <5>5
      <4>2. CASE k.tcb[t].status = "PEND_MSG_R"
        <5>1. R(o) = dlist_remove(msgQ[o].wait_recv_list, t) /\ S(o) = msgQ[o].wait_send_list
          BY <4>2 DEF ListWithout
        <5>2. g = [msgQ EXCEPT ![o].wait_recv_list = dlist_remove(@, t)]
          BY <4>2 DEF msgQ_remove
        <5> HIDE DEF S, R
        <5> DEFINE x == msgQ[o]
                   y == [x EXCEPT !.wait_send_list = S(o), !.wait_recv_list = R(o)]
        <5>3. y = [x EXCEPT !.wait_recv_list = R(o)]
          BY <3>1, <5>1 DEF MSG_QUE
        <5>4. g = [msgQ EXCEPT ![o] = [x EXCEPT !.wait_recv_list = R(o)]]
          BY <1>1, <3>1, <5>1, <5>2
        <5>5. QueueLists(msgQ, o, S(o), R(o)) = [msgQ EXCEPT ![o] = y]
          BY <1>1, <3>1 DEF QueueLists
        <5> QED
          BY <5>3, <5>4, <5>5
      <4> QED
        BY <2>2, <4>1, <4>2
    <3>3. \A q \in MsgQs : q # o => /\ S(q) = msgQ[q].wait_send_list
                                    /\ R(q) = msgQ[q].wait_recv_list
      BY DEF ListWithout
    <3>4. S(o) \in Seq(Task) /\ R(o) \in Seq(Task)
      BY <1>2, <3>1
    <3> HIDE DEF S, R, o
    <3> QED
      BY <1>1, <3>1, <3>2, <3>3, <3>4, QueueListsIs
  <2> QED
    BY <2>1, <2>2
<1>4. \A q \in MsgQs : g[q].cur_num = Len(g[q].msg_list)
  BY <1>1, <1>3 DEF QInv, SameMessages
<1>5. \A u \in Task : n.tcb[u].status \in {"PEND_MSG_S", "PEND_MSG_R"}
        => n.tcb[u].pend_obj \in MsgQs /\ dlist_check(msgQ_list, n.tcb[u].pend_obj)
  BY <1>1 DEF QInv, Gone
<1> HIDE DEF S, R
<1> QED
  BY <1>2, <1>3, <1>4, <1>5 DEF QInv

LEMMA TaskDelete ==
  ASSUME Inv, NEW t \in Killable, task_delete(t)
  PROVE  Inv' /\ Gone(k, k', t) /\ GaveBack(semM, semM', t)
<1> DEFINE st == k.tcb[t].status
           o  == k.tcb[t].pend_obj
           a  == IF st = "READY" THEN readyQ_remove(k, t) ELSE k
           f  == IF st = "PEND_SEM_M" THEN semM_remove(o, t) ELSE semM
           r  == semM_free(a, f, t)
<1>1. /\ t \in Task /\ t # IDLE /\ t # current
      /\ k' = released(r.k, t, st) /\ semM' = r.objs
      /\ delayQ' = IF st = "DELAY" THEN dlist_remove(delayQ, t) ELSE delayQ
      /\ semB' = IF st = "PEND_SEM_B" THEN semB_remove(o, t) ELSE semB
      /\ semC' = IF st = "PEND_SEM_C" THEN semC_remove(o, t) ELSE semC
      /\ msgQ' = IF st \in {"PEND_MSG_S", "PEND_MSG_R"} THEN msgQ_remove(o, t) ELSE msgQ
      /\ UNCHANGED <<current, ctx, semB_list, semC_list, semM_list, msgQ_list>>
  BY KernelAssumption DEF task_delete
<1>2. /\ KInv(k) /\ CurInv(k, current) /\ DInv(k, delayQ)
      /\ BInv(k, semB, semB_list) /\ CInv(k, semC, semC_list)
  BY DEF Inv
<1>3. /\ KInv(k') /\ Gone(k, k', t) /\ MInv(k', semM', semM_list, {})
      /\ GaveBack(semM, semM', t)
  <2> DEFINE n == released(r.k, t, st)
  <2>1. /\ KInv(n) /\ Gone(k, n, t)
        /\ MInv(n, r.objs, semM_list, {}) /\ GaveBack(semM, r.objs, t)
    BY <1>1, DeletedIs
  <2> HIDE DEF r
  <2> QED
    BY <1>1, <2>1
<1> HIDE DEF a, f, r
<1>4. CurInv(k', current)
  BY <1>1, <1>2, <1>3 DEF CurInv, Gone
<1>5. DInv(k', delayQ')
  <2>1. st = "DELAY" => o = NULL
    BY <1>1, <1>2 DEF DInv
  <2>2. delayQ' = ListWithout(k, delayQ, "DELAY", NULL, t)
    BY <1>1, <2>1 DEF ListWithout
  <2>3. "DELAY" \in Waiting \ {"PEND_SEM_M"}
    BY DEF Waiting, Status
  <2>4. HoldsBut(k', delayQ', "DELAY", NULL, {})
    BY <1>1, <1>2, <1>3, <2>2, <2>3, WithoutHolds DEF DInv
  <2> QED
    BY <1>2, <1>3, <2>4 DEF DInv, Gone
<1>6. BInv(k', semB', semB_list)
  <2>1. semB' = IF st = "PEND_SEM_B"
                THEN WithList(semB, o, dlist_remove(semB[o].wait_list, t)) ELSE semB
    BY <1>1, <1>2 DEF semB_remove, WithList, BInv
  <2>2. /\ SemKind("PEND_SEM_B", SemBs, SEM_BIN) /\ semB \in [SemBs -> SEM_BIN]
        /\ st = "PEND_SEM_B" => o \in SemBs
        /\ \A s \in SemBs : HoldsBut(k, semB[s].wait_list, "PEND_SEM_B", s, {})
        /\ "PEND_SEM_B" \in Waiting \ {"PEND_SEM_M"}
    BY <1>1, <1>2 DEF SemKind, BInv, Waiting, Status
  <2>3. /\ semB' \in [SemBs -> SEM_BIN]
        /\ \A s \in SemBs : HoldsBut(k', semB'[s].wait_list, "PEND_SEM_B", s, {})
    BY <1>1, <1>3, <2>1, <2>2, SemsGone
  <2> QED
    BY <1>2, <1>3, <2>3 DEF BInv, Gone
<1>7. CInv(k', semC', semC_list)
  <2>1. semC' = IF st = "PEND_SEM_C"
                THEN WithList(semC, o, dlist_remove(semC[o].wait_list, t)) ELSE semC
    BY <1>1, <1>2 DEF semC_remove, WithList, CInv
  <2>2. /\ SemKind("PEND_SEM_C", SemCs, SEM_CNT) /\ semC \in [SemCs -> SEM_CNT]
        /\ st = "PEND_SEM_C" => o \in SemCs
        /\ \A s \in SemCs : HoldsBut(k, semC[s].wait_list, "PEND_SEM_C", s, {})
        /\ "PEND_SEM_C" \in Waiting \ {"PEND_SEM_M"}
    BY <1>1, <1>2 DEF SemKind, CInv, Waiting, Status
  <2>3. /\ semC' \in [SemCs -> SEM_CNT]
        /\ \A s \in SemCs : HoldsBut(k', semC'[s].wait_list, "PEND_SEM_C", s, {})
    BY <1>1, <1>3, <2>1, <2>2, SemsGone
  <2> QED
    BY <1>2, <1>3, <2>3 DEF CInv, Gone
<1>8. QInv(k', msgQ', msgQ_list)
  BY <1>1, <1>3, MsgQGone
<1> QED
  BY <1>1, <1>3, <1>4, <1>5, <1>6, <1>7, <1>8 DEF Inv, ListsInv, semBVars, semCVars,
     semMVars, msgQVars

LEMMA TaskKeeps ==
  ASSUME Inv, TaskStep
  PROVE  Inv'
  BY TaskCreate, TaskDelete, TaskEnd DEF TaskStep

-----------------------------------------------------------------------------
(* The invariant holds from the start and every step keeps it.             *)

LEMMA InitKeeps == Init => Inv
<1> SUFFICES ASSUME Init PROVE Inv
  OBVIOUS
<1>1. Started(k)
  <2>1. PICK pri \in [StartTasks -> UserPri], order \in Listings(StartTasks) :
          k = start(pri, order)
    BY DEF Init
  <2>2. order \in Seq(StartTasks) /\ NoDuplicates(order)
    BY KernelAssumption, ListingIs
  <2> QED
    BY <2>1, <2>2, StartKeeps
<1>2. KInv(k) /\ \A t \in Task : k.tcb[t].status \in {"READY", "FREE"}
  BY <1>1 DEF Started
<1>3. CurInv(k, current)
  BY <1>2, Switched DEF Init
<1>4. /\ ListInv(semB_list, SemBs) /\ ListInv(semC_list, SemCs)
      /\ ListInv(semM_list, SemMs) /\ ListInv(msgQ_list, MsgQs)
  <2>1. /\ semB_list \in Listings(SemBs \ Later) /\ semC_list \in Listings(SemCs \ Later)
        /\ semM_list \in Listings(SemMs \ Later) /\ msgQ_list \in Listings(MsgQs \ Later)
    BY DEF Init, semB_start, semC_start, semM_start, msgQ_start
  <2>2. ASSUME NEW Os, Os \subseteq Obj, NEW l \in Listings(Os \ Later)
        PROVE  ListInv(l, Os)
    <3>1. l \in Seq(Os \ Later) /\ NoDuplicates(l)
      BY <2>2, ListingIs
    <3> QED
      BY <3>1 DEF ListInv
  <2> QED
    BY <2>1, <2>2, KernelAssumption
<1>5. \A o : \A st \in Waiting : HoldsBut(k, << >>, st, o, {})
  <2>1. << >> \in Seq(Task) /\ NoDuplicates(<< >>) /\ \A t : ~ dlist_check(<< >>, t)
    BY DEF NoDuplicates, dlist_check
  <2> QED
    BY <1>2, <2>1 DEF HoldsBut, Waiting
<1>6. {"DELAY", "PEND_SEM_B", "PEND_SEM_C", "PEND_SEM_M", "PEND_MSG_S", "PEND_MSG_R"}
        \subseteq Waiting
  BY DEF Waiting, Status
<1>7. DInv(k, delayQ)
  BY <1>2, <1>5, <1>6 DEF Init, DInv
<1>8. BInv(k, semB, semB_list)
  <2>1. semB = [s \in SemBs |-> [owner_tcb |-> NULL, wait_list |-> << >>]]
    BY DEF Init, semB_start
  <2>2. semB \in [SemBs -> SEM_BIN] /\ \A s \in SemBs : semB[s].wait_list = << >>
    BY <2>1 DEF SEM_BIN
  <2> QED
    BY <1>2, <1>5, <1>6, <2>2 DEF BInv
<1>9. CInv(k, semC, semC_list)
  <2>1. PICK n \in [SemCs -> 0 .. MAX_COUNT] :
          semC = [s \in SemCs |-> [count |-> n[s], wait_list |-> << >>]]
    BY DEF Init, semC_start
  <2>2. semC \in [SemCs -> SEM_CNT] /\ \A s \in SemCs : semC[s].wait_list = << >>
    BY <2>1 DEF SEM_CNT
  <2> QED
    BY <1>2, <1>5, <1>6, <2>2 DEF CInv
<1>10. MInv(k, semM, semM_list, {})
  <2>1. semM = [s \in SemMs |-> semM_new]
    BY DEF Init, semM_start
  <2>2. semM_new \in SEM_MUX /\ semM_new.wait_list = << >>
    BY SemMAssumption, ReadyQAssumption DEF semM_new, SEM_MUX, LOWEST, Priority
  <2>3. semM \in [SemMs -> SEM_MUX] /\ \A s \in SemMs : semM[s].wait_list = << >>
    BY <2>1, <2>2
  <2> QED
    BY <1>2, <1>5, <1>6, <2>3 DEF MInv
<1>11. QInv(k, msgQ, msgQ_list)
  <2>1. msgQ = [q \in MsgQs |-> msgQ_new]
    BY DEF Init, msgQ_start
  <2>2. /\ msgQ_new \in MSG_QUE /\ msgQ_new.wait_send_list = << >>
        /\ msgQ_new.wait_recv_list = << >> /\ msgQ_new.cur_num = Len(msgQ_new.msg_list)
    BY MsgQAssumption DEF msgQ_new, MSG_QUE
  <2>3. /\ msgQ \in [MsgQs -> MSG_QUE]
        /\ \A q \in MsgQs : /\ msgQ[q].wait_send_list = << >> /\ msgQ[q].wait_recv_list = << >>
                            /\ msgQ[q].cur_num = Len(msgQ[q].msg_list)
    BY <2>1, <2>2
  <2> QED
    BY <1>2, <1>5, <1>6, <2>3 DEF QInv
<1>12. CtxInv(ctx, semB_list, semC_list, msgQ_list)
  <2>1. ctx = [t \in Task |-> Run]
    BY DEF Init
  <2>2. Run \in Contexts /\ Run.call = "run"
    BY DEF Run, Contexts, Calls
  <2>3. /\ ctx \in [Task -> Contexts] /\ ctx[IDLE] = Run
        /\ \A t \in Task : ctx[t].call = "run"
    BY <2>1, <2>2, SchedAssumption
  <2> QED
    BY <2>3 DEF CtxInv, BCalls, CCalls, QCalls
<1> QED
  BY <1>2, <1>3, <1>4, <1>7, <1>8, <1>9, <1>10, <1>11, <1>12 DEF Inv, ListsInv

LEMMA NextKeeps ==
  ASSUME Disposable \cap MsgQs = {}
  PROVE  Inv /\ [Next]_kernelVars => Inv' \/ GoesAstray
<1> SUFFICES ASSUME Inv, [Next]_kernelVars PROVE Inv' \/ GoesAstray
  OBVIOUS
<1>1. CASE DelayStep
  BY <1>1, DelayKeeps
<1>2. CASE SemBStep
  BY <1>2, SemBKeeps
<1>3. CASE SemCStep
  BY <1>3, SemCKeeps
<1>4. CASE SemMStep
  BY <1>4, SemMKeeps
<1>5. CASE MsgQStep
  BY <1>5, MsgQKeeps
<1>6. CASE TaskStep
  BY <1>6, TaskKeeps
<1>7. CASE tick_announce
  BY <1>7, TickAnnounceKeeps
<1>8. CASE UNCHANGED kernelVars
  BY <1>8 DEF kernelVars, schedVars, semBVars, semCVars, semMVars, msgQVars, Inv, ListsInv
<1> QED
  BY <1>1, <1>2, <1>3, <1>4, <1>5, <1>6, <1>7, <1>8 DEF Next

\* A task that met a dead owner stays in _up_owner_pri, with interrupts masked.
LEMMA AstrayStops == ~ (Astray /\ Next)
<1> SUFFICES ASSUME Astray, Next PROVE FALSE
  OBVIOUS
<1>1. ~ MayCall /\ ~ IrqEnabled /\ ctx[current].call = "up_owner_pri"
  BY DEF Astray, MayCall, Running, Run, IrqEnabled
<1>2. ~ DelayStep
  BY <1>1 DEF DelayStep, delayQ_delay
<1>3. ~ SemBStep
  BY <1>1 DEF SemBStep, semB_take, semB_wakeup, semB_give, semB_init, semB_flush,
              semB_delete, semB_unlink
<1>4. ~ SemCStep
  BY <1>1 DEF SemCStep, semC_take, semC_wakeup, semC_give, semC_init, semC_flush,
              semC_delete, semC_unlink
<1>5. ~ SemMStep
  BY <1>1 DEF SemMStep, semM_take, semM_wakeup, semM_give, semM_init
<1>6. ~ MsgQStep
  BY <1>1 DEF MsgQStep, msgQ_send, msgQ_send_wakeup, msgQ_receive, msgQ_receive_wakeup,
              msgQ_init, msgQ_delete
<1>7. ~ TaskStep /\ ~ tick_announce
  BY <1>1 DEF TaskStep, task_create, task_delete, task_end, tick_announce
<1> QED
  BY <1>2, <1>3, <1>4, <1>5, <1>6, <1>7 DEF Next

LEMMA AstrayStays == Astray /\ [Next]_kernelVars => Astray'
  BY AstrayStops DEF Astray, kernelVars, schedVars

\* The inductive invariant, for a system that deletes no message queue: a
\* receiver or a sender that msgQ_delete wakes goes on with the freed queue.  It
\* holds until a task that takes a mutex meets a dead owner in _up_owner_pri.
THEOREM KernelInvariant ==
  ASSUME Disposable \cap MsgQs = {}
  PROVE  Spec => [](~ Astray => Inv)
<1>1. Init => Inv
  BY InitKeeps
<1>2. (Inv \/ Astray) /\ [Next]_kernelVars => (Inv \/ Astray)'
  BY NextKeeps, AstrayStays DEF GoesAstray
<1> QED
  BY <1>1, <1>2, PTL DEF Spec

\* Every variable of the kernel stays in its type, whatever the tasks call and
\* whenever the tick comes, until a task meets a dead owner.
THEOREM KernelTypes ==
  ASSUME Disposable \cap MsgQs = {}
  PROVE  Spec => [](~ Astray => TypeOK)
<1>1. Inv => TypeOK
  BY InvImplies
<1> QED
  BY <1>1, KernelInvariant, PTL

\* Every task is in the one list that its status and its pend_obj name, the
\* ready queue's bit maps match its lists, highest_tcb is the task to run and
\* the running task and the idle task are ready: task_delete and the tick may
\* unlink a task without looking, and LSB never gets 0.  The only step after
\* which this may be false is semM_take of a task that meets a dead owner in
\* _up_owner_pri: EachTaskInItsQueue says nothing of what comes then.
THEOREM TasksInTheirQueues ==
  ASSUME Disposable \cap MsgQs = {}
  PROVE  Spec => []EachTaskInItsQueue
<1>1. (~ Astray => Inv) => EachTaskInItsQueue
  BY InvImplies DEF EachTaskInItsQueue
<1> QED
  BY <1>1, KernelInvariant, PTL

\* No waiting task has 0 ticks left, from which the tick would count it down
\* to 0xffffffff, until a task meets a dead owner.
THEOREM WaitersKeepTicks ==
  ASSUME Disposable \cap MsgQs = {}
  PROVE  Spec => [](~ Astray => WaitersHaveTicks)
<1>1. Inv => WaitersHaveTicks
  BY InvImplies
<1> QED
  BY <1>1, KernelInvariant, PTL

\* cur_num is the number of linked messages, so dlist_get finds a node in
\* msgQ_receive, until a task meets a dead owner.
THEOREM CountIsMessages ==
  ASSUME Disposable \cap MsgQs = {}
  PROVE  Spec => [](~ Astray => CountMatchesMessages)
<1>1. Inv => CountMatchesMessages
  BY InvImplies
<1> QED
  BY <1>1, KernelInvariant, PTL
=============================================================================
