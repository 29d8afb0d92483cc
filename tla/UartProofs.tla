----------------------------- MODULE UartProofs -----------------------------
(***************************************************************************)
(* The serial line over the kernel: no reader sleeps while characters lie  *)
(* in the FIFO and no interrupt is to come, for every number of readers,   *)
(* tasks and characters.                                                   *)
(***************************************************************************)
EXTENDS Uart, KernelProofs

-----------------------------------------------------------------------------
(* The inductive invariant.                                                *)

\* The statements of a reader.
Places == {"out", "getc", "drain", "pend", "taken", "again", "wait", "read"}

UartTyped ==
  /\ rx \in [chars : Nat, due : BOOLEAN, irq : BOOLEAN]
  /\ reader \in [Readers -> [at : Places, left : Int]]

\* A task that is suspended in uart_getc or uart_pend.
InTake == [call |-> "semB_take", obj |-> RX_SEM, msg |-> NULL]

\* Only readers are suspended in a call, and only in the one on RX_SEM.
OnlyReadersCall == \A t \in Task : ctx[t] = Run \/ (t \in Readers /\ ctx[t] = InTake)

\* A task that pends on a binary semaphore is suspended in that call.
PendsInTake ==
  \A t \in Task : k.tcb[t].status = "PEND_SEM_B"
                    => ctx[t] = InTake /\ k.tcb[t].pend_obj = RX_SEM

\* Behind semB_take a reader looks at the FIFO again.
ComesBack == \A r \in Readers : ctx[r] # Run => reader[r].at \in {"drain", "again"}

\* While the semaphore is free, a reader that was woken is going to take it.
GiveArrives ==
  (semB[RX_SEM].owner_tcb = NULL /\ semB[RX_SEM].wait_list # << >>)
    => Woken("semB_take", RX_SEM) # {}

\* The reader will look at the FIFO before it waits.
Looks(r) ==
  k.tcb[r].status = "READY" /\ ctx[r] = Run /\ reader[r].at \notin {"wait", "pend"}

\* Characters whose interrupt has been handled: the semaphore is free, or a reader
\* that has taken it, or has never waited, will look.
DataIsSeen ==
  (rx.chars # 0 /\ ~ rx.due /\ ~ rx.irq)
    => semB[RX_SEM].owner_tcb = NULL \/ \E r \in Readers : Looks(r)

ReadersInv == OnlyReadersCall /\ PendsInTake /\ ComesBack /\ GiveArrives

UartInv == Inv /\ UartTyped /\ ReadersInv /\ DataIsSeen

\* RX_SEM is in use from the start.
LEMMA RxSemIs ==
  /\ RX_SEM \in SemBs /\ RX_SEM \notin Later /\ RX_SEM \in Obj
  /\ NULL \notin Task /\ "PEND_SEM_B" \in Waiting
  BY UartAssumption, KernelAssumption, ReadyQAssumption DEF Waiting, Status

\* The invariant is stronger than the property.
LEMMA UartInvImplies == UartInv => NoReaderSleepsOnData
<1> SUFFICES ASSUME UartInv, rx.chars # 0, \A r \in Readers : Asleep(r),
                    ~ rx.due, ~ rx.irq
             PROVE  FALSE
  BY DEF NoReaderSleepsOnData
<1>1. \A r \in Readers : k.tcb[r].status = "PEND_SEM_B"
  BY DEF Asleep
<1>2. semB[RX_SEM].owner_tcb = NULL
  BY <1>1 DEF UartInv, DataIsSeen, Looks
<1>3. PICK r \in Readers : r \in Task
  BY UartAssumption
<1>4. k.tcb[r].pend_obj = RX_SEM
  BY <1>1, <1>3 DEF UartInv, ReadersInv, PendsInTake
<1>5. HoldsBut(k, semB[RX_SEM].wait_list, "PEND_SEM_B", RX_SEM, {})
  BY RxSemIs DEF UartInv, Inv, BInv
<1>6. dlist_check(semB[RX_SEM].wait_list, r)
  BY <1>1, <1>3, <1>4, <1>5 DEF HoldsBut
<1>7. semB[RX_SEM].wait_list # << >>
  BY <1>6 DEF dlist_check
<1>8. PICK t \in Task : /\ ctx[t].call = "semB_take" /\ k.tcb[t].status = "READY"
  BY <1>2, <1>7 DEF UartInv, ReadersInv, GiveArrives, Woken
<1>9. t \in Readers
  BY <1>8 DEF UartInv, ReadersInv, OnlyReadersCall, Run
<1> QED
  BY <1>1, <1>8, <1>9

LEMMA UartInitHolds == uartInit => UartInv
<1> SUFFICES ASSUME uartInit PROVE UartInv
  OBVIOUS
<1>1. Inv /\ \A t \in Task : ctx[t] = Run
  BY InitKeeps DEF uartInit, Init
<1>2. UartTyped
  BY DEF uartInit, UartTyped, Places
<1>3. semB[RX_SEM].wait_list = << >>
  BY RxSemIs DEF uartInit, Init, semB_start
<1>4. \A t \in Task : k.tcb[t].status # "PEND_SEM_B"
  <2> SUFFICES ASSUME NEW t \in Task, k.tcb[t].status = "PEND_SEM_B" PROVE FALSE
    OBVIOUS
  <2> DEFINE s == k.tcb[t].pend_obj
  <2>1. s \in SemBs /\ HoldsBut(k, semB[s].wait_list, "PEND_SEM_B", s, {})
    BY <1>1 DEF Inv, BInv
  <2>2. semB[s].wait_list = << >>
    BY <2>1 DEF uartInit, Init, semB_start
  <2>3. dlist_check(<< >>, t)
    BY <2>1, <2>2 DEF HoldsBut
  <2> QED
    BY <2>3 DEF dlist_check
<1>5. Readers \subseteq Task
  BY UartAssumption
<1>6. ReadersInv
  BY <1>1, <1>3, <1>4, <1>5
     DEF ReadersInv, OnlyReadersCall, PendsInTake, ComesBack, GiveArrives
<1>7. DataIsSeen
  BY DEF uartInit, DataIsSeen
<1> QED
  BY <1>1, <1>2, <1>6, <1>7 DEF UartInv

-----------------------------------------------------------------------------
(* Steps that leave the kernel alone.                                      *)

LEMMA KernelStays ==
  ASSUME UartInv, UNCHANGED kernelVars
  PROVE  /\ Inv' /\ UNCHANGED <<k, current, ctx, semB>>
         /\ OnlyReadersCall' /\ PendsInTake' /\ GiveArrives'
<1>1. Inv /\ ReadersInv
  BY DEF UartInv
<1>2. UNCHANGED <<k, delayQ, current, ctx, semB, semB_list, semC, semC_list, semM, semM_list,
                  msgQ, msgQ_list>>
  BY DEF kernelVars, schedVars, semBVars, semCVars, semMVars, msgQVars
<1>3. Inv'
  BY <1>1, <1>2 DEF Inv, ListsInv
<1> QED
  BY <1>1, <1>2, <1>3
     DEF ReadersInv, OnlyReadersCall, PendsInTake, GiveArrives, Woken

\* The running reader goes on to where it will look, or to where it waits when
\* there is nothing.
LEMMA ReaderGoes ==
  ASSUME UartInv, UNCHANGED kernelVars, NEW r \in Readers, current = r, Running, UartTyped',
         \A u \in Readers : u # r => reader'[u] = reader[u],
         rx'.chars # 0 => reader'[r].at \notin {"wait", "pend"}
  PROVE  UartInv'
<1>1. /\ Inv' /\ k' = k /\ current' = current /\ ctx' = ctx /\ semB' = semB
      /\ OnlyReadersCall' /\ PendsInTake' /\ GiveArrives'
  BY KernelStays
<1>2. ctx[r] = Run /\ k.tcb[r].status = "READY"
  BY DEF UartInv, Inv, CurInv, Running
<1>3. ComesBack'
  BY <1>1, <1>2 DEF ComesBack, UartInv, ReadersInv
<1>4. DataIsSeen'
  BY <1>1, <1>2 DEF DataIsSeen, Looks
<1> QED
  BY <1>1, <1>3, <1>4 DEF UartInv, ReadersInv

\* What an assignment to the place of a reader does.
LEMMA GoIs ==
  ASSUME UartTyped, NEW r \in Readers, NEW a \in Places, Go(r, a)
  PROVE  /\ reader' \in [Readers -> [at : Places, left : Int]]
         /\ reader'[r].at = a
         /\ \A u \in Readers : u # r => reader'[u] = reader[u]
<1>1. reader \in [Readers -> [at : Places, left : Int]]
  BY DEF UartTyped
<1>2. reader[r] \in [at : Places, left : Int]
  BY <1>1
<1> DEFINE v == [reader[r] EXCEPT !.at = a]
<1>3. v \in [at : Places, left : Int] /\ v.at = a
  BY <1>2
<1>4. reader' = [reader EXCEPT ![r] = v]
  BY DEF Go
<1> HIDE DEF v
<1> QED
  BY <1>1, <1>3, <1>4

\* In serial_read, with what remains of max.
LEMMA SetsIs ==
  ASSUME UartTyped, NEW r \in Readers, NEW a \in Places, NEW n \in Int,
         reader' = [reader EXCEPT ![r] = [at |-> a, left |-> n]]
  PROVE  /\ reader' \in [Readers -> [at : Places, left : Int]]
         /\ reader'[r].at = a
         /\ \A u \in Readers : u # r => reader'[u] = reader[u]
<1> DEFINE v == [at |-> a, left |-> n]
<1>1. v \in [at : Places, left : Int] /\ v.at = a
  OBVIOUS
<1>2. reader' = [reader EXCEPT ![r] = v]
  OBVIOUS
<1> HIDE DEF v
<1> QED
  BY <1>1, <1>2 DEF UartTyped

LEMMA CallKeeps ==
  ASSUME UartInv, NEW r \in Readers, Call(r)
  PROVE  UartInv'
<1>1. /\ UartTyped /\ current = r /\ Running /\ UNCHANGED kernelVars /\ rx' = rx
      /\ rx \in [chars : Nat, due : BOOLEAN, irq : BOOLEAN]
      /\ READ_MAX \in Int /\ {"getc", "drain", "pend"} \subseteq Places
  BY UartAssumption DEF UartInv, UartTyped, Call, At, Quiet, Places
<1>2. CASE Go(r, "getc")
  BY <1>1, <1>2, GoIs, ReaderGoes DEF UartTyped
<1>3. CASE reader' = [reader EXCEPT ![r] =
                        [at |-> IF RxHasData THEN "drain" ELSE "pend", left |-> READ_MAX]]
  <2> DEFINE a == IF RxHasData THEN "drain" ELSE "pend"
  <2>1. a \in Places /\ (rx.chars # 0 => a = "drain")
    BY <1>1 DEF RxHasData
  <2>2. reader' = [reader EXCEPT ![r] = [at |-> a, left |-> READ_MAX]]
    BY <1>3
  <2> HIDE DEF a
  <2> QED
    BY <1>1, <2>1, <2>2, SetsIs, ReaderGoes DEF UartTyped
<1> QED
  BY <1>2, <1>3 DEF Call

LEMMA DrainKeeps ==
  ASSUME UartInv, NEW r \in Readers, Drain(r)
  PROVE  UartInv'
<1>1. /\ UartTyped /\ current = r /\ Running /\ UNCHANGED kernelVars /\ rx' = rx
      /\ rx \in [chars : Nat, due : BOOLEAN, irq : BOOLEAN]
      /\ reader[r].left - 1 \in Int /\ -1 \in Int /\ {"getc", "out"} \subseteq Places
  BY DEF UartInv, UartTyped, Drain, At, Quiet, Places
<1>2. \/ reader' = [reader EXCEPT ![r] = [at |-> "getc", left |-> reader[r].left - 1]]
      \/ reader' = [reader EXCEPT ![r] = [at |-> "out", left |-> -1]]
  BY <1>1 DEF Drain, UartTyped
<1> DEFINE n == reader[r].left - 1
<1>3. n \in Int
  BY <1>1
<1>4. \/ reader' = [reader EXCEPT ![r] = [at |-> "getc", left |-> n]]
      \/ reader' = [reader EXCEPT ![r] = [at |-> "out", left |-> -1]]
  BY <1>2
<1> HIDE DEF n
<1> QED
  BY <1>1, <1>3, <1>4, SetsIs, ReaderGoes DEF UartTyped

LEMMA FirstDoneKeeps ==
  ASSUME UartInv, NEW r \in Readers, FirstDone(r)
  PROVE  UartInv'
<1>1. /\ UartTyped /\ current = r /\ Running /\ UNCHANGED kernelVars /\ rx' = rx
      /\ Go(r, "again") /\ "again" \in Places
      /\ rx \in [chars : Nat, due : BOOLEAN, irq : BOOLEAN]
  BY DEF UartInv, UartTyped, FirstDone, At, Quiet, Places
<1> QED
  BY <1>1, GoIs, ReaderGoes DEF UartTyped

LEMMA AgainKeeps ==
  ASSUME UartInv, NEW r \in Readers, Again(r)
  PROVE  UartInv'
<1> DEFINE a == IF RxHasData THEN "read" ELSE "wait"
<1>1. /\ UartTyped /\ current = r /\ Running /\ UNCHANGED kernelVars /\ rx' = rx
      /\ Go(r, a) /\ rx \in [chars : Nat, due : BOOLEAN, irq : BOOLEAN]
  BY DEF UartInv, UartTyped, Again, At, Quiet
<1>2. a \in Places /\ (rx.chars # 0 => a = "read")
  BY DEF RxHasData, Places
<1> HIDE DEF a
<1> QED
  BY <1>1, <1>2, GoIs, ReaderGoes DEF UartTyped

LEMMA ReadKeeps ==
  ASSUME UartInv, NEW r \in Readers, Read(r)
  PROVE  UartInv'
<1> DEFINE a == IF reader[r].left = -1 THEN "out" ELSE "drain"
<1>1. /\ UartTyped /\ current = r /\ Running /\ UNCHANGED kernelVars
      /\ Go(r, a) /\ rx \in [chars : Nat, due : BOOLEAN, irq : BOOLEAN]
  BY DEF UartInv, UartTyped, Read, At
<1>2. a \in Places /\ a \notin {"wait", "pend"}
  BY DEF Places
<1>3. rx' \in [chars : Nat, due : BOOLEAN, irq : BOOLEAN]
  BY <1>1 DEF Read
<1> HIDE DEF a
<1> QED
  BY <1>1, <1>2, <1>3, GoIs, ReaderGoes DEF UartTyped

-----------------------------------------------------------------------------
(* The hardware.                                                           *)

LEMMA ArriveKeeps ==
  ASSUME UartInv, RxArrive
  PROVE  UartInv'
<1>1. /\ Inv' /\ k' = k /\ ctx' = ctx /\ semB' = semB
      /\ OnlyReadersCall' /\ PendsInTake' /\ GiveArrives' /\ reader' = reader
  BY KernelStays DEF RxArrive
<1>2. rx \in [chars : Nat, due : BOOLEAN, irq : BOOLEAN]
  BY DEF UartInv, UartTyped
<1>3. /\ rx' \in [chars : Nat, due : BOOLEAN, irq : BOOLEAN]
      /\ rx' = rx \/ rx'.due
  <2> DEFINE m == [rx EXCEPT !.chars = @ + 1]
             b == TRUE
             n == [m EXCEPT !.due = b]
  <2>1. m \in [chars : Nat, due : BOOLEAN, irq : BOOLEAN]
    BY <1>2
  <2>2. b \in BOOLEAN /\ b
    OBVIOUS
  <2>3. rx' = n \/ rx' = rx
    BY DEF RxArrive
  <2> HIDE DEF m, b
  <2>4. n \in [chars : Nat, due : BOOLEAN, irq : BOOLEAN] /\ n.due = b
    BY <2>1, <2>2
  <2> HIDE DEF n
  <2> QED
    BY <1>2, <2>2, <2>3, <2>4
<1>4. UartTyped' /\ ComesBack'
  BY <1>1, <1>3 DEF UartInv, UartTyped, ReadersInv, ComesBack
<1>5. DataIsSeen'
  BY <1>1, <1>3 DEF UartInv, DataIsSeen, Looks
<1> QED
  BY <1>1, <1>4, <1>5 DEF UartInv, ReadersInv

LEMMA RaiseKeeps ==
  ASSUME UartInv, RxRaise
  PROVE  UartInv'
<1>1. /\ Inv' /\ k' = k /\ ctx' = ctx /\ semB' = semB
      /\ OnlyReadersCall' /\ PendsInTake' /\ GiveArrives' /\ reader' = reader
  BY KernelStays DEF RxRaise
<1>2. rx \in [chars : Nat, due : BOOLEAN, irq : BOOLEAN]
  BY DEF UartInv, UartTyped
<1>3. rx' \in [chars : Nat, due : BOOLEAN, irq : BOOLEAN] /\ rx'.irq
  BY <1>2 DEF RxRaise
<1> QED
  BY <1>1, <1>3 DEF UartInv, UartTyped, ReadersInv, ComesBack, DataIsSeen

-----------------------------------------------------------------------------
(* The semaphore.                                                          *)

\* Behind semB_take, from the label "again" on, in a reader that goes on to drain or
\* to again, or that does not wait.
LEMMA TakeKeeps ==
  ASSUME UartInv, current \in Readers, ctx[current] = Run \/ ctx[current] = InTake,
         NEW timeout \in Nat, semB_again(RX_SEM, timeout),
         UNCHANGED <<semCVars, semMVars, msgQVars, rx>>, UartTyped',
         \A u \in Readers : u # current => reader'[u] = reader[u],
         reader'[current].at \notin {"wait", "pend"},
         timeout # 0 => ~ Looks(current) /\ reader'[current].at \in {"drain", "again"}
  PROVE  UartInv'
<1> USE RxSemIs
<1>1. /\ Inv /\ KInv(k) /\ current \in Task /\ current # IDLE
      /\ k.tcb[current].status = "READY" /\ ReadyInv(k, {}) /\ TicksLeft(k)
      /\ semB \in [SemBs -> SEM_BIN] /\ ctx \in [Task -> Contexts]
  BY UartAssumption DEF UartInv, Inv, KInv, CurInv, BInv, CtxInv
<1>2. Inv'
  BY <1>1, SemBAgain
<1>3. /\ OnlyReadersCall /\ PendsInTake /\ ComesBack /\ GiveArrives /\ DataIsSeen
  BY DEF UartInv, ReadersInv
<1>4. CASE /\ semB' = [semB EXCEPT ![RX_SEM].owner_tcb = current]
           /\ k' = SetTicks(k, current, 0)
           /\ ctx' = [ctx EXCEPT ![current] = Run]
  <2>1. OnlyTask(k, k', current) /\ k'.tcb[current].status = "READY"
    BY <1>1, <1>4, ResetTicksKeeps
  <2>2. ctx'[current] = Run /\ \A t \in Task : t # current => ctx'[t] = ctx[t]
    BY <1>1, <1>4
  <2>3. semB'[RX_SEM].owner_tcb # NULL
    BY <1>1, <1>4 DEF SEM_BIN
  <2>4. OnlyReadersCall' /\ PendsInTake' /\ ComesBack'
    BY <1>3, <2>1, <2>2, UartAssumption
       DEF OnlyReadersCall, PendsInTake, ComesBack, OnlyTask
  <2>5. GiveArrives' /\ DataIsSeen'
    BY <2>1, <2>2, <2>3 DEF GiveArrives, DataIsSeen, Looks
  <2> QED
    BY <1>2, <2>4, <2>5 DEF UartInv, ReadersInv
<1>5. CASE /\ semB[RX_SEM].owner_tcb # NULL
           /\ ctx' = [ctx EXCEPT ![current] = Run]
           /\ UNCHANGED <<k, semB, current>>
  <2>1. ctx'[current] = Run /\ \A t \in Task : t # current => ctx'[t] = ctx[t]
    BY <1>1, <1>5
  <2>2. OnlyReadersCall' /\ PendsInTake' /\ ComesBack'
    BY <1>1, <1>3, <1>5, <2>1, UartAssumption
       DEF OnlyReadersCall, PendsInTake, ComesBack
  <2>3. GiveArrives' /\ DataIsSeen'
    BY <1>1, <1>5, <2>1 DEF GiveArrives, DataIsSeen, Looks
  <2> QED
    BY <1>2, <2>2, <2>3 DEF UartInv, ReadersInv
<1>6. CASE /\ semB[RX_SEM].owner_tcb # NULL /\ timeout # 0
           /\ k' = pend(k, "PEND_SEM_B", RX_SEM, timeout)
           /\ semB' = [semB EXCEPT ![RX_SEM].wait_list = dlist_add(@, current)]
           /\ ctx' = [ctx EXCEPT ![current] =
                        [call |-> "semB_take", obj |-> RX_SEM, msg |-> NULL]]
  <2>1. RX_SEM \in Obj \cup {NULL} /\ timeout \in Nat \ {0}
    BY <1>6
  <2>2. /\ OnlyTask(k, k', current)
        /\ k'.tcb[current].status = "PEND_SEM_B" /\ k'.tcb[current].pend_obj = RX_SEM
    BY <1>1, <1>6, <2>1, PendStep
  <2>3. ctx'[current] = InTake /\ \A t \in Task : t # current => ctx'[t] = ctx[t]
    BY <1>1, <1>6 DEF InTake
  <2>4. semB'[RX_SEM].owner_tcb # NULL
    BY <1>1, <1>6 DEF SEM_BIN
  <2>5. InTake # Run
    BY DEF InTake, Run
  <2>6. OnlyReadersCall' /\ PendsInTake'
    BY <1>3, <2>2, <2>3 DEF OnlyReadersCall, PendsInTake, OnlyTask
  <2>7. ComesBack'
    BY <1>3, <1>6, <2>3, UartAssumption DEF ComesBack
  <2>8. \A r \in Readers : Looks(r) => Looks(r)'
    BY <1>6, <2>2, <2>3, UartAssumption DEF Looks, OnlyTask
  <2>9. DataIsSeen'
    BY <1>3, <1>6, <2>8 DEF DataIsSeen
  <2>10. GiveArrives'
    BY <2>4 DEF GiveArrives
  <2> QED
    BY <1>2, <2>6, <2>7, <2>9, <2>10 DEF UartInv, ReadersInv
<1> QED
  BY <1>4, <1>5, <1>6 DEF semB_again

LEMMA PendKeepsIt ==
  ASSUME UartInv, NEW r \in Readers, Pend(r) \/ Wait(r) \/ FirstTake(r)
  PROVE  UartInv'
<1>1. /\ UartTyped /\ current = r /\ ctx[current] = Run /\ rx' = rx
      /\ UNCHANGED <<semCVars, semMVars, msgQVars>> /\ WAIT_FOREVER \in Nat /\ 0 \in Nat
      /\ {"drain", "again", "taken"} \subseteq Places
  BY SchedAssumption
     DEF UartInv, Pend, Wait, FirstTake, At, Running, OtherObjects, Places
<1>2. ASSUME NEW a \in {"drain", "again"}, Go(r, a), semB_again(RX_SEM, WAIT_FOREVER),
             reader[r].at \in {"wait", "pend"}
      PROVE  UartInv'
  <2>1. UartTyped' /\ reader'[r].at = a /\ \A u \in Readers : u # r => reader'[u] = reader[u]
    BY <1>1, <1>2, GoIs DEF UartTyped
  <2>2. ~ Looks(current)
    BY <1>1, <1>2 DEF Looks
  <2> QED
    BY <1>1, <1>2, <2>1, <2>2, TakeKeeps
<1>3. ASSUME Go(r, "taken"), semB_again(RX_SEM, 0) PROVE UartInv'
  <2>1. /\ UartTyped' /\ reader'[r].at = "taken"
        /\ \A u \in Readers : u # r => reader'[u] = reader[u]
    BY <1>1, <1>3, GoIs DEF UartTyped
  <2> QED
    BY <1>1, <1>3, <2>1, TakeKeeps
<1> QED
  BY <1>2, <1>3 DEF Pend, Wait, FirstTake, At, semB_take

LEMMA ResumeKeeps ==
  ASSUME UartInv, Resume
  PROVE  UartInv'
<1>1. /\ Inv /\ current \in Task /\ ctx[current].call = "semB_take" /\ ctx[current] # Run
      /\ ctx \in [Task -> Contexts] /\ k.tcb[current].delay_ticks \in Nat
      /\ UNCHANGED <<semCVars, semMVars, msgQVars, rx, reader>>
  BY DEF UartInv, Inv, CurInv, CtxInv, KInv, ReadyInv, KernelState, OS_TCB,
         Resume, semB_wakeup, uartVars, Run
<1>2. current \in Readers /\ ctx[current] = InTake /\ reader[current].at \in {"drain", "again"}
  BY <1>1 DEF UartInv, ReadersInv, OnlyReadersCall, ComesBack
<1>3. UartTyped'
  BY <1>1 DEF UartInv, UartTyped
<1>4. CASE k.tcb[current].delay_ticks # 0
  <2>1. semB_again(RX_SEM, k.tcb[current].delay_ticks)
    BY <1>2, <1>4 DEF Resume, semB_wakeup, InTake
  <2>2. ~ Looks(current)
    BY <1>1 DEF Looks
  <2> QED
    BY <1>1, <1>2, <1>3, <2>1, <2>2, TakeKeeps
<1>5. CASE k.tcb[current].delay_ticks = 0
  <2>1. /\ ctx' = [ctx EXCEPT ![current] = Run]
        /\ UNCHANGED <<k, delayQ, current, semB, semB_list>>
    BY <1>5 DEF Resume, semB_wakeup
  <2>2. CtxInv(ctx', semB_list, semC_list, msgQ_list)
    BY <1>1, <2>1, CallerIs, CtxRun DEF Inv
  <2>3. Inv'
    BY <1>1, <2>1, <2>2 DEF Inv, ListsInv, semCVars, semMVars, msgQVars
  <2>4. ctx'[current] = Run /\ \A t \in Task : t # current => ctx'[t] = ctx[t]
    BY <1>1, <2>1
  <2>5. OnlyReadersCall' /\ ComesBack'
    BY <1>1, <2>4, UartAssumption DEF UartInv, ReadersInv, OnlyReadersCall, ComesBack
  <2>6. k.tcb[current].status = "READY"
    BY <1>1, CallerIs
  <2>7. PendsInTake'
    BY <2>1, <2>4, <2>6 DEF UartInv, ReadersInv, PendsInTake
  <2>8. Woken("semB_take", RX_SEM) \subseteq Woken("semB_take", RX_SEM)'
    BY <1>5, <2>1, <2>4 DEF Woken
  <2>9. GiveArrives'
    BY <2>1, <2>8 DEF UartInv, ReadersInv, GiveArrives
  <2>10. Looks(current)'
    BY <1>1, <1>2, <2>1, <2>4, <2>6 DEF Looks
  <2>11. DataIsSeen'
    BY <1>2, <2>1, <2>10 DEF DataIsSeen
  <2> QED
    BY <1>3, <2>3, <2>5, <2>7, <2>9, <2>11 DEF UartInv, ReadersInv
<1> QED
  BY <1>4, <1>5

LEMMA IsrKeeps ==
  ASSUME UartInv, uart_isr
  PROVE  UartInv'
<1> USE RxSemIs
<1>1. /\ Inv /\ OnlyReadersCall /\ PendsInTake /\ ComesBack /\ GiveArrives
      /\ UNCHANGED <<delayQ, current, ctx, semB_list, semCVars, semMVars, msgQVars, reader>>
      /\ rx' = [rx EXCEPT !.irq = FALSE] /\ rx \in [chars : Nat, due : BOOLEAN, irq : BOOLEAN]
  BY DEF UartInv, ReadersInv, UartTyped, uart_isr
<1>2. rx' \in [chars : Nat, due : BOOLEAN, irq : BOOLEAN] /\ rx'.chars = rx.chars
  BY <1>1
<1>3. UartTyped' /\ OnlyReadersCall' /\ ComesBack'
  BY <1>1, <1>2 DEF UartInv, UartTyped, OnlyReadersCall, ComesBack
<1>4. CASE ~ RxHasData
  <2>1. k' = k /\ semB' = semB /\ rx'.chars = 0
    BY <1>2, <1>4 DEF uart_isr, RxHasData
  <2>2. Inv'
    BY <1>1, <2>1 DEF Inv, ListsInv, semCVars, semMVars, msgQVars
  <2>3. PendsInTake' /\ GiveArrives' /\ DataIsSeen'
    BY <1>1, <2>1 DEF PendsInTake, GiveArrives, DataIsSeen, Woken
  <2> QED
    BY <1>3, <2>2, <2>3 DEF UartInv, ReadersInv
<1>5. CASE RxHasData
  <2> DEFINE l == semB[RX_SEM].wait_list
  <2>1. k' = wake_first(k, l) /\ semB' = semB_woken(RX_SEM)
    BY <1>5 DEF uart_isr, semB_woken
  <2>2. Inv'
    BY <1>1, <2>1, SemBWake
  <2>3. /\ semB \in [SemBs -> SEM_BIN] /\ ReadyInv(k, {}) /\ TicksLeft(k)
        /\ HoldsBut(k, l, "PEND_SEM_B", RX_SEM, {})
    BY <1>1 DEF Inv, KInv, BInv
  <2>4. semB'[RX_SEM].owner_tcb = NULL /\ semB'[RX_SEM].wait_list = rest(l)
    BY <2>1, <2>3 DEF semB_woken, SEM_BIN
  <2> HIDE DEF l
  <2>5. /\ Woke(k, k', {"PEND_SEM_B"}) /\ TicksKept(k, k', {})
        /\ HoldsBut(k', rest(l), "PEND_SEM_B", RX_SEM, {})
    BY <2>1, <2>3, WakeFirstKeeps
  <2>6. PendsInTake'
    BY <1>1, <2>5 DEF PendsInTake, Woke
  <2>7. ASSUME l # << >> PROVE Woken("semB_take", RX_SEM)' # {}
    <3> DEFINE u == DL_FIRST(l)
    <3>1. l \in Seq(Task) /\ NoDuplicates(l)
      BY <2>3 DEF HoldsBut
    <3>2. u \in Task /\ dlist_check(l, u) /\ ~ DL_EMPTY(l)
      BY <2>7, <3>1, RestMembers DEF DL_EMPTY
    <3>3. ~ dlist_check(rest(l), u)
      BY <3>1, <3>2, RestMembers DEF rest
    <3> HIDE DEF u
    <3>4. k.tcb[u].status = "PEND_SEM_B" /\ k.tcb[u].pend_obj = RX_SEM
      BY <2>3, <3>2 DEF HoldsBut
    <3>5. ~ (k'.tcb[u].status = "PEND_SEM_B" /\ k'.tcb[u].pend_obj = RX_SEM)
      BY <2>5, <3>2, <3>3 DEF HoldsBut
    <3>6. k'.tcb[u].status = "READY" /\ k'.tcb[u].delay_ticks = k.tcb[u].delay_ticks
      BY <2>5, <3>2, <3>4, <3>5 DEF Woke, TicksKept
    <3>7. k.tcb[u].delay_ticks \in Nat /\ k.tcb[u].delay_ticks > 0
      BY <2>3, <3>2, <3>4 DEF TicksLeft, ReadyInv, KernelState, OS_TCB
    <3>8. ctx'[u].call = "semB_take" /\ ctx'[u].obj = RX_SEM
      BY <1>1, <3>2, <3>4 DEF PendsInTake, InTake
    <3>9. k'.tcb[u].delay_ticks # 0
      BY <3>6, <3>7
    <3>10. u \in Woken("semB_take", RX_SEM)'
      BY <3>2, <3>6, <3>8, <3>9 DEF Woken
    <3> QED
      BY <3>10
  <2>8. l = << >> => rest(l) = << >>
    BY DEF rest, DL_EMPTY
  <2>9. GiveArrives' /\ DataIsSeen'
    BY <2>4, <2>7, <2>8 DEF GiveArrives, DataIsSeen
  <2> QED
    BY <1>3, <2>2, <2>6, <2>9 DEF UartInv, ReadersInv
<1> QED
  BY <1>4, <1>5

LEMMA UartTickKeeps ==
  ASSUME UartInv, Tick
  PROVE  UartInv'
<1> USE RxSemIs
<1>1. /\ Inv /\ OnlyReadersCall /\ PendsInTake /\ ComesBack /\ GiveArrives /\ DataIsSeen
      /\ tick_announce /\ rx' = rx /\ reader' = reader
  BY DEF UartInv, ReadersInv, Tick, uartVars
<1> DEFINE r == ticked
<1>2. /\ TimePassed(k, r.k) /\ BInv(r.k, r.semB, semB_list)
      /\ SameValues("PEND_SEM_B", semB, r.semB)
  BY <1>1, TickKeeps
<1>3. k' = r.k /\ semB' = r.semB /\ ctx' = ctx
  BY <1>1 DEF tick_announce
<1> HIDE DEF r
<1>4. Inv'
  BY <1>1, TickAnnounceKeeps
<1>5. TimePassed(k, k')
  BY <1>2, <1>3
<1>6. semB'[RX_SEM].owner_tcb = semB[RX_SEM].owner_tcb
  BY <1>2, <1>3 DEF SameValues
<1>7. UartTyped' /\ OnlyReadersCall' /\ ComesBack'
  BY <1>1, <1>3 DEF UartInv, UartTyped, OnlyReadersCall, ComesBack
<1>8. PendsInTake'
  BY <1>1, <1>3, <1>5 DEF PendsInTake, TimePassed
<1>9. semB'[RX_SEM].wait_list # << >> => semB[RX_SEM].wait_list # << >>
  <2> DEFINE l == semB[RX_SEM].wait_list
             m == semB'[RX_SEM].wait_list
  <2>1. HoldsBut(k, l, "PEND_SEM_B", RX_SEM, {}) /\ HoldsBut(k', m, "PEND_SEM_B", RX_SEM, {})
    BY <1>1, <1>4 DEF Inv, BInv
  <2> HIDE DEF l, m
  <2>2. SUFFICES ASSUME m # << >> PROVE l # << >>
    BY DEF l, m
  <2>3. m \in Seq(Task) /\ Len(m) \in Nat /\ Len(m) # 0
    BY <2>1, <2>2 DEF HoldsBut
  <2>4. m[1] \in Task /\ dlist_check(m, m[1])
    BY <2>3 DEF dlist_check
  <2>5. k'.tcb[m[1]].status = "PEND_SEM_B" /\ k'.tcb[m[1]].pend_obj = RX_SEM
    BY <2>1, <2>4 DEF HoldsBut
  <2>6. k.tcb[m[1]].status = "PEND_SEM_B" /\ k.tcb[m[1]].pend_obj = RX_SEM
    BY <1>5, <2>4, <2>5 DEF TimePassed
  <2>7. dlist_check(l, m[1])
    BY <2>1, <2>4, <2>6 DEF HoldsBut
  <2> QED
    BY <2>7 DEF dlist_check
<1>10. Woken("semB_take", RX_SEM) \subseteq Woken("semB_take", RX_SEM)'
  BY <1>3, <1>5 DEF Woken, TimePassed
<1>11. GiveArrives'
  BY <1>1, <1>6, <1>9, <1>10 DEF GiveArrives
<1>12. \A u \in Readers : Looks(u) => Looks(u)'
  BY <1>1, <1>3, <1>5, UartAssumption DEF Looks, TimePassed
<1>13. DataIsSeen'
  BY <1>1, <1>6, <1>12 DEF DataIsSeen
<1> QED
  BY <1>4, <1>7, <1>8, <1>11, <1>13 DEF UartInv, ReadersInv

-----------------------------------------------------------------------------
LEMMA UartStepKeeps == UartInv /\ [uartNext]_allVars => UartInv'
<1> SUFFICES ASSUME UartInv, [uartNext]_allVars PROVE UartInv'
  OBVIOUS
<1>1. CASE RxArrive
  BY <1>1, ArriveKeeps
<1>2. CASE RxRaise
  BY <1>2, RaiseKeeps
<1>3. CASE uart_isr
  BY <1>3, IsrKeeps
<1>4. CASE ReaderStep
  <2>1. ASSUME NEW r \in Readers, Call(r) \/ Drain(r) \/ FirstDone(r) \/ Again(r) \/ Read(r)
        PROVE  UartInv'
    BY <2>1, CallKeeps, DrainKeeps, FirstDoneKeeps, AgainKeeps, ReadKeeps
  <2>2. ASSUME NEW r \in Readers, Pend(r) \/ Wait(r) \/ FirstTake(r) PROVE UartInv'
    BY <2>2, PendKeepsIt
  <2>3. CASE Resume
    BY <2>3, ResumeKeeps
  <2> QED
    BY <1>4, <2>1, <2>2, <2>3 DEF ReaderStep
<1>5. CASE Tick
  BY <1>5, UartTickKeeps
<1>6. CASE UNCHANGED allVars
  <2>1. UNCHANGED kernelVars /\ rx' = rx /\ reader' = reader
    BY <1>6 DEF allVars, uartVars
  <2>2. /\ Inv' /\ k' = k /\ ctx' = ctx /\ semB' = semB
        /\ OnlyReadersCall' /\ PendsInTake' /\ GiveArrives'
    BY <2>1, KernelStays
  <2> QED
    BY <2>1, <2>2 DEF UartInv, UartTyped, ReadersInv, ComesBack, DataIsSeen, Looks
<1> QED
  BY <1>1, <1>2, <1>3, <1>4, <1>5, <1>6 DEF uartNext

\* While every reader waits for the semaphore, characters lie in the FIFO only
\* if an interrupt is still to come, whatever the interrupt handler, the clock
\* and the other readers did between the test of the FIFO and semB_take.
THEOREM NoReaderSleeps == uartSpec => []NoReaderSleepsOnData
<1>1. uartInit => UartInv
  BY UartInitHolds
<1>2. UartInv /\ [uartNext]_allVars => UartInv'
  BY UartStepKeeps
<1>3. UartInv => NoReaderSleepsOnData
  BY UartInvImplies
<1> QED
  BY <1>1, <1>2, <1>3, PTL DEF uartSpec
=============================================================================
