--------------------------------- MODULE Uart ---------------------------------
(***************************************************************************)
(* bsp/uart.c and the receiving half of serial.c over the kernel: the      *)
(* receive FIFO of the UART, its interrupt, and the tasks that read the    *)
(* line with serial_getc (the shell) or serial_read (vi and the games).    *)
(* The interrupt handler does not switch tasks (irq_handler): a reader     *)
(* that it wakes runs when the next call or tick switches.                 *)
(***************************************************************************)
EXTENDS KernelProps

CONSTANTS
  Readers,       \* the tasks that read the line
  RX_SEM,        \* _G_p_rx_semB
  RX_FIFO_SIZE,  \* 64 in the S3C6410
  READ_MAX,      \* the buffer size that serial_read is called with
  MaxChars       \* bound: the characters that arrive

ASSUME UartAssumption ==
  /\ Readers \subseteq Task \ {IDLE} /\ Readers # {}
  /\ RX_SEM \in SemBs \ Later
  /\ RX_FIFO_SIZE \in Nat \ {0} /\ READ_MAX \in Nat \ {0} /\ MaxChars \in Nat

VARIABLES
  rx,      \* chars: in the FIFO; due: one arrived and no interrupt yet;
           \* irq: the RXD bit of rUINTP
  sent,    \* the characters that have arrived
  iTake,   \* the static of uart_getc
  reader   \* of every reader: at, the statement that comes next, and left,
           \* what remains of max in serial_read; -1 outside serial_read

uartVars == <<rx, sent, iTake, reader>>
allVars  == <<kernelVars, uartVars>>

uartInit ==
  /\ Init
  /\ rx = [chars |-> 0, due |-> FALSE, irq |-> FALSE]
  /\ sent = 0
  /\ iTake = 0
  /\ reader = [r \in Readers |-> [at |-> "out", left |-> -1]]

-----------------------------------------------------------------------------
(* The hardware.  A character that finds the FIFO full is lost; the        *)
(* time-out of the receiver raises the interrupt some time after the last  *)
(* character, unless the FIFO has been read empty by then.                 *)

RxArrive ==
  /\ sent < MaxChars
  /\ sent' = sent + 1
  /\ rx' = IF rx.chars < RX_FIFO_SIZE
           THEN [rx EXCEPT !.chars = @ + 1, !.due = TRUE] ELSE rx
  /\ UNCHANGED <<kernelVars, iTake, reader>>

RxRaise ==
  /\ rx.due /\ rx.chars # 0
  /\ rx' = [rx EXCEPT !.due = FALSE, !.irq = TRUE]
  /\ UNCHANGED <<kernelVars, sent, iTake, reader>>

\* Mutant: the signal is given at the trigger level of the FIFO only.
RxHasData_level == rx.chars = RX_FIFO_SIZE

\* rUFSTAT & 0x3f
RxHasData == rx.chars # 0

\* _int_handler_c calls _uart_isr: semB_give, then the bit of rUINTP is cleared.
uart_isr ==
  /\ IrqEnabled /\ rx.irq
  /\ rx' = [rx EXCEPT !.irq = FALSE]
  /\ IF RxHasData
     THEN /\ k' = wake_first(k, semB[RX_SEM].wait_list)
          /\ semB' = [semB EXCEPT ![RX_SEM].owner_tcb = NULL,
                                  ![RX_SEM].wait_list = rest(@)]
     ELSE UNCHANGED <<k, semB>>
  /\ UNCHANGED <<delayQ, current, ctx, semB_list, semCVars, semMVars, msgQVars,
                 sent, iTake, reader>>

-----------------------------------------------------------------------------
(* The readers.  Each statement that touches the FIFO, iTake or the        *)
(* semaphore is a step of the running task.                                *)

At(r, a) == current = r /\ Running /\ reader[r].at = a

Go(r, a) == reader' = [reader EXCEPT ![r].at = a]

Quiet == UNCHANGED <<kernelVars, rx, sent>>

OtherObjects == UNCHANGED <<semCVars, semMVars, msgQVars, rx, sent>>

\* A caller of serial_getc, or of serial_read: the test of serial_tstc there.
Call(r) ==
  /\ At(r, "out")
  /\ \/ Go(r, "getc")
     \/ reader' = [reader EXCEPT ![r] =
                     [at |-> IF RxHasData THEN "drain" ELSE "pend", left |-> READ_MAX]]
  /\ Quiet /\ UNCHANGED iTake

\* uart_pend (WAIT_FOREVER)
Pend(r) ==
  /\ At(r, "pend")
  /\ semB_take(RX_SEM, WAIT_FOREVER)
  /\ Go(r, "drain")
  /\ OtherObjects /\ UNCHANGED iTake

\* while ((uart_tstc() != 0) && (max-- != 0))
Drain(r) ==
  /\ At(r, "drain")
  /\ reader' = [reader EXCEPT ![r] =
                  IF RxHasData /\ reader[r].left # 0
                  THEN [at |-> "getc", left |-> @.left - 1]
                  ELSE [at |-> "out", left |-> -1]]
  /\ Quiet /\ UNCHANGED iTake

\* uart_getc: the first call takes what the semaphore was created with.
FirstTake(r) ==
  /\ At(r, "getc") /\ iTake = 0
  /\ semB_take(RX_SEM, 0)
  /\ Go(r, "taken")
  /\ OtherObjects /\ UNCHANGED iTake

FirstDone(r) ==
  /\ At(r, "taken")
  /\ iTake' = 1
  /\ Go(r, "again")
  /\ Quiet

\* Mutant: the reader waits without a look at the FIFO.
Again_blind(r) ==
  /\ At(r, "again") \/ (At(r, "getc") /\ iTake # 0)
  /\ Go(r, "wait")
  /\ Quiet /\ UNCHANGED iTake

\* From the label "again": the test of the FIFO.
Again(r) ==
  /\ At(r, "again") \/ (At(r, "getc") /\ iTake # 0)
  /\ Go(r, IF RxHasData THEN "read" ELSE "wait")
  /\ Quiet /\ UNCHANGED iTake

Wait(r) ==
  /\ At(r, "wait")
  /\ semB_take(RX_SEM, WAIT_FOREVER)
  /\ Go(r, "again")
  /\ OtherObjects /\ UNCHANGED iTake

\* RdURXH: another reader may have emptied the FIFO since the test; the value
\* that is read then is not a character.
Read(r) ==
  /\ At(r, "read")
  /\ rx' = [rx EXCEPT !.chars = IF @ = 0 THEN 0 ELSE @ - 1]
  /\ Go(r, IF reader[r].left = -1 THEN "out" ELSE "drain")
  /\ UNCHANGED <<kernelVars, sent, iTake>>

\* A reader goes on in semB_take.
Resume == semB_wakeup /\ UNCHANGED <<semCVars, semMVars, msgQVars, uartVars>>

Tick == tick_announce /\ UNCHANGED uartVars

ReaderStep ==
  \/ \E r \in Readers : \/ Call(r) \/ Pend(r) \/ Drain(r) \/ FirstTake(r)
                        \/ FirstDone(r) \/ Again(r) \/ Wait(r) \/ Read(r)
  \/ Resume

uartNext == RxArrive \/ RxRaise \/ uart_isr \/ ReaderStep \/ Tick

\* The hardware raises the interrupt, which is taken when it is not masked; the
\* timer ticks; the processor executes the running task, and the readers always
\* read again.
uartFairness ==
  /\ WF_allVars(RxRaise) /\ SF_allVars(uart_isr) /\ WF_allVars(ReaderStep)
  /\ []<>TickMatters => []<><<Tick>>_allVars

uartSpec == uartInit /\ [][uartNext]_allVars /\ uartFairness

-----------------------------------------------------------------------------
Asleep(r) == k.tcb[r].status = "PEND_SEM_B"

\* No wake-up is lost: characters lie in the FIFO while every reader waits for
\* the semaphore only if an interrupt is still to come.  The test of the FIFO and
\* semB_take in uart_getc are two steps, and one semB_give may stand for several
\* characters.
NoReaderSleepsOnData ==
  (rx.chars # 0 /\ \A r \in Readers : Asleep(r)) => rx.due \/ rx.irq

\* Every character that reaches the FIFO is read.
CharsAreRead == rx.chars # 0 ~> rx.chars = 0
=============================================================================
