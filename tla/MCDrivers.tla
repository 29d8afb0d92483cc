----------------------------- MODULE MCDrivers -----------------------------
(***************************************************************************)
(* Two groups of tasks around a queue, for TLC: the readers of the serial  *)
(* line over the kernel (Uart), and the tasks of tetris around job_queue   *)
(* (TetrisTasks).  They share no state; a behaviour is one of one of them, *)
(* chosen by part, and the other keeps its initial state.                  *)
(***************************************************************************)
EXTENDS Uart, TetrisTasks

LOCAL INSTANCE SequencesExt

VARIABLE part

mcVars == <<allVars, tasksVars, part>>

mcInit ==
  /\ part \in {"uart", "tetris"}
  /\ uartInit /\ tasksInit
  /\ part = "tetris" =>
       k = CHOOSE s \in {start(pri, order) : pri \in [StartTasks -> UserPri],
                                             order \in SetToSeqs(StartTasks)} : TRUE

UartStep   == part = "uart" /\ uartNext /\ UNCHANGED tasksVars
TetrisStep == part = "tetris" /\ tasksNext /\ UNCHANGED allVars

mcNext == (UartStep \/ TetrisStep) /\ UNCHANGED part

\* uartFairness or tasksFairness, each for its own behaviours.
mcFairness ==
  LET U == part = "uart"
      T == part = "tetris"
  IN  /\ WF_allVars(U /\ RxRaise) /\ SF_allVars(U /\ uart_isr) /\ WF_allVars(U /\ ReaderStep)
      /\ []<>(U /\ TickMatters) => []<><<U /\ Tick>>_allVars
      /\ WF_tasksVars(T /\ (Quit \/ PlayerAstray)) /\ WF_tasksVars(T /\ DownStep)
      /\ WF_tasksVars(T /\ JobStep) /\ SF_tasksVars(T /\ Clock)

mcSpec == mcInit /\ [][mcNext]_mcVars /\ mcFairness
=============================================================================
