------------------------------ MODULE TetrisTasks -----------------------------
(***************************************************************************)
(* The tasks of tetris around job_queue (tetris/src/tetris.c, bridge.c,    *)
(* os.c): the player in Russian_main, down_task, job_task and auto_task.   *)
(* Tetris models what the messages do to the board; here a block moves,    *)
(* lands or ends the game.                                                 *)
(*                                                                         *)
(* One step of the clock is 50 ms.  job_task empties its queue faster than *)
(* that.  The player has priority 0, job_task and down_task have 100 and   *)
(* auto_task 111: it runs while job_task waits for a message, and it goes  *)
(* on when its own message makes job_task ready, for msgQ_send does not    *)
(* switch; the next tick does.                                             *)
(***************************************************************************)
EXTENDS Integers, Sequences

CONSTANTS
  JOB_QUEUE_MAX,
  STEPS,         \* the TURN, LEFT and RIGHT steps that find_steps finds
  DOWN_PERIOD,   \* 1000 / BLOCK_SPEED ms
  QUIT_PERIOD    \* SYS_CLK_RATE / 10 ticks

ASSUME TetrisTasksAssumption == STEPS \in Nat

VARIABLES
  queue,    \* job_queue: messages, and whom they are of: "task", or auto_task, for
            \* the "block" that falls or for one that is "gone"
  job,      \* job_task: "runs", or how far it is in quit (): "quits", then the queue is
            \* "deleted", job_queue is "null", Tetris_ID is "freed"
  hold_on,
  top,      \* the block is new and has not moved down
  in_auto,  \* in_auto_mode
  auto,     \* auto_task: "none", "new", or "posts" what is left of its steps; gone: they
            \* are for a block that is gone
  off,      \* in_auto_mode was switched off since auto_task was created
  burst,    \* auto_task has the processor since its last message
  player,   \* "plays", "quits" (the second loop), "gone" (Bridge_ID is freed) or "astray"
  down,     \* down_task: "runs", "sends" (it has read job_queue), "over" or "astray"
  sleep     \* the steps of the clock that the player and down_task still sleep

tasksVars == <<queue, job, hold_on, top, in_auto, auto, off, burst, player, down, sleep>>
boardVars == <<hold_on, top, in_auto, auto, off>>

Posted(m) == [msg |-> m, of |-> "task"]

NoAuto  == [task |-> "none", left |-> 0, gone |-> FALSE]
NewAuto == [task |-> "new", left |-> STEPS, gone |-> FALSE]

\* os_msgQ_send returns 0 for a full queue, too.
Sent(q, m) == IF Len(q) < JOB_QUEUE_MAX THEN Append(q, m) ELSE q

\* What rb_send_msg finds in job_queue: the queue, NULL (SEND_GAME_OVER), or a pointer
\* to no queue, when quit () has deleted it and not yet written NULL.  Once
\* Tetris_ID is freed it is what the memory holds, the NULL or something newer.
Alive == job \in {"runs", "quits"}
Over  == job \in {"null", "freed"}
Wild  == job \in {"deleted", "freed"}

tasksInit ==
  /\ queue = << >>
  /\ job = "runs" /\ hold_on = FALSE /\ top = TRUE
  /\ in_auto = FALSE /\ auto = NoAuto /\ off = FALSE /\ burst = FALSE
  /\ player = "plays" /\ down = "runs"
  /\ sleep = [player |-> 0, down |-> 0]

-----------------------------------------------------------------------------
(* The player: Russian_main.  With priority 0 it is not preempted between  *)
(* the read of job_queue and the send.                                     *)

\* A key; KEY_DOWN sends two messages.
Key(m) ==
  /\ player = "plays" /\ Alive
  /\ queue' = IF m = "DOWN" THEN Sent(Sent(queue, Posted(m)), Posted(m)) ELSE Sent(queue, Posted(m))
  /\ player' = IF m = "QUIT" THEN "quits" ELSE "plays"
  /\ burst' = FALSE
  /\ UNCHANGED <<job, boardVars, down, sleep>>

\* The key after which rb_send_msg says that the game is over.
KeyOver ==
  /\ player = "plays" /\ Over
  /\ player' = "quits"
  /\ UNCHANGED <<queue, job, boardVars, burst, down, sleep>>

\* A key or a QUIT that is sent to what is no queue.
PlayerAstray ==
  /\ player = "plays" \/ (player = "quits" /\ sleep.player = 0)
  /\ Wild
  /\ player' = "astray"
  /\ UNCHANGED <<queue, job, boardVars, burst, down, sleep>>

\* Mutant: the loop waits without sending.
Quit_silent ==
  /\ player = "quits" /\ Over
  /\ player' = "gone"
  /\ UNCHANGED <<queue, job, boardVars, burst, down, sleep>>

\* Mutant: a full queue ends the loop.
Quit_full ==
  /\ player = "quits" /\ sleep.player = 0
  /\ \/ /\ Over \/ Len(queue) = JOB_QUEUE_MAX
        /\ player' = "gone" /\ UNCHANGED <<queue, burst, sleep>>
     \/ /\ Alive
        /\ queue' = Sent(queue, Posted("QUIT")) /\ burst' = FALSE
        /\ sleep' = [sleep EXCEPT !.player = QUIT_PERIOD]
        /\ UNCHANGED player
  /\ UNCHANGED <<job, boardVars, down>>

\* "wait tetris moudle is over": QUIT is sent again until it is.
Quit ==
  /\ player = "quits" /\ sleep.player = 0
  /\ \/ Over /\ player' = "gone" /\ UNCHANGED <<queue, burst, sleep>>
     \/ /\ Alive
        /\ queue' = Sent(queue, Posted("QUIT")) /\ burst' = FALSE
        /\ sleep' = [sleep EXCEPT !.player = QUIT_PERIOD]
        /\ UNCHANGED player
  /\ UNCHANGED <<job, boardVars, down>>

-----------------------------------------------------------------------------

\* down_task reads job_queue; job_task, its equal, may run before it sends.
down_task ==
  /\ down = "runs" /\ sleep.down = 0
  /\ \/ job \in {"runs", "quits", "deleted"} /\ down' = "sends"
     \/ Over /\ down' = "over"
     \/ job = "freed" /\ down' = "astray"
  /\ burst' = FALSE
  /\ UNCHANGED <<queue, job, boardVars, player, sleep>>

DownSends ==
  /\ down = "sends"
  /\ IF Alive
     THEN /\ queue' = Sent(queue, Posted("DOWN"))
          /\ down' = "runs" /\ sleep' = [sleep EXCEPT !.down = DOWN_PERIOD]
     ELSE down' = "astray" /\ UNCHANGED <<queue, sleep>>
  /\ burst' = FALSE
  /\ UNCHANGED <<job, boardVars, player>>

Gone(q) == [i \in 1 .. Len(q) |-> IF q[i].of = "block" THEN [q[i] EXCEPT !.of = "gone"]
                                                       ELSE q[i]]

\* The queue is flushed, or, in auto mode, it is kept and auto_task begins anew, if a
\* task can be created.  Otherwise an auto_task that still runs is left alone.
new_block(q) ==
  /\ top' = TRUE
  /\ queue' = IF in_auto THEN Gone(q) ELSE << >>
  /\ IF in_auto
     THEN auto' \in {NewAuto, NoAuto} /\ off' = FALSE
     ELSE auto' = [auto EXCEPT !.gone = (auto.task = "posts")] /\ UNCHANGED off

\* quit, up to the deletion of the queue: the maps and auto_task are gone.
quit(q) == job' = "quits" /\ queue' = q /\ auto' = NoAuto /\ UNCHANGED <<top, off>>

\* job_task: the first message.
Receive(m) ==
  /\ job = "runs" /\ queue # << >> /\ Head(queue).msg = m
  /\ burst' = FALSE
  /\ UNCHANGED <<player, down, sleep>>

JobMove == Receive("MOVE") /\ queue' = Tail(queue) /\ UNCHANGED <<job, boardVars>>

JobHeld ==
  /\ hold_on /\ \E m \in {"DOWN", "BOTTOM"} : Receive(m)
  /\ queue' = Tail(queue)
  /\ UNCHANGED <<job, boardVars>>

\* down and bottom: a block lands only when it has left the top, and the game is
\* over only when it has not.
JobDown ==
  /\ ~ hold_on
  /\ \/ /\ Receive("DOWN")
        /\ queue' = Tail(queue) /\ top' = FALSE
        /\ UNCHANGED <<job, auto, off>>
     \/ /\ (~ top /\ Receive("DOWN")) \/ Receive("BOTTOM")
        /\ new_block(Tail(queue))
        /\ UNCHANGED job
     \/ /\ top /\ \E m \in {"DOWN", "BOTTOM"} : Receive(m)
        /\ quit(Tail(queue))
  /\ UNCHANGED <<hold_on, in_auto>>

JobAuto ==
  /\ Receive("AUTO")
  /\ queue' = Tail(queue)
  /\ in_auto' = ~ in_auto
  /\ off' = (off \/ in_auto)
  /\ UNCHANGED <<job, hold_on, top, auto>>

JobHold ==
  /\ Receive("HOLD")
  /\ queue' = Tail(queue)
  /\ hold_on' = ~ hold_on
  /\ UNCHANGED <<job, top, in_auto, auto, off>>

JobQuit == Receive("QUIT") /\ quit(Tail(queue)) /\ UNCHANGED <<hold_on, in_auto>>

\* The end of quit, which the senders may run into: os_msgQ_delete, job_queue = NULL,
\* free (Tetris_ID).
QuitStep ==
  /\ \/ job = "quits" /\ job' = "deleted" /\ queue' = << >>
     \/ job = "deleted" /\ job' = "null" /\ UNCHANGED queue
     \/ job = "null" /\ job' = "freed" /\ UNCHANGED queue
  /\ UNCHANGED <<boardVars, burst, player, down, sleep>>

\* Mutant: auto_task has as much priority as they.
OthersWait_not == TRUE

\* The tasks that have more priority than auto_task wait, or are ready by its own
\* message since it got the processor.
OthersWait ==
  /\ queue = << >> \/ burst
  /\ player = "quits" => sleep.player > 0
  /\ down # "sends" /\ (down = "runs" => sleep.down > 0)

\* auto_task copies the map and the block, posts the steps to that block, BOTTOM last,
\* and is over.
auto_task ==
  /\ OthersWait
  /\ \/ /\ auto.task = "new"
        /\ auto' = [auto EXCEPT !.task = "posts"]
        /\ UNCHANGED <<queue, burst>>
     \/ /\ auto.task = "posts"
        /\ queue' = Sent(queue, [msg |-> IF auto.left > 0 THEN "MOVE" ELSE "BOTTOM",
                                  of  |-> IF auto.gone THEN "gone" ELSE "block"])
        /\ auto' = IF auto.left > 0 THEN [auto EXCEPT !.left = @ - 1] ELSE NoAuto
        /\ burst' = TRUE
  /\ UNCHANGED <<job, hold_on, top, in_auto, off, player, down, sleep>>

Clock ==
  /\ queue = << >> /\ job \in {"runs", "freed"}
  /\ player = "quits" => sleep.player > 0
  /\ down # "sends" /\ (down = "runs" => sleep.down > 0)
  /\ sleep' = [player |-> IF sleep.player > 0 THEN sleep.player - 1 ELSE 0,
               down   |-> IF sleep.down > 0 THEN sleep.down - 1 ELSE 0]
  /\ sleep' # sleep
  /\ UNCHANGED <<queue, job, boardVars, burst, player, down>>

\* job_task runs whenever it has a message; the keys need not come.
JobStep == JobMove \/ JobHeld \/ JobDown \/ JobAuto \/ JobHold \/ JobQuit \/ QuitStep
DownStep == down_task \/ DownSends

tasksNext ==
  \/ \E m \in {"DOWN", "BOTTOM", "MOVE", "AUTO", "HOLD", "QUIT"} : Key(m)
  \/ KeyOver \/ PlayerAstray \/ Quit \/ DownStep \/ JobStep \/ auto_task \/ Clock

\* The tasks that are ready get the processor, and the timer ticks.
tasksFairness ==
  /\ WF_tasksVars(Quit \/ PlayerAstray) /\ WF_tasksVars(DownStep)
  /\ WF_tasksVars(JobStep) /\ SF_tasksVars(Clock)

tasksSpec == tasksInit /\ [][tasksNext]_tasksVars /\ tasksFairness

-----------------------------------------------------------------------------

\* The steps that auto_task found are applied to the block it found them for: in auto
\* mode new_block does not flush the queue, but auto_task posts only behind messages
\* of its own, and a block that lands on the way deletes it.  The exception is an
\* auto_task that was running when the player switched the mode off: nobody deletes
\* it, and the rest of its steps moves and lands the next block.
StepsAreForThisBlock ==
  \A i \in 1 .. Len(queue) : queue[i].of = "gone" => off

\* Russian_main frees Bridge_ID only when job_task, which draws with it, has left its
\* loop: "to avoid it use Bridge module control struct after below free".
BridgeOutlivesJob == player = "gone" => ~ Alive

\* After Esc the game ends: QUIT may be lost, in a full queue or when a landing block
\* flushes the queue, but it is sent again, job_task frees everything, and down_task
\* and Russian_main end, unless they have sent to what is no queue any more.
GameEnds ==
  (player = "quits") ~> (/\ job = "freed" /\ player \in {"gone", "astray"}
                         /\ down \in {"over", "astray"})
=============================================================================
