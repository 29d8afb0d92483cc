# DfewOS: a TLA+ model of the kernel and its programs

DfewOS is a small real-time kernel for one ARM processor (S3C6410), with device
drivers, a shell and applications around it.  This directory models the kernel's
own logic: the ready queue, the scheduler and the delay queue, binary and
counting semaphores, mutexes with priority inheritance, message queues, the
creation and deletion of tasks, the timer tick, the linked lists below them, the
heap, the memory of tasks and the fifo; the serial line over the kernel; and
programs above it: the shell, the I/O system, the clock, the calculator and three
games.

`PROJECT.json` lists the components, the runs, the source lines behind each
definition, the hazards and the theorems.  Line numbers below refer to `src/`.

## 1. Inventory

| component | source | state | operations |
|---|---|---|---|
| linked lists | dlist.c | head and tail of a list, previous and next of a node | insert, add, remove, get, count, check, each |
| ready queue | readyQ.c | a list for each priority, two levels of bit maps, the highest task | init, put, remove |
| tasks | task.c | control blocks and their bit map, stack pages and their bit map | create, delete, end of the entry function, show |
| scheduler | bsp/scheduler.S, utils.S | `G_p_current_tcb`, the saved contexts | CONTEXT_SWITCH, CPU_LOCK, CPU_UNLOCK |
| delay queue | delayQ.c | the list of delayed tasks | delay, decrease, remove |
| tick | tick.c, bsp/timer_asm.S | the tick counter | tick_announce |
| binary semaphores | semB.c | owner, wait list, list of all semaphores | init, take, give, flush, delete, remove, decrease |
| counting semaphores | semC.c | count, wait list, list of all | the same |
| mutexes | semM.c | owner, nesting count, highest waiting priority, sorted wait list, list of all | init, take, give, free, remove, decrease |
| message queues | msgQ.c | messages, their number, two wait lists, list of all | init, send, receive, delete, remove, decrease |
| heap | memH.c | a chain of block heads, counters | init, malloc, calloc, free, realloc, show |
| fifo | fifo.c | in, out, a ring of slots | create, put, get, head, is_empty, is_full, delete |
| atomic operations | atomic.c | none | each one a critical section around an assignment |
| interrupts | bsp/int.c | a table of handlers, mask registers | connect, enable, disable |
| serial line | bsp/uart.c, serial.c | the receive FIFO, two semaphores | getc, read, tstc, pend, putc, the interrupt |
| shell, commands | shell.c, cmd.c | line, completion, history list, command list | edit, complete, recall, run |
| I/O system | ios/ | driver, device and descriptor tables | install, add, create, open, read, write, close |
| clock | date/timeLib.c | base time, the tick at which it was set | set, get, set an element |
| calculator | calculator/ | none across calls | parse, evaluate |
| lianliankan | lianliankan/src/ | board, cursor, mark, level, time, a timer task | move, mark, help, exit, count the time |
| tetris | tetris/src/ | maps of nodes and colors, block, score, message queue, four tasks | move, turn, fall, land, auto, hold, quit |
| five in a row | wuzi/, gui/app/gui_wuzi.c | board, counters of lines, mode, turn | press, answer, restart |
| the rest | string, nongli, wtd, gui, vi, net, media, nand_mtd_yaffs | | drivers, drawing and vendored code |

**How they interact.**  Everything is a direct call on one processor.  A task
changes kernel state with interrupts masked (CPU_LOCK ... CPU_UNLOCK).  A call
that blocks moves the running task from the ready queue to a wait list and calls
CONTEXT_SWITCH inside the critical section; it goes on, still masked, when the
task is loaded again, and looks at `delay_ticks` to find out who woke it.  The
timer interrupt calls tick_announce, which walks the wait lists of all objects
and the delay queue, wakes the tasks whose time is over and puts the running task
behind its equals.  task_delete takes a task out of whatever list its `status`
and `pend_obj` name.  The give of a semaphore and a send wake a task and do not
switch; a give of a mutex switches only when the giver's priority drops.  A task that ends or
is deleted while it owns a mutex stays the owner, and its control block keeps the
status it had.  The
interrupt of the serial line gives a semaphore that uart_getc takes when the FIFO
is empty; the shell and the games read through it.  The shell calls a command as a
function, so that a game runs in the task of the shell, with priority 0, and makes
tasks of lower priority.  The programs of a window are called back by the
graphics task.

**What is hard.**  A woken task runs later: what it was woken for may be gone, so
it queues again with the ticks it has left.  The same wait list is changed by
takers, givers, the tick and task_delete.  Priorities change while tasks are
linked in lists that are indexed or sorted by priority.  Raises run through
chains of owners.  dlist_each reads the next pointer after the routine moved the
node.  The deletes of semaphores, task_create, realloc, open, close and timeSet have
several critical sections.  A raise may meet the block of a task that is gone.
Counters are unsigned and wrap.  A reader tests the FIFO
and takes the semaphore in two steps.  The tasks of a game share variables without
a lock, messages are dropped by a full queue and by a flush, and the queue and the
structure that names it are freed while other tasks still read them.

**What makes each component correct.**

- Lists: next and previous agree, and the operations are those on sequences.
- Ready queue: bit maps agree with the lists, a ready task is linked once, in the
  list of its priority, and `highest_tcb` is the first task of the first
  non-empty list.
- Scheduler, tasks, tick: each task is in exactly the list its status names; the
  running task and the idle task are ready; a wait with a time-out ends; equals
  take turns.
- Semaphores, message queues: no unit, message or place is left unused while a
  task waits for it; the counts are right.
- Mutexes: the task that is told it has the mutex has it; the owner is as
  important as its waiters, and no longer so when it has given everything back.
- Heap: blocks tile the heap, free neighbours are merged, no block is handed out
  twice, none is lost, the counters are right.
- Task memory: stacks are disjoint, no page and no control block is lost.
- Fifo: a queue of `max_num` elements.
- Serial line: no reader sleeps on data; every character is read.
- Shell: what is run is what the screen shows; the history is the last lines.
- I/O system: a descriptor belongs to one open file.
- Clock: the time that was set and the ticks since then.  Calculator: precedence.
- Games: the redundant state (two maps, counters, the number of blocks, the cursor)
  agrees; the rules hold; the tasks end.

## 2. Modules

| module | models | uses |
|---|---|---|
| `ListSeq` | dlist.c on sequences, as the kernel sees it | |
| `DList` | dlist.c with its pointers, and dlist_each with a routine that may move the node | refines `SeqLists` |
| `SeqLists` | abstract: lists as sequences | `ListSeq` |
| `ReadyQ` | readyQ.c, LSB, the fields of OS_TCB | `ListSeq` |
| `ReadyQSpec` | the ready queue under all sequences of calls | `ReadyQ` |
| `PrioQueue` | abstract: a priority queue, refined by `ReadyQSpec` | |
| `ReadyQLemmas` | proofs: natural numbers, lists, readyQ_put and readyQ_remove | `ReadyQ` |
| `ReadyQProofs` | proofs about `ReadyQSpec` | `ReadyQLemmas` |
| `Sched` | the running task, delayQ.c, the walk of a tick, what blocking calls share | `ReadyQ` |
| `SemB`, `SemC`, `SemM`, `MsgQ` | semB.c, semC.c, semM.c, msgQ.c | `Sched` |
| `Kernel` | task.c, tick.c, main(): all of the above composed | the four |
| `KernelProps` | the properties and the fairness of the kernel | `Kernel` |
| `KernelLemmas` | proofs: the inductive invariant of the kernel in parts, and what each piece of a kernel call keeps of it | `KernelProps`, `ReadyQLemmas` |
| `KernelProofs` | proofs about `Kernel`: every action keeps the invariant | `KernelLemmas` |
| `WaitProofs` | proofs about the mutexes and the wake-ups of `Kernel` | `KernelProofs` |
| `MemH` | memH.c | |
| `TaskMem` | control blocks and stack pages of task.c | |
| `MemoryProofs` | proofs about `TaskMem`, `MemH` and `DList` | the three |
| `Fifo`, `BoundedQueue` | fifo.c and the queue it promises | |
| `Uart` | bsp/uart.c and the reading half of serial.c, over the kernel | `KernelProps` |
| `UartProofs` | proofs about `Uart` | `Uart`, `KernelProofs` |
| `Shell` | shell.c, cmd.c | |
| `Ios` | ios/lib/, the two drivers | |
| `TimeLib` | date/timeLib.c | |
| `Calculator` | the parser of calculator.c | |
| `Lian` | lianliankan/src/lian.c and bridge.c | |
| `Tetris` | the board of tetris/src/tetris.c | |
| `TetrisTasks` | the tasks of tetris around their queue | |
| `Wuzi` | wuzi/wuzi.c and the callbacks of gui_wuzi.c | |
| `ProgramProofs` | proofs about `Fifo`, `Ios`, `TetrisTasks`, `Shell`, `Lian`, `Wuzi` and `TimeLib` | the seven, `BoundedQueue` |
| `MCKernel`, `MCStructures`, `MCDrivers`, `MCApps` | instances for TLC | |

`MCStructures`, `MCDrivers` and `MCApps` put modules that share no state side by side:
a variable (`part`, `app`) is chosen in the initial state, a behaviour is one of the
chosen module, and the others keep their initial state.  The actions and the
properties are those of the modules; modules that theorems are about are extended, the
others instantiated.

**State.**  `k` is the record of G_readyQ and the control blocks: the functions
of readyQ.c map a `k` to a `k`, so a handler that calls several of them is a
composition, and one step.  `current` is G_p_current_tcb.  `ctx[t]` is where t
goes on when it is loaded: `Run` (its own code, interrupts enabled), a blocking
call that is cut by CONTEXT_SWITCH, or a delete between its two critical
sections.  A control block without a task has the status FREE in the model; the code
has no such status, and leaves the block as it was.  What the block still says is its
field `left` (and `pend_obj`, which nothing clears): `status_of` is the status the code
reads there, and `_up_owner_pri` is the one function that does.  `semB`, `semC`, `semM`,
`msgQ` are the objects, `..._list` the lists that a tick walks.

**Steps.**  A critical section is one action.  A blocking call is two: the part
up to CONTEXT_SWITCH, and a `..._wakeup` action that is enabled when the task is
the running one.  `tick_announce` is enabled while interrupts are: not in between
those two parts.  Tasks call anything in any order; they use objects that are
initialised, give the mutexes they own (semM_give does not check that), and the
idle task calls nothing.

In the programs a step is what nothing can interrupt with an effect on the state
that is modelled.  In `Uart` that is each statement that touches the FIFO, `iTake` or
the semaphore, with interrupts and ticks in between.  In `Ios` it is a
critical section of IOS_LOCK or a call of a driver.  In `TimeLib` it is the store of the base
under the mutex, the load of the tick and its store, and the two loads of timeGet, in
either order.  In `Lian` the player's task has priority 0 and its delays are busy loops,
so each key is one step; `_G_time--` of the timer task, of priority 200, is a load and a
store.  In `TetrisTasks` it is a message sent or received; down_task reads `job_queue` in
one step and sends in another, and quit () deletes the queue, writes NULL into
`job_queue` and frees `Tetris_ID` in three.  auto_task posts its messages one after the
other, because msgQ_send does not switch, and at any of them it may lose the processor
to job_task.  In `Tetris` a step is a message, in `Wuzi` a press, in `Shell` a key.

**What is abstracted.**  Message contents are model values.  Malloc of objects and
nodes succeeds (the heap is a module of its own).  `_alloc_tcb` in `Kernel` takes
any free control block; `TaskMem` has the bit map and the stacks.  The owner of a
binary semaphore is kept though no guard reads more than whether it is NULL.  A
ready queue with N priorities in words of `GROUP` bits stands for 256 in words
of 32.  The walk of a tick (`each_tick`) is one function whose result is what
dlist_each does to the list; `DList` justifies it pointer by pointer
(`WalkEndsAtFirstMove`).  The recursion of `_up_owner_pri` is its body
(`up_owner_pri`) applied `MaxCalls` times (`raised`): a call that goes on has raised an
owner, so there are no more calls than tasks, and one that does not go on is the
identity.

**Where the models end.**  Two places follow the code up to a step that works on freed
memory, and stop there:

- A task in semM_take calls `_up_owner_pri` for a mutex whose owner is gone.  If the dead
  block says READY, semM.c:371-374 unlinks it from a ready list it is not in and links
  it: the priority and the link are modelled, what its stale pointers do to the lists is
  not.  If it says PEND_SEM_M, the call goes on to the mutex of its stale `pend_obj`, and
  that one may have no owner by now.  Both are `Astray`: the task stays in the call,
  nothing else happens, and the properties and theorems of the kernel say `~ Astray`
  where they need it.  A dead owner that is at least as important as
  the taker, or that waited for something other than a mutex, is no such case, and the
  model goes on.  `_alloc_tcb` may give the block to a new task, which then owns the mutex.
- In `TetrisTasks` a task that sends to a queue that quit () has deleted, or through the
  `Tetris_ID` that it has freed, is `astray` and does nothing any more.

In the programs: a character of the line is a letter or a blank (`Shell`) and has no
value in `Uart`; drawing is left out except for what the shell's screen shows; rand() is
a choice; the files that yaffs_tab and yaffs_open find are any of a set; a completion
that does not fit into the buffer does not happen (nothing in the code prevents it);
a path of no device is not opened (the code goes on with a null pointer); numbers of the
calculator are their digits.  Two buffers of the code have no bound in the models:
`last_prefix[20]` of cmd.c:120, into which a word of any length is copied, and `data[20]`
of a number in the calculator.  `Ios!yaffs_open` stands for all of yaffs: it fails, or
returns a handle that is not in use.  `Lian!Joined` leaves out the error path for a level
with less than one block left (bridge.c:216-219), which no map with an even number of blocks
reaches.  `TetrisTasks` leaves the board open: a block moves, lands
or ends the game as the board might tell it to, except that BOTTOM, the last message of
auto_task, lands it; and `Tetris` has the board.  The clock of `TetrisTasks`
counts 50 ms, and job_task is faster than that.  `Tetris!MAX_SCORE` and the other names
marked "bound" cut off the behaviours.

Definitions whose comment begins with "Mutant" are wrong variants of the
definition that follows: a property is kept only if TLC finds it violated with
one of them in place.

## 3. Runs

All with `tlc -workers 2 -config X.cfg M`, each in less than four minutes.

| run | instance | shows |
|---|---|---|
| `structures` | ready queue: 4 tasks, 4 priorities in 2 words of 2 bits; lists: 3 nodes, 2 lists; heap: 2 tasks, 56 bytes, heads of 8, requests of 0, 3, 8; task memory: 2 creators, 3 control blocks, 4 pages, sizes around a page | `HighestIsFirst`, `ImplementsPrioQueue`, `ImplementsSeqLists`, `WalkEndsAtFirstMove`, `HeapIsTiled`, `BlocksInUse`, `StacksDisjoint`, `NoPageLost`, `NoTcbLost` |
| `signals` | 3 tasks (one is created, deleted, ends), one semB, semC, a msgQ of 1 place that may be deleted, time-outs 0 and 1 | `CountMatchesMessages`, `WakeupLostOnlyByDelete` |
| `delete` | 3 tasks, one semB and semC that are flushed and deleted, a msgQ, time-outs and delays 0 and 1 | `EachTaskInItsQueue`, `WakeupsPending`, `WaitersHaveTicks` |
| `inherit` | 4 tasks of 3 priorities, one mutex nested up to 2, time-outs 1 and forever | `OwnerInherits`, `WaitListSorted`, `WokenTakerOwns`, `BoostOnlyWhileOwning` |
| `mutexes` | 3 tasks (one is created, deleted, ends), two mutexes, no time-outs | `EachTaskInItsQueue` |
| `live` | 3 tasks, one semB, time-outs and delays 1 and 2 | `TimedWaitEnds`, `EqualsTakeTurns` |
| `drivers` | serial line: 2 readers of equal or different priority, FIFO of 2, 3 characters, reads of 1 and 2; tetris: a queue of 3, 2 steps of auto_task and BOTTOM | `NoReaderSleepsOnData`, `CharsAreRead`, `StepsAreForThisBlock`, `BridgeOutlivesJob`, `GameEnds` |
| `apps`: shell | lines of 2 characters and the 0, 3 lines, a history of 2, 2 commands, one a prefix of the other | `ShownIsEntered`, `HistoryIsRecent` |
| `apps`: I/O system | 2 tasks, 2 free descriptors, 2 handles of yaffs, 3 paths | `FdHeldByOne` |
| `apps`: clock | 2 tasks, times before a leap day and a new year, jumps over a minute and over a month, ticks that wrap | `NowIsBasePlusTicks`, `ClockNeverFast` |
| `apps`: calculator | all texts of up to 6 of 6 characters | `ParsesByPrecedence` |
| `apps`: lianliankan | 3 x 3 cells, a level of 6 blocks of 2 types and one of 2, 3 seconds | `PathsAreRight`, `BoardIsConsistent`, `HelpKeepsClearable`, `GoneTimerDeletedOnlyAfterWin`, `RaceLosesWholeLevels` |
| `apps`: tetris | 4 columns, 6 rows, the blocks O, I and T, until lines are deleted once | `BoardIsSound`, `FullLinesVanish` |
| `apps`: five in a row | 5 x 6 positions, presses on a diagonal and in a row, both modes | `CountersMatchBoard` |
| `give_once`, `msgq_delete_all`, `fifo`, `dead_owner` | | violated, see 5 |

**Why the bounds are enough.**  Two priorities beside the idle task's make a task
preempt or not; three (in `inherit`) make a list of waiters with one in the
middle.  Two words of bit map make both levels matter.  Three tasks make a giver,
a woken task and another waiter, the fourth in `inherit` a third waiter.  Time-out
1 makes a tick race a give and leaves a requeued task its last tick; 2 (in `live`)
makes a walk that stops early cost a task more ticks than it has.  `UINT = 100`
stands for 2^32 and `WAIT_FOREVER = 99` for 0xffffffff; no counter comes near them
but by wrapping.  `MaxTake` bounds the nesting.  56 bytes hold three small blocks
between others, so that all four kinds of merge happen; a head of 8 bytes instead
of 20 keeps that small.  Symmetry permutes the start tasks that cannot be deleted
(main() creates them in every order with every assignment of priorities, so Init
is symmetric); the runs with liveness use none.  `delete` needs its three tasks beside
the idle one: a task that waits, one that was woken and has not run, and one that gives
or takes in between.  It deletes no message queue, because msgQ_delete with two
waiters loses one; that is run `msgq_delete_all`.  `signals` deletes the queue
too, and checks only what that leaves true.  No run combines everything:
the raises through chains of owners are in `mutexes`, the time-outs of mutexes in
`inherit`, the delays in `delete` and `live`.

Two readers make one take the unit or the characters of the other; three characters
into a FIFO of two make one be lost and a give stand for two.  A queue of three holds
all that auto_task posts in a burst, or the two messages of KEY_DOWN and a step, and is full
when QUIT comes.  A history of two is full at the third line; a line of two
characters holds a command, a blank and a completion, or fills the buffer.  Two free
descriptors for two tasks are all taken when a third open comes.  Six blocks are the
smallest board on which the first pair may be the wrong one; 3 x 3 cells have paths
with no, one and two corners, along the border too.  With an I in four columns lines
become full one at a time and several at once.  A diagonal of five can be completed and
spoilt.  The ticks wrap after the first jump; a jump of 30 days carries through all
elements.

Deadlock is checked in the kernel's runs but for two: in `mutexes` and `dead_owner` a task
may go astray with a dead owner, where the model stops.  It is not in the others: a task
of the heap may end in malloc's FOREVER loop, a game ends, and the inputs of the programs
are bounded.

**Fairness** (`KernelProps!Fairness`).  The timer interrupt is latched while
interrupts are masked, so if a tick can be taken again and again it is taken
again and again: strong fairness of `tick_announce`, written with the condition
under which a tick changes anything (`TickMatters`).  A task that is loaded
inside a kernel call goes on, because the processor executes nothing else and the
interrupts are masked: weak fairness of the steps with interrupts masked.
Nothing is assumed about the tasks' own code: a task may run forever.

`Uart!uartFairness`: the hardware raises the interrupt for a character some time
after it arrived (the receiver has a time-out); the interrupt stays pending while it
is masked, so it is taken if it can be again and again; the running task is executed;
the timer ticks as above.  The readers call again when they return, as the shell does:
`CharsAreRead` would not be true of readers that stop.

`TetrisTasks!tasksFairness`: the three tasks that must end are ready or sleep, and the
player and the tasks around the queue are the only ones that are ready, so a task
that has something to do gets the processor: weak fairness of job_task, of down_task and of
the player once he quits.  Time goes on: strong fairness of the clock, which in the model waits for
job_task to empty its queue, and each key fills it again.  Nothing is assumed of auto_task,
and keys need not come.

## 4. Proofs

A theorem holds for every value of the constants that the named assumptions of the
modules allow; its own hypotheses are stated with it.

### Ready queue

`ReadyQProofs!ReadyQueueIsCorrect`: for every set of tasks, every number of
priorities that is a multiple of the word width, and every width
(`ReadyQAssumption`),

    Spec => [](TypeOK /\ MapsMatchLists /\ LinkedOnce /\ HighestIsFirst)

The four conjuncts together are inductive and none of them is alone: readyQ_remove
unlinks from the list of the task's priority (LinkedOnce), decides by the emptiness
of that list which bits to clear (MapsMatchLists), and finds the next highest task
through the bits (HighestIsFirst).  The lemmas of `ReadyQLemmas` are about the index
arithmetic (`IndexOfPriority`, `PriorityOfIndex`, `IndexOrder`), LSB (`LSBIsLeast`),
lists (`RemovedMembers`, `AddedMembers`, `InsertedMembers`) and the search
(`HighestPriority`); `ReadyInv(s, off)` is the invariant while the tasks `off` are off
the queue, so that remove-assign-put composes (`RemoveKeeps`, `OffTheQueue`,
`PutKeeps`).  They are about any kernel state, so the proofs about `Kernel` use them
inside its steps.

`ReadyQueueIsPrioQueue`: `Spec => ImplementsPrioQueue`.  `PrioQueue` is the set of the
queued tasks with the pairs of which the one is to run before the other; a task comes
behind those that are at least as important and before the rest, and the top is before
all others.  The pairs are read off the lists, from the list of priority 0 to the last and
each from its head (`ReadOrder`).  With the invariant above every step maps: a put of a
task that is not queued is `Enter` (`PutOrder`, from `AddedOrder`), readyQ_remove is
`Leave` (`RemoveOrder`, from `RemovedOrder`: the tasks that stay keep their order, though
their positions shift), the two with an assignment between them `Move`, and highest_tcb
is the top (`TopOfOrder`).

### Linked lists

`MemoryProofs!ListsAreSequences`: `dlistSpec => ImplementsSeqLists`, for every finite set
of nodes and all lists (`DListAssumption`).  The kernel's modules take a list for a
sequence; here each call of dlist.c, and the routine of a walk that moves a node to
another list, is one step on such sequences.  The invariant is `Sound`: the pointers
`Represents` the sequences that the next pointers lead through, that is, head, tail and
both pointers of every linked node are those of the sequence (`Links`), no node is twice
in a list (`Distinct`) or in two lists (`Disjoint`).  The previous pointers and the tail
are not in the abstract lists, but the next remove or add uses them.  Of the nodes that
are in no list nothing is asked, since dlist_remove leaves their pointers stale: that
dlist_insert writes both is what makes them right again.  `Disjoint` is needed because a
call writes into the neighbours of a node and must not reach another list
(`OthersAfterInsert`, `OthersAfterRemove`).  `NodesFromIs` shows that the walk along the
next pointers, bounded by the number of nodes, ends.

`WalkEndsAtFirstMoveHolds`: `dlistSpec => []WalkEndsAtFirstMove`.  While dlist_each runs, it
has seen the first `k` nodes of the list it began with (`Runs`); the list is still the same
until its routine moves a node, and then the node is the last of the other list,
so that its next pointer ends the walk.

### Kernel

    Disposable \cap MsgQs = {}  |-  Spec => [](~ Astray => Inv)   (KernelProofs!KernelInvariant)

and from it `TasksInTheirQueues` (`[]EachTaskInItsQueue`, which has `~ Astray` inside),
`KernelTypes`, `WaitersKeepTicks` and `CountIsMessages` (`TypeOK`, `WaitersHaveTicks` and
`CountMatchesMessages`, each `[](~ Astray => ...)`): for any numbers of tasks, priorities,
semaphores, mutexes, message queues and messages, all time-outs, all limits, with
tasks created and deleted, objects initialised late and semaphores deleted while the
system runs.

`Astray` is where the model ends, when a raise relinks the block of a dead owner (section
2): the code breaks its lists there, so nothing is claimed of what follows.  `SemMTake`
shows that semM_take is the step that gets there (`GoesAstray`), and `AstrayStays` that the
model stays there; so a property holds as long as no such call was made.  In a system
that kills no task, nobody goes astray: `LiveInv`, which the theorems with
`Killable = {}` rest on, says that no owner is a dead block (`OwnersLive`), and they have
no `~ Astray`.

The one hypothesis is that no message queue is deleted.  It cannot go: msgQ_delete
loses and strands waiters (`msgq_delete_all` in section 5), which is the negation of
`EachTaskInItsQueue`, and with one waiter, where it does not, the woken task goes on
with a queue that is freed.  The run `signals` deletes a queue, and checks what it can.

`Inv` has one part for each component, because a call changes several of them in one
critical section, and the properties say nothing of the middle of a call:

| part | says | needed because |
|---|---|---|
| `KInv` | `ReadyInv`, `TicksLeft`, the idle task is ready | readyQ_remove in every blocking call leaves a highest task only if one stays |
| `CurInv` | the running task is ready | a blocking call and a tick unlink it from its ready list without looking |
| `DInv`, `BInv`, `CInv`, `MInv`, `QInv` | each wait list holds, once each, the tasks with that status and `pend_obj`; counts in their ranges | task_delete and a tick unlink a task from the list its status names |
| in `BInv`, `CInv` | a task waits for an object of `Later` only when that is initialised | the init of a semaphore empties its list |
| in `MInv` | a mutex with waiters has an owner, which may be a dead block, and is in use | semM_give, the end of a wait and `_free_semM` follow `owner_tcb`; `Off` are tasks that task_delete has taken out already |
| in `QInv` | `cur_num` is the length of the list | msgQ_receive takes a node when `cur_num` is not 0 |
| `CtxInv` | a suspended call is on an object of its kind and in use; one task deletes a semaphore at a time; the idle task is in no call | the second half of the call works on what the first half had in hand |
| `ListsInv` | the lists of objects have no duplicates | a tick counts a wait down once |

TLC checked `Inv` on the instances of the runs before it was proved.
`KernelLemmas` is about the pieces a call is made of, as functions of a kernel state: a
task that pends or is woken, a flush, the walk of a tick (`TickKeeps`), a chain of raises (`RaisedKeeps`), the release of a deleted task's mutexes.  `KernelProofs` has one
lemma for each action.  What a recursive function computes (the walk over the
lists, `raised`, `semM_free`) is proved by induction as a fact about sets, from the
existence of a least element (`LeastExists`, `Induction` in `ReadyQLemmas`).

### Mutexes

All with `Disposable \cap MsgQs = {}`:

| theorem | property | further hypotheses |
|---|---|---|
| `BoostsEnd` | `BoostOnlyWhileOwning` | until `Astray` |
| `WokenTakersOwn` | `WokenTakerOwns` | `Killable = {}` |
| `WaitListsSorted` | `WaitListSorted` | until `Astray`, and `OwnersRun` until then |
| `OwnersInherit` | `OwnerInherits` | `Killable = {}` and `[]OwnersRun` |
| `OneMutexOwnersRun` | `OwnersRun` | until `Astray`; there is at most one mutex |

`OwnersRun`: no task waits for a mutex while it owns one.  It is a condition on the
behaviour (`Spec /\ []OwnersRun => ...`, or `[](~ Astray => OwnersRun)`), it allows any
number of mutexes, nested takes, and owners that sleep or wait for a semaphore or a message; and where there is one
mutex `OneMutexOwnersRun` discharges it.  The hypotheses are where the code ends, not
the proof.  Without `Killable = {}`, TLC finds `WokenTakerOwns` and `OwnerInherits`
violated, because `_free_semM` wakes a waiter without making it the owner; without
`OwnersRun`, it finds `WaitListSorted` and `OwnerInherits` violated, because
`_up_owner_pri` leaves an owner that waits where it is in its list (semM.c:254 and
semM.c:376 in section 5).

Every step is one of seven kinds for the mutexes (`Steps`, `StepIs`): quiet; a task
takes a free one, blocks, gives, is created, is deleted, or ends its wait.  The
invariants are over those kinds:

- `Owned`: a mutex that is not in use has no owner, so that semM_init of one orphans
  nobody.
- `Boosts`: a task is at its own priority, or above it and an owner.
- `Takers`: a task in semM_take waits for that mutex, or gave up, or owns it.
- `Sorted`: each wait list is ascending; that `_sort_pri_put` puts a task in its place is
  `SortPutAscending`.
- `Inherits`: the owner *and* `wait_pri` are at least as important as each waiter.
  `OwnerInherits` alone is not inductive: semM_give lowers the giver to the least of its
  own priority and the `wait_pri` of what it still owns, so those must be right too.
  `Sorted` is part of the induction: the new `wait_pri` is read off the first waiter.

### Wake-ups

Both with `Disposable \cap MsgQs = {}`:

| theorem | property | further hypotheses |
|---|---|---|
| `WakeupsLostByDeleteOnly` | `WakeupLostOnlyByDelete` | until `Astray` |
| `WakeupsArePending` | `WakeupsPending` | `Killable = {}` |

A give marks nothing: the woken task tries again when it runs, and before that others
may take the unit, more gives may come, and waiters time out.  The theorems say that for
any number of tasks, priorities and objects no such order leaves a unit (a free
semaphore, a count, a message, a free place) unused while tasks wait for it and nobody
was woken for it.  `Killable = {}` is needed: with task_delete of a woken task TLC finds
`WakeupsPending` violated on the instance of `signals`, because task.c:376 frees the task
and its wake-up with it; the first theorem says that there is no other way.

The argument is a count.  `Enough(W, l, n)`: if tasks wait in `l`, at least `n` tasks are
in `W`, those woken for the object.  `Serves` lists what a step can do to an object: its
list is empty afterwards, or no unit is left, or the running task, which may be one of
the woken ones, took a unit, or nothing changed, or there is one unit more and a task
that was not woken before is.  `ServesEnough` is the count over these cases, `CountsOn`
the cardinalities in it.  Each of the four waits is a resource of its own: for
msgQ_send the units are `MAX_NUM - cur_num`, for msgQ_receive `cur_num`, and one
msgQ_send serves both in opposite ways (`SendServes`).

Two facts make the set of woken tasks stable: the tasks that do not run keep their
calls, and the ready ones stay ready with their ticks or are deleted (`OthersStay`, which
follows from the kinds of steps above); and a task that pends in a call is suspended in
that call, on the object it waits for (`Suspended`), so that waking it puts it in the
right set.  `Inv` and `Suspended` are the inductive invariant; TLC checked `Suspended` on
the instances of the runs.

### Task memory

`MemoryProofs!TaskMemoryIsCorrect`: for every number of callers of task_create,
control blocks and pages, every page size, alignment and set of stack sizes
(`TaskMemAssumption`),

    taskMemSpec => [](taskMemTypeOK /\ StacksDisjoint /\ NoPageLost /\ NoTcbLost /\ StackFits)

The inductive invariant `TaskMemInv` adds what the properties leave out: a caller has a
control block exactly while it is inside task_create (`StepOK`), that block is no
other caller's and of no task that exists (`OwnTcb`), a stack lies inside the stack
memory (`StacksInside`, without which the pages that task_delete frees need not be
pages), and G_Task_Num is the number of tasks (`Counted`, without which it might be
decreased below 0).  The lemmas of arithmetic are `PagesHoldBytes` and `AlignedIsNat`;
there is one lemma for each action.

### Heap

For every size of the heap, of the heads and of the alignment, every word width that
holds twice the heap, and every set of requests and of callers (`MemHAssumption`):

- `MemoryProofs!HeapIsTiledHolds`: `heapSpec => []HeapIsTiled`.
- `MemoryProofs!BlocksInUseHolds`: `heapSpec => []BlocksInUse`, if no request is so large
  that malloc rounds it to 0 (`NoWrap`; with such a request it fails, section 5).
- `MemoryProofs!HeapInvariance`: the inductive invariant `HeapInv` that both rest on.

`MemHAssumption` lets the tasks free any foreign address that is not aligned or not inside
the heap; an aligned one in front of which a free block's head lies is the finding of
section 5.  `HeapInv` has, besides the two properties:

- `Conserved`: the bytes of the blocks and of their heads add up to those of the heap.  It
  bounds the counters, so that the additions of a merge do not wrap; they are proved
  modulo `WORD`.
- `UsedOnce` and `UsedIsAlloced`: nothing is held twice, or held and still to be freed by
  the second half of a realloc, and the blocks in use are the allocated ones.  Without
  them a free could take a block away from another task.
- `Chain`: the blocks start at 0, each begins where the one before it ends, prev and next
  agree, sizes are aligned and positive.  The last one is not empty, so free's range check
  accepts what malloc returned.

malloc's split is proved as a cut and a mark, free as a mark and up to two merges
each for `Chain`, the counters and the merged
neighbours apart.  `FunctionTheorems` and `FiniteSetTheorems` say nothing of sums of a
function over a set; `SumsExist`, `SumsAgree`, `SumAdd` and `SumSame` do, by
induction over the number of members.

### Serial line

`UartProofs!NoReaderSleeps`: `uartSpec => []NoReaderSleepsOnData`, for every number of
readers but none (the shell always reads), of tasks besides them and of characters, every
size of the FIFO and of the buffer (`UartAssumption`: RX_SEM is in use from the start).
The semaphore and the clock are the kernel's: each step of `Uart` that calls it is one of
the kernel's calls, or the give of the interrupt handler, so the invariant of the kernel
and the lemmas of `KernelProofs` serve here (`SemBAgain`, `SemBWake`, `TickKeeps`).

`UartInv` is `Inv` and:

- `DataIsSeen`: characters whose interrupt has been handled leave the semaphore free, or
  there is a ready reader that will look at the FIFO before it waits (`Looks`).  It covers
  the window between the test of the FIFO and semB_take, and the one give that stands for
  several characters.  It is also where `iTake` matters: the first call of uart_getc
  takes the semaphore, and then looks.
- `GiveArrives`: while the semaphore is free and readers wait, one was woken that has not
  run.  Without it a free semaphore would not help a reader that sleeps.
- `ComesBack`: a reader that is suspended in semB_take goes on to a test of the FIFO, with
  a time-out or without.
- `OnlyReadersCall`, `PendsInTake`: who is suspended, is a reader in semB_take on RX_SEM.

### I/O system

`ProgramProofs!FdHeldByOneHolds`: `iosSpec => []FdHeldByOne`, for every number of tasks,
paths and handles and every table of at least three descriptors (`IosAssumption`), whatever
fails.  `IosInv` is the property in parts that a step can be checked against (`HeldByOne`
between tasks, `InUseIsHeld`, `DriverIsSaved`) and `HeldOnce` within a task: no two of its
files have one fd, and the call it is in is about none of them.  Without `HeldOnce` the
iosFreeFd of a failed open could free the entry of an open file.  Every step takes a free
fd, gives one back or neither (`Takes`, `Gives`, `Keeps`), and the other tasks hold what
they held (`OthersKept`).

### Tasks of tetris

`ProgramProofs!StepsAreForThisBlockHolds`: `tasksSpec => []StepsAreForThisBlock`, for every
length of job_queue and every number of steps that find_steps may find.  auto_task posts in
bursts, with others' messages before and between them, and what keeps its steps from the
next block is the order in the queue: auto_task has the lowest priority, so when it gets
the processor the queue is empty, and what it finds there until it loses it again are its
own messages (`OnlySteps`).  So before any message of its own lie only messages
that move the block (`Fine`), and when a block lands none of its steps is behind the
message that lands it; BOTTOM is its last.  An auto_task that outlives its block, or runs
with the mode off, was running when the mode was switched off (`AutoOutlives`).

`ProgramProofs!BridgeOutlivesJobHolds`: `tasksSpec => []BridgeOutlivesJob`.  Russian_main
frees `Bridge_ID`, with which job_task draws, only when `rb_send_msg` has told it that
`job_queue` is NULL; the property is inductive as it stands, over all steps of quit ().

### Shell

`ProgramProofs!ShownIsEnteredHolds`: `shellSpec => []ShownIsEntered`, for all letters,
commands and file names without blanks, and every size of the line buffer and of the
history (`ShellAssumption`).  `ShellInv` adds to it that the line, the screen and every
node of the history are shorter than the buffer, so that the last character of a full
line is the only one that is ever lost, that what Tab found fits behind the last blank,
and that the cursors of cmd_tab and of the history are inside their lists.  The step that
needs an argument is a Tab after a Tab (`TabKeeps`): the screen ends in a word that is
not in the line, `Typed` counts it, and what is erased is exactly that word.

`ProgramProofs!HistoryIsRecentHolds`: `shellSpec => []HistoryIsRecent`.  Of the lines that
are not empty (`Entered`), `Fresh` are those that differ from the one before, and the n-th
from the end of them is the n-th from the end of the history.  got_it compares with the
last node only, so the proof needs that this is the newest line (`NewestIsLast`), a
repeated one or a fresh one.

### Lianliankan

`ProgramProofs`, for every size of the board, all maps of the levels, numbers of types
and times (`LianAssumption`: each map has a block and lies inside the board, and a level
has a type):

| theorem | property |
|---|---|
| `TimerDeletedOnce` | `GoneTimerDeletedOnlyAfterWin` |
| `RaceLosesWholeLevelsHolds` | `RaceLosesWholeLevels` |
| `BoardIsConsistentHolds` | `BoardIsConsistent` |
| `PathsAreRightHolds` | `PathsAreRight` |
| `HelpKeepsHolds` | `HelpKeepsClearable` |

`TimerInv` carries the first two.  `TaskKnown` ties `_G_time_taskid` to what became of the
task, and says that nothing but the end of the last level and Esc deletes it.
`TimeIsWhole` says of the register of the timer task, between its load and its store, what
the property says of the memory: the time stored later is the one loaded, and the level
added in between is the one lost.

`BoardInv` carries the others.  A level is only over when no block is left, so that with
`left = 0` there is no further level (`left = 0 => level = LEVEL_NUM`).  Joining two blocks
takes two of one type, so every number of blocks of a type stays even; while blocks are
left, FirstOf has one to put the cursor on.

`lian_check` tries a line, a way over one corner and a way over two, the first of them on
one of four rays of empty cells that end at a block or at the border (`RayEnds`).
`JoinableIs` shows that this is every way of three lines over empty cells, and
`CheckIsRight`, for any two blocks of any board, that the way found first is one of them.

`lian_left_0` is a recursive function over boards.  That it has the value its definition
gives it (`LeftIs`) is proved without induction over data: the boards that it holds of are
the least set closed under its equation (`Clearable`), and what holds on the least set is a
fixpoint of that equation.  The help then takes either a pair whose removal leaves such a
board or, when there is none, a pair of a board that was not one (`HelpIsGood`).

### Five in a row

`ProgramProofs!CountersMatchBoardHolds`: `wuziSpec => []CountersMatchBoard`, for every board
of at least five rows and columns and all presses on it (`WuziAssumption`).  `LinesAreFives`:
the four loops of wuzi_start, as a closed form over the number of a line, make lines of five
different positions of the board, none else.  `WuziInv` is `GoesOn` until the game is over
and `IsOver` then: the counters are not those of the board after a win, where the loop
returns in the middle, and need not be, because only Restart is possible.  While it goes
on no five of a color are in a line and a position is free, so that a counter that
reaches 5 is the first five (`WinsMean`), and `_computer_do` finds a position
(`BestIsFree`: scores are bounded by the number of lines, so there is a best one, and a
first one of the best).

### Clock

`ProgramProofs`, for every clock rate, every modulus of the tick counter, all numbers of
ticks that pass, any number of tasks and all times that they set, legal or not
(`TimeAssumption`):

- `NowIsBasePlusTicksHolds`: `timeSpec => []NowIsBasePlusTicks`.
- `ClockNeverFastHolds`: `timeSpec => []ClockNeverFast`.

The reference of both is a day number made of the table of month starts and the leap days
of the years before.  `NextDayIs`: a turn of the loop of addDays ends on a date of the
calendar with the next day number.  `LoopExists` is what takes the place of an
induction theorem: a recursive function on the natural numbers exists, so addDays has the
value of its equation (`AddDaysIs`) and n turns are n days (`AddDaysAdds`).  The carries of
seconds, minutes and hours are `CarryOf60` and `CarryOf24`.  A date after the year 9999 is
still right, but no longer one that timeSet would take; the property says so.

`TimeInv` says that the base is legal and is the time that was set last, and
`MomentIsLate`, for the time that was set `alone`, when no other task was between its
stores, and until another task stores a base: at most the one task is between its stores, the
tick that it has loaded is no more ticks ago than its store of the base, and when it is
through the same holds of the moment.  A wrap-around only makes the difference smaller
(`ElapsedGrows`).  `alone` is needed: the tick is loaded and stored outside the mutex, so that of two
overlapping calls the one that loaded first may store last, and the clock stays fast
(section 5).  While a task is between its stores the clock may be fast in any case, and a late
load makes it slow.

### Fifo

`ProgramProofs!FifoIsQueue`: if the slots that the calls use are allocated (`Allocated`:
`ele_size <= max_num + 1`), `Spec => Ring!Spec`, where `Ring` is `BoundedQueue` with the
contents of the ring and the capacity `ele_size - 1`: every fifo_put, fifo_get and
fifo_head is the one of a queue, or fails at its two ends.
`FifoHoldsMaxNum`: where `ele_size = max_num + 1`, as in the shell, that is the queue of
`max_num` elements that fifo.c:44 promises (`HoldsMaxNum`, which the run `fifo` finds
violated for other sizes).

### Only model-checked

- Liveness and fairness (`TimedWaitEnds`, `EqualsTakeTurns`, `CharsAreRead`, `GameEnds`):
  the prover has neither.
- What the kernel does where message queues are deleted: the run `signals` is all that
  there is; with two waiters `EachTaskInItsQueue` fails (section 5).
- `Tetris` and `Calculator`: they have RECURSIVE operators, which the prover does not
  support.

## 5. Where the code and its comments disagree

Runs that end in a violation:

- `give_once` (semM.c:185).  A handover leaves `take_count` at 0; the give of the
  new owner counts to 0xffffffff, is taken for a nested one and releases nothing.
  One more take and give repair the count, nothing else does.
- `msgq_delete_all` (msgQ.c:211, 218).  "pop all wait task" is written with `if`:
  one task is woken, the second unlinked and lost, the others stay.
- `fifo` (fifo.c:84, 102).  The ring counts modulo the bytes of an element.  The
  shell's use (3 elements of 4 bytes) is the one size where that is right.
- `dead_owner` (semM.c:254).  "when task delete, free all the semMs the task taked"
  (semM.c:266), "has waiter on the semM? if do, give it" (semM.c:244): `_free_semM` wakes the
  first waiter and leaves `owner_tcb` alone.  The mutex stays with the control block
  that task_delete frees, the waiter returns OK and is not the owner, and the next
  taker's raise works on the dead block (`Astray`).

Found on the way and not kept as runs; a change to a configuration shows each:

- semM.c:371: `_up_owner_pri` unlinks and links the block of an owner that is gone, and
  semM.c:376 calls itself for the mutex of its stale `pend_obj` (the negation of `Astray` as
  an invariant in `MCMutexes.cfg`; `WokenTakerOwns` fails there, too).
- ios/lib/iosLib.c:305: "store driver's open routine return value" (iosLib.c:23) happens
  nowhere: iosSaveDevNum has two parameters, ioLib.c:60 passes three.  Every read, write
  and close of a file of yaffs goes to handle 0.
- semM.c:376: an owner that is raised while it waits keeps its place, so the list
  is not "[BEGIN] 1-->3-->8" (semM.c:329), later waiters go to wrong places, and a
  less important task may get the mutex first (`WaitListSorted`, `OwnerInherits`
  in `MCMutexes.cfg` with four tasks and three priorities).
- semB.c:145, semC.c:158: a task that takes or waits between the flush and the
  unlink is left with a freed semaphore that no tick visits (`WaitersAreTicked`
  in `MCDelete.cfg`).
- dlist.c:172: "for each task in delayQ, decrease it's delay_ticks" (delayQ.c:27)
  is not what happens when one of them is due; the ones behind it lose the tick.
  A wait in a FIFO list still ends (`live`), a wait for a mutex need not
  (`TimedWaitEnds` in `MCLive.cfg` with a mutex): a task that comes back with
  time-out 1 goes in front of its equals and stops every walk.
- memH.c:207: free of an address that is not from malloc does something if a
  block head lies in front of it, that of a free block for instance
  (`HeapIsTiled` with `Foreign = {8}` in `MCStructures.cfg`).
- memH.c:120: a request just below 2^32 is rounded to 0 and succeeds
  (`BlocksInUse` with a request of `WORD - 3`).  memH.c:300: realloc copies newSize
  bytes from a smaller block.  task.c:541: a task whose entry function returns keeps
  its mutexes.
- lianliankan/src/bridge.c:213, 460: the time of a level is lost when the player ends a
  level inside `_G_time--` (`RaceLosesWholeLevels` says that nothing else is).
- lianliankan/src/bridge.c:225: the last level ends with bridge_exit, and Esc calls it
  again: task_delete gets the control block of a task that is gone
  (`GoneTimerDeletedOnlyAfterWin` says that it happens only there).
- tetris/src/tetris.c:390: an auto_task that runs when the player switches the mode off
  is not deleted, and moves the next block (`StepsAreForThisBlock` without `off`).
- tetris/src/tetris.c:686, 691: down_task, or the player, may send to the queue that quit ()
  has deleted and not yet replaced by NULL, or read `job_queue` from the `Tetris_ID` that it
  has freed, and never learn that the game is over (`GameEnds` without "astray").
  tetris/src/os.h:56 promises -2 for what is "not a legal msgQ" and os.h:57 -1 for a full one;
  os.c:120 knows only NULL, and returns 0 for a full one.
- date/timeLib.c:320: two calls of timeSet that overlap may leave the clock fast until it is
  set again (`ClockNeverFast` without `alone`).
- ios/lib/ioLib.c:39: with a full table the fd is -1, the driver is called all the same
  and iosSaveDevNum writes in front of the table; the handle stays open.
- bsp/uart.c:292: with two readers the FIFO may be empty at RdURXH; what is read then
  is no character.

## 6. Not modelled

Of the repository's lines nine tenths are vendored or tables: the codecs and drivers of
media/ (122 000 lines), lwIP in net/ (63 000), YAFFS and MTD in nand_mtd_yaffs/ (25 000),
the JPEG library and the fonts in gui/ (28 000), the port of vi (2 800).  They are not
DfewOS's own logic, are used from here only through a few calls, and are left out; a
map that covers DfewOS's own logic is therefore a small share of all lines.

Left out of DfewOS's own code: registers, devices and formatting (printf, interrupt
controller, watchdog, sending on the serial line, which polls); drawing and the windows
of gui/ except the one of `Wuzi`; the lunar calendar (a table); find_steps of
tetris/src/auto.c (it rates positions, no wrong steps can break the board: `Tetris` takes any);
lian_reorder and lian_get_op; the start of the network and the file system.  Within
modelled parts: task_delete of the running task by itself, the show commands, the
contents of stacks, messages and blocks, memH_free (no caller), malloc that fails inside
a kernel call, the value of an expression.

## 7. Plan

1. Heap and message queues composed: msgQ_send calls malloc inside its critical
   section, where FOREVER stops the system.
2. task_delete by a task of itself; the three critical sections of task_create
   inside `Kernel`.
3. The jobs of the graphics and of the network task, and the telnet shell.
