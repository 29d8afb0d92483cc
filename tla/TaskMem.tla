------------------------------- MODULE TaskMem -------------------------------
(***************************************************************************)
(* task.c: the control blocks and the stack pages.  A bit of _G_tcb_map or *)
(* _G_stack_map is 1 while the block or page is available.  task_create    *)
(* takes them in critical sections of their own, so that the creations of  *)
(* several tasks interleave; task_delete and _task_entry give both back in *)
(* one.                                                                    *)
(***************************************************************************)
EXTENDS Integers, FiniteSets

CONSTANTS
  Caller,             \* the tasks that call task_create
  TASK_NUM_MAX,       \* number of control blocks: 256
  STACK_PAGE_NUM,     \* number of stack pages: 2048
  STACK_PAGE_SIZE,    \* bytes of a page: 4096
  ALIGN,              \* DEFAULT_ALIGN_BYTE
  StackSizes          \* the stack sizes that tasks are created with

ASSUME TaskMemAssumption ==
  /\ TASK_NUM_MAX \in Nat \ {0} /\ STACK_PAGE_NUM \in Nat
  /\ STACK_PAGE_SIZE \in Nat \ {0} /\ ALIGN \in Nat \ {0}
  /\ STACK_PAGE_SIZE % ALIGN = 0
  /\ StackSizes \subseteq Nat

Tcb  == 0 .. TASK_NUM_MAX - 1
Page == 0 .. STACK_PAGE_NUM - 1
NoTcb == -1

VARIABLES
  tcb_map,    \* the available control blocks
  stack_map,  \* the available pages
  tcb,        \* stack_size, and the page that stack_start is the bottom of
  creating,   \* where each caller is in task_create
  live,       \* the control blocks of the tasks that exist
  Task_Num    \* G_Task_Num

taskMemVars == <<tcb_map, stack_map, tcb, creating, live, Task_Num>>

TCB_STACK == [stack_size : Nat, top_page : Nat]

Idle == [step |-> "idle", tcb |-> NoTcb]

\* task_init
taskMemInit ==
  /\ tcb_map = Tcb
  /\ stack_map = Page
  /\ tcb = [i \in Tcb |-> [stack_size |-> 0, top_page |-> 0]]
  /\ creating = [c \in Caller |-> Idle]
  /\ live = {}
  /\ Task_Num = 0

\* Rounded up to ALIGN, and to pages.
stack_aligned(n) == ((n + ALIGN - 1) \div ALIGN) * ALIGN
need_pages(n) == (n + STACK_PAGE_SIZE - 1) \div STACK_PAGE_SIZE

\* The pages of the stack of control block i.
StackPages(i) ==
  (tcb[i].top_page - need_pages(tcb[i].stack_size)) .. (tcb[i].top_page - 1)

LowestBit(bits) == CHOOSE i \in bits : \A j \in bits : i <= j

-----------------------------------------------------------------------------
\* _alloc_tcb, and the fields that task_create fills before it takes a stack.
alloc_tcb(c, n) ==
  /\ creating[c] = Idle
  /\ \/ /\ tcb_map # {}
        /\ tcb_map' = tcb_map \ {LowestBit(tcb_map)}
        /\ tcb' = [tcb EXCEPT ![LowestBit(tcb_map)].stack_size = stack_aligned(n)]
        /\ creating' = [creating EXCEPT ![c] = [step |-> "stack", tcb |-> LowestBit(tcb_map)]]
     \/ /\ tcb_map = {}                             \* task_create returns NULL
        /\ UNCHANGED <<tcb_map, tcb, creating>>
  /\ UNCHANGED <<stack_map, live, Task_Num>>

\* Mutant: the last page is not looked at.
Places_short(need) ==
  {p \in 0 .. STACK_PAGE_NUM - need : p .. (p + need - 2) \subseteq stack_map}

\* The places where need pages in a row are available.
Places(need) ==
  {p \in 0 .. STACK_PAGE_NUM - need : p .. (p + need - 1) \subseteq stack_map}

\* _alloc_stack
alloc_stack(c) ==
  /\ creating[c].step = "stack"
  /\ LET i    == creating[c].tcb
         need == need_pages(tcb[i].stack_size)
         page == LowestBit(Places(need))
     IN  \/ /\ Places(need) # {}
            /\ stack_map' = stack_map \ (page .. (page + need - 1))
            /\ tcb' = [tcb EXCEPT ![i].top_page = page + need]
            /\ creating' = [creating EXCEPT ![c].step = "ready"]
         \/ /\ Places(need) = {}
            /\ creating' = [creating EXCEPT ![c].step = "fail"]
            /\ UNCHANGED <<stack_map, tcb>>
  /\ UNCHANGED <<tcb_map, live, Task_Num>>

\* Mutant: a creation that finds no stack keeps the control block.
release_tcb_not(c) ==
  /\ creating[c].step = "fail"
  /\ creating' = [creating EXCEPT ![c] = Idle]
  /\ UNCHANGED <<tcb_map, stack_map, tcb, live, Task_Num>>

\* No stack: _release_tcb.
release_tcb(c) ==
  /\ creating[c].step = "fail"
  /\ tcb_map' = tcb_map \cup {creating[c].tcb}
  /\ creating' = [creating EXCEPT ![c] = Idle]
  /\ UNCHANGED <<stack_map, tcb, live, Task_Num>>

\* The last critical section of task_create, with readyQ_put.
put_ready(c) ==
  /\ creating[c].step = "ready"
  /\ live' = live \cup {creating[c].tcb}
  /\ Task_Num' = Task_Num + 1
  /\ creating' = [creating EXCEPT ![c] = Idle]
  /\ UNCHANGED <<tcb_map, stack_map, tcb>>

\* Mutant: the stack is not released.
task_delete_stack(i) ==
  /\ i \in live
  /\ tcb_map' = tcb_map \cup {i}
  /\ live' = live \ {i}
  /\ Task_Num' = Task_Num - 1
  /\ UNCHANGED <<stack_map, tcb, creating>>

\* task_delete, and the end of _task_entry: _release_stack, _release_tcb.
task_delete(i) ==
  /\ i \in live
  /\ stack_map' = stack_map \cup StackPages(i)
  /\ tcb_map' = tcb_map \cup {i}
  /\ live' = live \ {i}
  /\ Task_Num' = Task_Num - 1
  /\ UNCHANGED <<tcb, creating>>

taskMemNext ==
  \/ \E c \in Caller : \/ \E n \in StackSizes : alloc_tcb(c, n)
                       \/ alloc_stack(c) \/ release_tcb(c) \/ put_ready(c)
  \/ \E i \in Tcb : task_delete(i)

taskMemSpec == taskMemInit /\ [][taskMemNext]_taskMemVars

-----------------------------------------------------------------------------
\* The control blocks that own stack pages: of the tasks that exist, and of
\* those that only have to be put into the ready queue.
WithStack ==
  live \cup {creating[c].tcb : c \in {c \in Caller : creating[c].step = "ready"}}

\* The control blocks that are being created and own no page yet.
Bare == {creating[c].tcb : c \in {c \in Caller : creating[c].step \in {"stack", "fail"}}}

\* Every variable stays in its type.
taskMemTypeOK ==
  /\ tcb_map \subseteq Tcb /\ stack_map \subseteq Page /\ live \subseteq Tcb
  /\ tcb \in [Tcb -> TCB_STACK]
  /\ creating \in [Caller -> [step : {"idle", "stack", "ready", "fail"},
                              tcb  : Tcb \cup {NoTcb}]]
  /\ Task_Num \in Nat

\* No page belongs to two stacks, whatever creations and deletions interleave.
StacksDisjoint ==
  \A i, j \in WithStack : i # j => StackPages(i) \cap StackPages(j) = {}

\* A page is available exactly when no stack uses it: the pages that
\* _release_stack gives back are those that _alloc_stack took.
NoPageLost == stack_map = Page \ UNION {StackPages(i) : i \in WithStack}

\* A control block is available exactly when no task has it, and two callers of
\* task_create never get the same one; a creation that fails gives it back.
NoTcbLost ==
  /\ tcb_map = Tcb \ (WithStack \cup Bare)
  /\ \A c, d \in Caller :
       c # d /\ creating[c] # Idle => creating[c].tcb \notin {creating[d].tcb} \cup live

\* The stack that a task was asked to have fits into its pages, with the page
\* numbers inside the stack memory.
StackFits ==
  \A i \in WithStack : /\ StackPages(i) \subseteq Page
                       /\ tcb[i].stack_size <= Cardinality(StackPages(i)) * STACK_PAGE_SIZE
=============================================================================
