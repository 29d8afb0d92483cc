---------------------------- MODULE MemoryProofs ----------------------------
(***************************************************************************)
(* The memory of the system: the control blocks and the stack pages        *)
(* (TaskMem), proved for every number of callers, control blocks and pages *)
(* and all stack sizes, and the heap (MemH), proved for every size of the  *)
(* heap, of its heads and of its alignment, all requests and all tasks;    *)
(* and the pointers of the linked lists (DList), proved for every finite   *)
(* set of nodes and all lists.                                             *)
(***************************************************************************)
EXTENDS TaskMem, MemH, DList, FiniteSetTheorems, SequenceTheorems, WellFoundedInduction, TLAPS

(* The control blocks and the stack pages.                                 *)

\* Every set of natural numbers that is not empty has a least element.
LEMMA LeastExists ==
  ASSUME NEW S \in SUBSET Nat, S # {}
  PROVE  \E x \in S : \A y \in S : x <= y
<1>1. PICK x \in S : \A y \in S : ~ (<<y, x>> \in OpToRel(<, Nat))
  BY NatLessThanWellFounded, WFMin
<1>2. \A y \in S : x <= y
  <2>1. TAKE y \in S
  <2>2. ~ (y < x)
    BY <1>1 DEF OpToRel
  <2> QED
    BY <2>2
<1> QED
  BY <1>1, <1>2

\* Induction: what holds at 0, and at n + 1 when it holds at n, holds of every
\* natural number.  The statement is the set S of the numbers it holds of.
LEMMA Induction ==
  ASSUME NEW S, 0 \in S, \A n \in Nat : n \in S => n + 1 \in S
  PROVE  \A n \in Nat : n \in S
<1> SUFFICES ASSUME NEW n \in Nat, n \notin S PROVE FALSE
  OBVIOUS
<1> DEFINE T == {i \in Nat : i \notin S}
<1>1. PICK m \in T : \A j \in T : m <= j
  BY LeastExists
<1>2. m - 1 \in Nat /\ m - 1 \notin T
  BY <1>1
<1>3. (m - 1) + 1 \in S
  BY <1>2
<1> QED
  BY <1>1, <1>3

\* LowestBit finds the lowest bit of a map that is not 0.
LEMMA LSBIsMember ==
  ASSUME NEW S \in SUBSET Nat, S # {}
  PROVE  LowestBit(S) \in S
  BY LeastExists DEF LowestBit

\* The pages that _alloc_stack computes hold the bytes of the stack.
LEMMA PagesHoldBytes ==
  ASSUME NEW n \in Nat
  PROVE  need_pages(n) \in Nat /\ n <= need_pages(n) * STACK_PAGE_SIZE
<1> DEFINE m == n + STACK_PAGE_SIZE - 1
           q == m \div STACK_PAGE_SIZE
           r == m % STACK_PAGE_SIZE
<1>1. STACK_PAGE_SIZE \in Nat /\ STACK_PAGE_SIZE > 0
  BY TaskMemAssumption
<1>2. m \in Nat
  BY <1>1
<1> HIDE DEF m
<1>3. q \in Nat /\ r \in 0 .. STACK_PAGE_SIZE - 1 /\ m = STACK_PAGE_SIZE * q + r
  BY <1>1, <1>2
<1> HIDE DEF q, r
<1>4. STACK_PAGE_SIZE * q \in Nat /\ STACK_PAGE_SIZE * q = q * STACK_PAGE_SIZE
  BY <1>1, <1>3
<1>5. n <= q * STACK_PAGE_SIZE
  BY <1>1, <1>3, <1>4 DEF m
<1> QED
  BY <1>3, <1>5 DEF need_pages, q, m

\* The stack_size that task_create stores is a number of bytes.
LEMMA AlignedIsNat ==
  ASSUME NEW n \in Nat
  PROVE  stack_aligned(n) \in Nat
<1>1. ALIGN \in Nat /\ ALIGN > 0
  BY TaskMemAssumption
<1> DEFINE m == n + ALIGN - 1
           q == m \div ALIGN
<1>2. m \in Nat
  BY <1>1
<1> HIDE DEF m
<1>3. q \in Nat
  BY <1>1, <1>2
<1> HIDE DEF q
<1>4. q * ALIGN \in Nat
  BY <1>1, <1>3
<1> QED
  BY <1>4 DEF stack_aligned, q, m

-----------------------------------------------------------------------------
(* The inductive invariant.                                                *)

\* A caller has a control block exactly while it is in task_create.
StepOK ==
  \A c \in Caller : creating[c].step = "idle" <=> creating[c].tcb = NoTcb

\* The block of a caller is its own: no other caller's, of no task that exists.
OwnTcb ==
  /\ \A c \in Caller : creating[c].tcb \notin live
  /\ \A c, d \in Caller : c # d /\ creating[c].tcb # NoTcb
                            => creating[c].tcb # creating[d].tcb

\* _G_tcb_map has the blocks that no task and no caller has.
MapIsRest ==
  \A i \in Tcb : i \in tcb_map
                   <=> i \notin live /\ \A c \in Caller : creating[c].tcb # i

\* A stack lies inside the stack memory.
StacksInside ==
  \A i \in WithStack : /\ need_pages(tcb[i].stack_size) <= tcb[i].top_page
                       /\ tcb[i].top_page <= STACK_PAGE_NUM

\* _G_stack_map has the pages that no stack has.
PagesAreRest ==
  \A p \in Page : p \in stack_map <=> \A i \in WithStack : p \notin StackPages(i)

Counted == Task_Num = Cardinality(live)

Typed ==
  /\ tcb_map \subseteq Tcb /\ stack_map \subseteq Page /\ live \subseteq Tcb
  /\ tcb \in [Tcb -> TCB_STACK]
  /\ creating \in [Caller -> [step : {"idle", "stack", "ready", "fail"},
                              tcb  : Tcb \cup {NoTcb}]]

TaskMemInv == Typed /\ StepOK /\ OwnTcb /\ MapIsRest /\ StacksInside /\ StacksDisjoint
         /\ PagesAreRest /\ Counted

\* Who has a stack.
LEMMA WithStackIs ==
  ASSUME TaskMemInv, NEW i
  PROVE  /\ i \in WithStack <=> \/ i \in live
                                \/ \E c \in Caller : /\ creating[c].step = "ready"
                                                     /\ creating[c].tcb = i
         /\ i \in WithStack => i \in Tcb /\ i \notin tcb_map
<1>1. i \in WithStack <=> \/ i \in live
                          \/ \E c \in Caller : /\ creating[c].step = "ready"
                                               /\ creating[c].tcb = i
  BY DEF WithStack
<1>2. ASSUME i \in WithStack PROVE i \in Tcb /\ i \notin tcb_map
  BY <1>1, <1>2 DEF TaskMemInv, Typed, StepOK, MapIsRest
<1> QED
  BY <1>1, <1>2

\* There are finitely many control blocks, and NoTcb is none of them.
LEMMA TcbFinite == /\ Tcb \subseteq Nat /\ IsFiniteSet(Tcb) /\ NoTcb \notin Tcb
                   /\ Page \subseteq Nat
  BY TaskMemAssumption, FS_Interval DEF Tcb, Page, NoTcb

\* The stack of a block whose size and top stay the same stays the same.
LEMMA SameStack ==
  ASSUME NEW i, tcb'[i] = tcb[i]
  PROVE  StackPages(i)' = StackPages(i)
  BY DEF StackPages

\* task_init: everything is available.
LEMMA TaskMemInitHolds == taskMemInit => TaskMemInv
<1> SUFFICES ASSUME taskMemInit PROVE TaskMemInv
  OBVIOUS
<1>1. \A c \in Caller : creating[c] = Idle
  BY DEF taskMemInit
<1>2. WithStack = {}
  BY <1>1 DEF taskMemInit, WithStack, Idle
<1>3. Typed
  BY DEF taskMemInit, Typed, Idle, TCB_STACK
<1>4. StepOK /\ OwnTcb /\ MapIsRest
  BY <1>1, TcbFinite DEF taskMemInit, StepOK, OwnTcb, MapIsRest, Idle
<1>5. StacksInside /\ StacksDisjoint /\ PagesAreRest
  BY <1>2 DEF taskMemInit, StacksInside, StacksDisjoint, PagesAreRest
<1>6. Counted
  BY FS_EmptySet DEF taskMemInit, Counted
<1> QED
  BY <1>3, <1>4, <1>5, <1>6 DEF TaskMemInv

-----------------------------------------------------------------------------
(* The steps.                                                              *)

\* _alloc_tcb: the new block is nobody's, and no stack changes.
LEMMA AllocTcbKeeps ==
  ASSUME TaskMemInv, NEW c \in Caller, NEW n \in StackSizes, alloc_tcb(c, n)
  PROVE  TaskMemInv'
<1>1. CASE tcb_map = {}
  <2>1. UNCHANGED taskMemVars
    BY <1>1 DEF alloc_tcb, taskMemVars
  <2> QED
    BY <2>1 DEF TaskMemInv, Typed, StepOK, OwnTcb, MapIsRest, StacksInside, StacksDisjoint,
                PagesAreRest, Counted, WithStack, StackPages, taskMemVars
<1>2. CASE tcb_map # {}
  <2>1. PICK i \in Tcb : i = LowestBit(tcb_map) /\ i \in tcb_map
    BY <1>2, LSBIsMember, TcbFinite DEF TaskMemInv, Typed
  <2>2. /\ creating[c] = Idle
        /\ tcb_map' = tcb_map \ {i}
        /\ tcb' = [tcb EXCEPT ![i].stack_size = stack_aligned(n)]
        /\ creating' = [creating EXCEPT ![c] = [step |-> "stack", tcb |-> i]]
        /\ UNCHANGED <<stack_map, live, Task_Num>>
    BY <1>2, <2>1 DEF alloc_tcb
  <2>3. stack_aligned(n) \in Nat
    BY AlignedIsNat, TaskMemAssumption
  <2>4. Typed'
    BY <2>1, <2>2, <2>3 DEF TaskMemInv, Typed, TCB_STACK
  <2>5. /\ creating'[c] = [step |-> "stack", tcb |-> i]
        /\ \A d \in Caller \ {c} : creating'[d] = creating[d]
        /\ creating[c].step = "idle" /\ creating[c].tcb = NoTcb
    BY <2>2 DEF TaskMemInv, Typed, Idle
  <2>6. i \notin live /\ \A d \in Caller : creating[d].tcb # i
    BY <2>1 DEF TaskMemInv, MapIsRest
  <2>7. i # NoTcb
    BY <2>1, TcbFinite
  <2>8. StepOK'
    BY <2>5, <2>7 DEF TaskMemInv, StepOK
  <2>9. OwnTcb'
    BY <2>2, <2>5, <2>6 DEF TaskMemInv, OwnTcb
  <2>10. MapIsRest'
    BY <2>1, <2>2, <2>5, <2>6, TcbFinite DEF TaskMemInv, MapIsRest
  <2>11. WithStack' = WithStack
    BY <2>2, <2>5 DEF WithStack
  <2>12. \A j \in WithStack : tcb'[j] = tcb[j]
    BY <2>1, <2>2, WithStackIs DEF TaskMemInv, Typed
  <2>13. \A j \in WithStack : StackPages(j)' = StackPages(j)
    BY <2>12, SameStack
  <2>14. StacksInside'
    BY <2>11, <2>12 DEF TaskMemInv, StacksInside
  <2>15. StacksDisjoint' /\ PagesAreRest'
    BY <2>2, <2>11, <2>13 DEF TaskMemInv, StacksDisjoint, PagesAreRest
  <2>16. Counted'
    BY <2>2 DEF TaskMemInv, Counted
  <2> QED
    BY <2>4, <2>8, <2>9, <2>10, <2>14, <2>15, <2>16 DEF TaskMemInv
<1> QED
  BY <1>1, <1>2

\* _alloc_stack: the pages of the new stack were available.
LEMMA AllocStackKeeps ==
  ASSUME TaskMemInv, NEW c \in Caller, alloc_stack(c)
  PROVE  TaskMemInv'
<1>0. PICK i \in Tcb : i = creating[c].tcb /\ creating[c].step = "stack"
  BY DEF alloc_stack, TaskMemInv, Typed, StepOK
<1>1. PICK need \in Nat : need = need_pages(tcb[i].stack_size)
  <2>1. tcb[i].stack_size \in Nat
    BY DEF TaskMemInv, Typed, TCB_STACK
  <2> QED
    BY <2>1, PagesHoldBytes
<1>2. CASE Places(need) = {}
  <2>1. /\ creating' = [creating EXCEPT ![c].step = "fail"]
        /\ UNCHANGED <<stack_map, tcb, tcb_map, live, Task_Num>>
    BY <1>0, <1>1, <1>2 DEF alloc_stack
  <2>2. /\ creating'[c] = [creating[c] EXCEPT !.step = "fail"]
        /\ \A d \in Caller \ {c} : creating'[d] = creating[d]
        /\ \A d \in Caller : creating'[d].tcb = creating[d].tcb
        /\ \A d \in Caller : creating'[d].step = "idle" <=> creating[d].step = "idle"
        /\ \A d \in Caller : creating'[d].step = "ready" <=> creating[d].step = "ready"
    BY <1>0, <2>1 DEF TaskMemInv, Typed
  <2>3. Typed'
    BY <2>1 DEF TaskMemInv, Typed
  <2>4. StepOK' /\ OwnTcb' /\ MapIsRest' /\ Counted'
    BY <2>1, <2>2 DEF TaskMemInv, StepOK, OwnTcb, MapIsRest, Counted
  <2>5. WithStack' = WithStack
    BY <2>1, <2>2 DEF WithStack
  <2>6. StacksInside' /\ StacksDisjoint' /\ PagesAreRest'
    BY <2>1, <2>5 DEF TaskMemInv, StacksInside, StacksDisjoint, PagesAreRest, StackPages
  <2> QED
    BY <2>3, <2>4, <2>6 DEF TaskMemInv
<1>3. CASE Places(need) # {}
  <2>0. PICK page : page = LowestBit(Places(need))
    OBVIOUS
  <2>1. /\ stack_map' = stack_map \ (page .. (page + need - 1))
        /\ tcb' = [tcb EXCEPT ![i].top_page = page + need]
        /\ creating' = [creating EXCEPT ![c].step = "ready"]
        /\ UNCHANGED <<tcb_map, live, Task_Num>>
    BY <1>0, <1>1, <1>3, <2>0 DEF alloc_stack
  <2>2. page \in Places(need)
    <3>1. Places(need) \in SUBSET Nat
      BY <1>1, TaskMemAssumption DEF Places
    <3> QED
      BY <3>1, <1>3, <2>0, LSBIsMember
  <2>3. /\ page \in Nat /\ page + need <= STACK_PAGE_NUM
        /\ page .. (page + need - 1) \subseteq stack_map
    BY <2>2, <1>1, TaskMemAssumption DEF Places
  <2>4. /\ creating'[c].step = "ready"
        /\ \A d \in Caller \ {c} : creating'[d] = creating[d]
        /\ \A d \in Caller : creating'[d].tcb = creating[d].tcb
        /\ \A d \in Caller : creating'[d].step = "idle" <=> creating[d].step = "idle"
    BY <1>0, <2>1 DEF TaskMemInv, Typed
  <2>5. /\ tcb'[i] = [tcb[i] EXCEPT !.top_page = page + need]
        /\ tcb'[i].stack_size = tcb[i].stack_size /\ tcb'[i].top_page = page + need
        /\ \A j \in Tcb \ {i} : tcb'[j] = tcb[j]
    BY <1>0, <2>1 DEF TaskMemInv, Typed, TCB_STACK
  <2>6. Typed'
    <3>1. page + need \in Nat
      BY <1>1, <2>3
    <3>2. tcb' \in [Tcb -> TCB_STACK]
      BY <1>0, <2>1, <3>1 DEF TaskMemInv, Typed, TCB_STACK
    <3> QED
      BY <2>1, <3>2 DEF TaskMemInv, Typed
  <2>7. StepOK' /\ OwnTcb' /\ MapIsRest' /\ Counted'
    BY <2>1, <2>4 DEF TaskMemInv, StepOK, OwnTcb, MapIsRest, Counted
  <2>8. WithStack' = WithStack \cup {i}
    <3>1. \A x : (\E d \in Caller : creating'[d].step = "ready" /\ creating'[d].tcb = x)
                  <=> \/ x = i
                      \/ \E d \in Caller : creating[d].step = "ready" /\ creating[d].tcb = x
      BY <2>4, <1>0
    <3> QED
      BY <2>1, <3>1 DEF WithStack
  <2>9. i \notin WithStack
    <3>1. i \notin live
      BY <1>0 DEF TaskMemInv, OwnTcb
    <3>2. \A d \in Caller : creating[d].step = "ready" => creating[d].tcb # i
      BY <1>0, TcbFinite DEF TaskMemInv, OwnTcb
    <3> QED
      BY <3>1, <3>2, WithStackIs
  <2>10. \A j \in WithStack : j \in Tcb /\ tcb'[j] = tcb[j]
    BY <2>5, <2>9, WithStackIs
  <2>11. \A j \in WithStack : StackPages(j)' = StackPages(j)
    BY <2>10, SameStack
  <2>12. StackPages(i)' = page .. (page + need - 1)
    <3>1. tcb'[i].stack_size = tcb[i].stack_size /\ tcb'[i].top_page = page + need
      BY <2>5
    <3>2. need_pages(tcb'[i].stack_size) = need
      BY <3>1, <1>1
    <3>3. StackPages(i)' = (tcb'[i].top_page - need_pages(tcb'[i].stack_size))
                             .. (tcb'[i].top_page - 1)
      BY DEF StackPages, need_pages
    <3>4. tcb'[i].top_page - need = page /\ tcb'[i].top_page - 1 = page + need - 1
      BY <3>1, <1>1, <2>3
    <3> QED
      BY <3>2, <3>3, <3>4
  <2>13. \A j \in WithStack : StackPages(j) \cap stack_map = {}
    BY DEF TaskMemInv, Typed, PagesAreRest
  <2>14. StacksInside'
    <3>1. need_pages(tcb'[i].stack_size) <= tcb'[i].top_page /\ tcb'[i].top_page <= STACK_PAGE_NUM
      BY <1>1, <2>3, <2>5
    <3> QED
      BY <3>1, <2>8, <2>10 DEF TaskMemInv, StacksInside
  <2>15. StacksDisjoint'
    BY <2>3, <2>8, <2>11, <2>12, <2>13 DEF TaskMemInv, StacksDisjoint
  <2>16. PagesAreRest'
    BY <2>1, <2>8, <2>11, <2>12 DEF TaskMemInv, PagesAreRest
  <2> QED
    BY <2>6, <2>7, <2>14, <2>15, <2>16 DEF TaskMemInv
<1> QED
  BY <1>2, <1>3


\* _release_tcb of a creation that found no stack.
LEMMA ReleaseTcbKeeps ==
  ASSUME TaskMemInv, NEW c \in Caller, release_tcb(c)
  PROVE  TaskMemInv'
<1>1. PICK i \in Tcb : i = creating[c].tcb /\ creating[c].step = "fail"
  BY DEF release_tcb, TaskMemInv, Typed, StepOK
<1>2. /\ tcb_map' = tcb_map \cup {i}
      /\ creating' = [creating EXCEPT ![c] = Idle]
      /\ UNCHANGED <<stack_map, tcb, live, Task_Num>>
  BY <1>1 DEF release_tcb
<1>3. /\ creating'[c].step = "idle" /\ creating'[c].tcb = NoTcb
      /\ \A d \in Caller \ {c} : creating'[d] = creating[d]
  BY <1>2 DEF TaskMemInv, Typed, Idle
<1>4. Typed'
  BY <1>2 DEF TaskMemInv, Typed, Idle
<1>5. StepOK' /\ Counted'
  BY <1>2, <1>3 DEF TaskMemInv, StepOK, Counted
<1>6. OwnTcb'
  BY <1>2, <1>3, TcbFinite DEF TaskMemInv, Typed, OwnTcb
<1>7. MapIsRest'
  <2>1. i \notin live /\ \A d \in Caller \ {c} : creating[d].tcb # i
    BY <1>1, TcbFinite DEF TaskMemInv, OwnTcb
  <2> QED
    BY <1>1, <1>2, <1>3, <2>1, TcbFinite DEF TaskMemInv, MapIsRest
<1>8. WithStack' = WithStack
  BY <1>1, <1>2, <1>3 DEF WithStack
<1>9. StacksInside' /\ StacksDisjoint' /\ PagesAreRest'
  BY <1>2, <1>8 DEF TaskMemInv, StacksInside, StacksDisjoint, PagesAreRest, StackPages
<1> QED
  BY <1>4, <1>5, <1>6, <1>7, <1>9 DEF TaskMemInv

\* The last critical section of task_create: the stack passes from the caller to
\* the task.
LEMMA PutReadyKeeps ==
  ASSUME TaskMemInv, NEW c \in Caller, put_ready(c)
  PROVE  TaskMemInv'
<1>1. PICK i \in Tcb : i = creating[c].tcb /\ creating[c].step = "ready"
  BY DEF put_ready, TaskMemInv, Typed, StepOK
<1>2. /\ live' = live \cup {i}
      /\ Task_Num' = Task_Num + 1
      /\ creating' = [creating EXCEPT ![c] = Idle]
      /\ UNCHANGED <<tcb_map, stack_map, tcb>>
  BY <1>1 DEF put_ready
<1>3. /\ creating'[c].step = "idle" /\ creating'[c].tcb = NoTcb
      /\ \A d \in Caller \ {c} : creating'[d] = creating[d]
  BY <1>2 DEF TaskMemInv, Typed, Idle
<1>4. i \notin live /\ \A d \in Caller \ {c} : creating[d].tcb # i
  BY <1>1, TcbFinite DEF TaskMemInv, OwnTcb
<1>5. Typed'
  BY <1>2 DEF TaskMemInv, Typed, Idle
<1>6. StepOK'
  BY <1>3 DEF TaskMemInv, StepOK
<1>7. OwnTcb'
  BY <1>2, <1>3, <1>4, TcbFinite DEF TaskMemInv, Typed, OwnTcb
<1>8. MapIsRest'
  BY <1>1, <1>2, <1>3, <1>4, TcbFinite DEF TaskMemInv, MapIsRest
<1>9. WithStack' = WithStack
  <2>1. \A x : (\E d \in Caller : creating[d].step = "ready" /\ creating[d].tcb = x)
               <=> \/ x = i
                   \/ \E d \in Caller : creating'[d].step = "ready" /\ creating'[d].tcb = x
    BY <1>1, <1>3
  <2> QED
    BY <1>2, <2>1 DEF WithStack
<1>10. StacksInside' /\ StacksDisjoint' /\ PagesAreRest'
  BY <1>2, <1>9 DEF TaskMemInv, StacksInside, StacksDisjoint, PagesAreRest, StackPages
<1>11. Counted'
  <2>1. IsFiniteSet(live)
    BY FS_Subset, TcbFinite DEF TaskMemInv, Typed
  <2> QED
    BY <1>2, <1>4, <2>1, FS_AddElement DEF TaskMemInv, Counted
<1> QED
  BY <1>5, <1>6, <1>7, <1>8, <1>10, <1>11 DEF TaskMemInv

\* task_delete and _task_entry: the pages of this stack, and no others, become
\* available.
LEMMA DeleteKeeps ==
  ASSUME TaskMemInv, NEW i \in Tcb, task_delete(i)
  PROVE  TaskMemInv'
<1>1. /\ i \in live
      /\ stack_map' = stack_map \cup StackPages(i)
      /\ tcb_map' = tcb_map \cup {i}
      /\ live' = live \ {i}
      /\ Task_Num' = Task_Num - 1
      /\ UNCHANGED <<tcb, creating>>
  BY DEF task_delete
<1>2. \A d \in Caller : creating[d].tcb # i
  BY <1>1 DEF TaskMemInv, OwnTcb
<1>3. i \in WithStack /\ WithStack' = WithStack \ {i}
  <2>1. \A x : (\E d \in Caller : creating[d].step = "ready" /\ creating[d].tcb = x) => x # i
    BY <1>2
  <2> QED
    BY <1>1, <2>1 DEF WithStack
<1>4. \A j : StackPages(j)' = StackPages(j)
  BY <1>1 DEF StackPages
<1>5. StackPages(i) \subseteq Page
  <2>1. PICK need \in Nat : need = need_pages(tcb[i].stack_size)
    <3>1. tcb[i].stack_size \in Nat
      BY DEF TaskMemInv, Typed, TCB_STACK
    <3> QED
      BY <3>1, PagesHoldBytes
  <2>2. PICK top \in Nat : top = tcb[i].top_page
    BY DEF TaskMemInv, Typed, TCB_STACK
  <2>3. need <= top /\ top <= STACK_PAGE_NUM
    BY <1>3, <2>1, <2>2 DEF TaskMemInv, StacksInside
  <2>4. (top - need) .. (top - 1) \subseteq Page
    BY <2>3, TaskMemAssumption DEF Page
  <2> QED
    BY <2>1, <2>2, <2>4 DEF StackPages
<1>6. Typed'
  BY <1>1, <1>5 DEF TaskMemInv, Typed
<1>7. StepOK' /\ OwnTcb' /\ MapIsRest'
  BY <1>1, <1>2 DEF TaskMemInv, StepOK, OwnTcb, MapIsRest
<1>8. StacksInside' /\ StacksDisjoint'
  BY <1>1, <1>3, <1>4 DEF TaskMemInv, StacksInside, StacksDisjoint
<1>9. PagesAreRest'
  BY <1>1, <1>3, <1>4 DEF TaskMemInv, StacksDisjoint, PagesAreRest
<1>10. Counted'
  <2>1. IsFiniteSet(live)
    BY FS_Subset, TcbFinite DEF TaskMemInv, Typed
  <2> QED
    BY <1>1, <2>1, FS_RemoveElement DEF TaskMemInv, Counted
<1> QED
  BY <1>6, <1>7, <1>8, <1>9, <1>10 DEF TaskMemInv

\* Every step keeps the invariant.
LEMMA TaskMemStepKeeps == TaskMemInv /\ [taskMemNext]_taskMemVars => TaskMemInv'
<1> SUFFICES ASSUME TaskMemInv, [taskMemNext]_taskMemVars PROVE TaskMemInv'
  OBVIOUS
<1>1. CASE UNCHANGED taskMemVars
  BY <1>1 DEF TaskMemInv, Typed, StepOK, OwnTcb, MapIsRest, StacksInside, StacksDisjoint,
              PagesAreRest, Counted, WithStack, StackPages, taskMemVars
<1>2. CASE taskMemNext
  BY <1>2, AllocTcbKeeps, AllocStackKeeps, ReleaseTcbKeeps, PutReadyKeeps, DeleteKeeps
     DEF taskMemNext
<1> QED
  BY <1>1, <1>2

-----------------------------------------------------------------------------
(* What follows from the invariant.                                        *)

\* The count of tasks, and with it every variable, has its type.
LEMMA InvIsTyped == TaskMemInv => taskMemTypeOK
<1> SUFFICES ASSUME TaskMemInv PROVE taskMemTypeOK
  OBVIOUS
<1>1. IsFiniteSet(live)
  BY FS_Subset, TcbFinite DEF TaskMemInv, Typed
<1>2. Task_Num \in Nat
  BY <1>1, FS_CardinalityType DEF TaskMemInv, Counted
<1> QED
  BY <1>2 DEF TaskMemInv, Typed, taskMemTypeOK

\* Every page is available or of one stack.
LEMMA InvLosesNoPage == TaskMemInv => NoPageLost
  BY DEF TaskMemInv, Typed, PagesAreRest, NoPageLost

\* Every control block is available or has one user.
LEMMA InvLosesNoTcb == TaskMemInv => NoTcbLost
<1> SUFFICES ASSUME TaskMemInv PROVE NoTcbLost
  OBVIOUS
<1>1. \A c \in Caller : creating[c] # Idle => creating[c].tcb # NoTcb
  BY DEF TaskMemInv, Typed, StepOK, Idle
<1>2. \A i \in Tcb : i \in WithStack \cup Bare
                       <=> i \in live \/ \E c \in Caller : creating[c].tcb = i
  <2>1. \A c \in Caller : creating[c].tcb \in Tcb
                            => creating[c].step \in {"stack", "ready", "fail"}
    BY TcbFinite DEF TaskMemInv, Typed, StepOK
  <2> QED
    BY <2>1 DEF WithStack, Bare
<1>3. tcb_map = Tcb \ (WithStack \cup Bare)
  BY <1>2 DEF TaskMemInv, Typed, MapIsRest
<1> QED
  BY <1>1, <1>3 DEF TaskMemInv, OwnTcb, NoTcbLost

\* The stacks lie in the stack memory and are large enough.
LEMMA InvFits == TaskMemInv => StackFits
<1> SUFFICES ASSUME TaskMemInv, NEW i \in WithStack
             PROVE  /\ StackPages(i) \subseteq Page
                    /\ tcb[i].stack_size <= Cardinality(StackPages(i)) * STACK_PAGE_SIZE
  BY DEF StackFits
<1>0. i \in Tcb
  BY WithStackIs
<1>1. PICK n \in Nat : n = tcb[i].stack_size
  BY <1>0 DEF TaskMemInv, Typed, TCB_STACK
<1>2. PICK top \in Nat : top = tcb[i].top_page
  BY <1>0 DEF TaskMemInv, Typed, TCB_STACK
<1>3. PICK need \in Nat : need = need_pages(n) /\ n <= need * STACK_PAGE_SIZE
  BY PagesHoldBytes
<1>4. need <= top /\ top <= STACK_PAGE_NUM
  BY <1>1, <1>2, <1>3 DEF TaskMemInv, StacksInside
<1>5. StackPages(i) = (top - need) .. (top - 1)
  BY <1>1, <1>2, <1>3 DEF StackPages
<1>6. (top - need) .. (top - 1) \subseteq Page
  BY <1>4, TaskMemAssumption DEF Page
<1>7. Cardinality((top - need) .. (top - 1)) = need
  <2>1. top - need \in Int /\ top - 1 \in Int
    OBVIOUS
  <2> QED
    BY <2>1, <1>4, FS_Interval
<1> QED
  BY <1>1, <1>3, <1>5, <1>6, <1>7

\* For every number of control blocks, pages and tasks that create tasks at the
\* same time, and for all stack sizes: no two tasks share a page or a control
\* block, task_delete and a failed task_create give back exactly what was taken,
\* and a stack is as large as it was asked for.
THEOREM TaskMemoryIsCorrect ==
  taskMemSpec => [](taskMemTypeOK /\ StacksDisjoint /\ NoPageLost /\ NoTcbLost /\ StackFits)
<1>1. taskMemSpec => []TaskMemInv
  BY TaskMemInitHolds, TaskMemStepKeeps, PTL DEF taskMemSpec
<1>2. TaskMemInv => taskMemTypeOK /\ StacksDisjoint /\ NoPageLost /\ NoTcbLost /\ StackFits
  BY InvIsTyped, InvLosesNoPage, InvLosesNoTcb, InvFits DEF TaskMemInv
<1> QED
  BY <1>1, <1>2, PTL

\* No two tasks share a page of their stacks, however many create tasks at once.
THEOREM StacksAreDisjoint == taskMemSpec => []StacksDisjoint
  BY TaskMemoryIsCorrect, PTL

\* A control block is free, or of one task that lives or is being created.
THEOREM TcbsAreKept == taskMemSpec => []NoTcbLost
  BY TaskMemoryIsCorrect, PTL

-----------------------------------------------------------------------------
(* The heap.                                                               *)

(* Sums over finite sets.                                                  *)

\* The member that the sum takes first.
Some(s) == CHOOSE x \in s : TRUE

\* The equation of the recursive function behind SumFunctionOnSet, at s.
SumAt(F, g, s) == IF s = {} THEN 0 ELSE g[Some(s)] + F[s \ {Some(s)}]

\* A function of the subsets of S that obeys the equation.
SumsOver(F, g, S) == F = [s \in SUBSET S |-> SumAt(F, g, s)]

\* SumFunctionOnSet, which the counters of the heap are compared with, is the value
\* at S of a function of the subsets of S.
LEMMA SumIs ==
  ASSUME NEW g, NEW S
  PROVE  SumFunctionOnSet(g, S) = (CHOOSE F : SumsOver(F, g, S))[S]
  BY DEF SumFunctionOnSet, FoldFunctionOnSet, MapThenFoldSet, SumsOver, SumAt, Some

\* The subsets with at most n members.
Upto(n, S) == {s \in SUBSET S : IsFiniteSet(s) /\ Cardinality(s) <= n}

\* A set without one of its members is smaller.
LEMMA SomeLess ==
  ASSUME NEW S, NEW n \in Nat, NEW s \in Upto(n + 1, S), s # {}
  PROVE  Some(s) \in s /\ s \ {Some(s)} \in Upto(n, S)
<1>1. Some(s) \in s
  BY DEF Some
<1>2. IsFiniteSet(s) /\ Cardinality(s) \in Nat /\ Cardinality(s) <= n + 1
  BY FS_CardinalityType DEF Upto
<1>3. IsFiniteSet(s \ {Some(s)}) /\ Cardinality(s \ {Some(s)}) = Cardinality(s) - 1
  BY <1>1, <1>2, FS_RemoveElement
<1> QED
  BY <1>1, <1>2, <1>3 DEF Upto

\* Only the empty set has no members.
LEMMA UptoZero ==
  ASSUME NEW S PROVE Upto(0, S) = {{}}
<1>1. \A s \in Upto(0, S) : s = {}
  BY FS_EmptySet, FS_CardinalityType DEF Upto
<1>2. {} \in Upto(0, S)
  BY FS_EmptySet DEF Upto
<1> QED
  BY <1>1, <1>2

\* Larger subsets are subsets of the larger bound.
LEMMA UptoGrows ==
  ASSUME NEW S, NEW n \in Nat
  PROVE  Upto(n, S) \subseteq Upto(n + 1, S)
  BY FS_CardinalityType DEF Upto

\* The sums of a finite set exist: the function is built up with the size of its
\* arguments.
LEMMA SumsExist ==
  ASSUME NEW S, IsFiniteSet(S), NEW g, \A x \in S : g[x] \in Nat
  PROVE  \E F \in [SUBSET S -> Nat] : SumsOver(F, g, S)
<1> DEFINE Good(F, n) == /\ F \in [Upto(n, S) -> Nat]
                         /\ \A s \in Upto(n, S) : F[s] = SumAt(F, g, s)
           T == {n \in Nat : \E F : Good(F, n)}
<1>1. 0 \in T
  <2> DEFINE F0 == [s \in Upto(0, S) |-> 0]
  <2>1. Good(F0, 0)
    BY UptoZero DEF SumAt
  <2> HIDE DEF F0
  <2> QED
    BY <2>1
<1>2. ASSUME NEW n \in Nat, n \in T PROVE n + 1 \in T
  <2>1. PICK F : Good(F, n)
    BY <1>2
  <2> DEFINE G == [s \in Upto(n + 1, S) |-> IF s \in Upto(n, S) THEN F[s]
                                            ELSE SumAt(F, g, s)]
  <2>2. ASSUME NEW s \in Upto(n + 1, S), s # {}
        PROVE  /\ g[Some(s)] \in Nat /\ s \ {Some(s)} \in Upto(n, S)
               /\ s \ {Some(s)} \in Upto(n + 1, S)
    BY <2>2, SomeLess, UptoGrows DEF Upto
  <2>3. ASSUME NEW s \in Upto(n + 1, S) PROVE G[s] = SumAt(F, g, s) /\ G[s] \in Nat
    <3>1. G[s] = SumAt(F, g, s)
      BY <2>1
    <3>2. SumAt(F, g, s) \in Nat
      BY <2>1, <2>2 DEF SumAt
    <3> QED
      BY <3>1, <3>2
  <2>4. \A s \in Upto(n, S) : G[s] = F[s]
    BY UptoGrows
  <2>5. G = [s \in Upto(n + 1, S) |-> G[s]]
    OBVIOUS
  <2> HIDE DEF G
  <2>6. ASSUME NEW s \in Upto(n + 1, S) PROVE SumAt(F, g, s) = SumAt(G, g, s)
    BY <2>2, <2>4 DEF SumAt
  <2>7. G \in [Upto(n + 1, S) -> Nat]
    BY <2>3, <2>5
  <2>8. Good(G, n + 1)
    BY <2>3, <2>6, <2>7
  <2> QED
    BY <2>8
<1> HIDE DEF T
<1>3. \A n \in Nat : n \in T
  BY <1>1, <1>2, Induction
<1>4. Cardinality(S) \in Nat
  BY FS_CardinalityType
<1>5. Upto(Cardinality(S), S) = SUBSET S
  BY FS_Subset, FS_CardinalityType DEF Upto
<1>6. PICK F : Good(F, Cardinality(S))
  BY <1>3, <1>4 DEF T
<1> QED
  BY <1>5, <1>6 DEF SumsOver

\* What the sums add up depends neither on the set around them...
LEMMA SumsAgree ==
  ASSUME NEW S, NEW R, NEW g, NEW h, NEW F, NEW G,
         SumsOver(F, g, S), SumsOver(G, h, R),
         NEW s, s \subseteq S, s \subseteq R, IsFiniteSet(s),
         \A x \in s : g[x] = h[x]
  PROVE  F[s] = G[s]
<1> DEFINE T == {n \in Nat : \A r \in Upto(n, s) : F[r] = G[r]}
<1>0. \A r \in SUBSET s : F[r] = SumAt(F, g, r) /\ G[r] = SumAt(G, h, r)
  BY DEF SumsOver
<1>1. 0 \in T
  BY <1>0, UptoZero DEF SumAt
<1>2. ASSUME NEW n \in Nat, n \in T PROVE n + 1 \in T
  <2>1. ASSUME NEW r \in Upto(n + 1, s) PROVE F[r] = G[r]
    <3>1. CASE r = {}
      BY <1>0, <3>1 DEF SumAt
    <3>2. CASE r # {}
      <4>1. Some(r) \in r /\ r \ {Some(r)} \in Upto(n, s)
        BY <2>1, <3>2, SomeLess
      <4>2. F[r \ {Some(r)}] = G[r \ {Some(r)}] /\ r \in SUBSET s
        BY <1>2, <2>1, <4>1 DEF Upto
      <4>3. g[Some(r)] = h[Some(r)]
        BY <4>1, <4>2
      <4>4. F[r] = SumAt(F, g, r) /\ G[r] = SumAt(G, h, r)
        BY <1>0, <4>2
      <4> QED
        BY <3>2, <4>2, <4>3, <4>4 DEF SumAt
    <3> QED
      BY <3>1, <3>2
  <2> QED
    BY <2>1
<1> HIDE DEF T
<1>3. \A n \in Nat : n \in T
  BY <1>1, <1>2, Induction
<1>4. Cardinality(s) \in Nat /\ s \in Upto(Cardinality(s), s)
  BY FS_CardinalityType DEF Upto
<1> QED
  BY <1>3, <1>4 DEF T

\* ...nor on the values elsewhere.
LEMMA SumSame ==
  ASSUME NEW S, IsFiniteSet(S), NEW g, NEW h, \A x \in S : g[x] \in Nat /\ g[x] = h[x]
  PROVE  /\ SumFunctionOnSet(g, S) \in Nat
         /\ SumFunctionOnSet(g, S) = SumFunctionOnSet(h, S)
<1> DEFINE F == CHOOSE F : SumsOver(F, g, S)
           G == CHOOSE G : SumsOver(G, h, S)
<1>1. PICK F1 \in [SUBSET S -> Nat] : SumsOver(F1, g, S)
  BY SumsExist
<1>2. \E G1 : SumsOver(G1, h, S)
  BY SumsExist
<1>3. SumsOver(F, g, S) /\ SumsOver(G, h, S)
  BY <1>1, <1>2
<1>4. SumFunctionOnSet(g, S) = F[S] /\ SumFunctionOnSet(h, S) = G[S]
  BY SumIs
<1> HIDE DEF F, G
<1>5. F[S] = G[S] /\ F[S] = F1[S]
  BY <1>1, <1>3, SumsAgree
<1> QED
  BY <1>1, <1>4, <1>5

\* Nothing adds up to 0.
LEMMA SumEmpty == ASSUME NEW g PROVE SumFunctionOnSet(g, {}) = 0
<1>1. \E F : SumsOver(F, g, {})
  BY SumsExist, FS_EmptySet
<1>2. ASSUME NEW F, SumsOver(F, g, {}) PROVE F[{}] = 0
  BY <1>2 DEF SumsOver, SumAt
<1> QED
  BY <1>1, <1>2, SumIs

\* One member more.
LEMMA SumSome ==
  ASSUME NEW S, IsFiniteSet(S), S # {}, NEW g, \A x \in S : g[x] \in Nat
  PROVE  /\ Some(S) \in S
         /\ SumFunctionOnSet(g, S) = g[Some(S)] + SumFunctionOnSet(g, S \ {Some(S)})
<1> DEFINE R == S \ {Some(S)}
<1>0. Some(S) \in S
  BY DEF Some
<1>1. IsFiniteSet(R)
  BY FS_Subset
<1>2. PICK F : SumsOver(F, g, S) /\ SumFunctionOnSet(g, S) = F[S]
  BY SumsExist, SumIs
<1>3. PICK G : SumsOver(G, g, R) /\ SumFunctionOnSet(g, R) = G[R]
  BY <1>1, SumsExist, SumIs
<1>4. F[R] = G[R]
  BY <1>1, <1>2, <1>3, SumsAgree
<1>5. F[S] = g[Some(S)] + F[R]
  BY <1>2 DEF SumsOver, SumAt
<1> QED
  BY <1>0, <1>2, <1>3, <1>4, <1>5

\* A member can be added last.
LEMMA SumAdd ==
  ASSUME NEW S, IsFiniteSet(S), NEW g, \A x \in S : g[x] \in Nat, NEW x \in S
  PROVE  SumFunctionOnSet(g, S) = g[x] + SumFunctionOnSet(g, S \ {x})
<1> DEFINE Sum(R) == SumFunctionOnSet(g, R)
           T == {n \in Nat : \A R \in Upto(n, S) : \A y \in R : Sum(R) = g[y] + Sum(R \ {y})}
<1>0. \A R \in SUBSET S : IsFiniteSet(R) /\ Sum(R) \in Nat
  BY FS_Subset, SumSame
<1>s. ASSUME NEW R \in SUBSET S, R # {}
      PROVE Some(R) \in R /\ Sum(R) = g[Some(R)] + Sum(R \ {Some(R)})
  BY <1>0, <1>s, SumSome
<1> HIDE DEF Sum
<1>1. 0 \in T
  BY UptoZero
<1>2. ASSUME NEW n \in Nat, n \in T PROVE n + 1 \in T
  <2>1. ASSUME NEW R \in Upto(n + 1, S), NEW y \in R PROVE Sum(R) = g[y] + Sum(R \ {y})
    <3> DEFINE c == Some(R)
    <3>0. R \in SUBSET S
      BY <2>1 DEF Upto
    <3>1. c \in R /\ Sum(R) = g[c] + Sum(R \ {c}) /\ R \ {c} \in Upto(n, S)
      BY <1>s, <2>1, <3>0, SomeLess
    <3> HIDE DEF c
    <3>2. CASE y = c
      BY <3>1, <3>2
    <3>3. CASE y # c
      <4>1. Sum(R \ {c}) = g[y] + Sum((R \ {c}) \ {y})
        BY <1>2, <3>1, <3>3
      <4>2. R \ {y} \in Upto(n, S)
        <5>1. IsFiniteSet(R) /\ Cardinality(R) \in Nat /\ Cardinality(R) <= n + 1
          BY FS_CardinalityType DEF Upto
        <5>2. IsFiniteSet(R \ {y}) /\ Cardinality(R \ {y}) = Cardinality(R) - 1
          BY <5>1, FS_RemoveElement
        <5> QED
          BY <5>1, <5>2, <3>0 DEF Upto
      <4>3. Sum(R \ {y}) = g[c] + Sum((R \ {y}) \ {c})
        BY <1>2, <3>1, <3>3, <4>2
      <4>4. (R \ {y}) \ {c} = (R \ {c}) \ {y}
        OBVIOUS
      <4>5. g[y] \in Nat /\ g[c] \in Nat /\ Sum((R \ {c}) \ {y}) \in Nat
        BY <1>0, <3>0, <3>1
      <4> QED
        BY <3>1, <4>1, <4>3, <4>4, <4>5
    <3> QED
      BY <3>2, <3>3
  <2> QED
    BY <2>1
<1> HIDE DEF T
<1>3. \A n \in Nat : n \in T
  BY <1>1, <1>2, Induction
<1>4. Cardinality(S) \in Nat /\ S \in Upto(Cardinality(S), S)
  BY FS_CardinalityType DEF Upto
<1> QED
  BY <1>3, <1>4 DEF T, Sum

\* What the chain of heads f says.
Aligned == {x \in Int : x % HEAP_ALIGN = 0}

End(f, p) == p + HEAD + f[p].size

Heads(f) ==
  /\ f \in [DOMAIN f -> BLOCK_HEAD]
  /\ DOMAIN f \subseteq 0 .. HEAP_SIZE - 1
  /\ \A p \in DOMAIN f : /\ p \in Aligned /\ f[p].size \in Aligned
                         /\ f[p].next = NoBlock => f[p].size > 0

Tiles(f) ==
  /\ 0 \in DOMAIN f /\ f[0].prev = NoBlock
  /\ \A p \in DOMAIN f :
       /\ \/ f[p].next = NoBlock /\ End(f, p) = HEAP_SIZE
          \/ /\ f[p].next = End(f, p) /\ End(f, p) \in DOMAIN f
             /\ f[End(f, p)].prev = p
       /\ p # 0 => f[p].prev \in DOMAIN f /\ f[f[p].prev].next = p
       /\ \A q \in DOMAIN f : p < q => End(f, p) <= q

Chain(f) == Heads(f) /\ Tiles(f)

\* The parts of a step: a block changes hands, the block p keeps n bytes and a
\* new one gets the rest, the block p takes in the next one.
marked(f, p, b) == [f EXCEPT ![p].is_alloced = b]

with_prev(h, x) == [h EXCEPT !.prev = x]

with_next(h, x, n) == [h EXCEPT !.next = x, !.size = n]

rest(f, p, n) == [prev |-> p, next |-> f[p].next, size |-> f[p].size - (n + HEAD),
                  is_alloced |-> FALSE]

cut(f, p, n) ==
  [a \in DOMAIN f \cup {p + HEAD + n} |->
     IF a = p + HEAD + n THEN rest(f, p, n)
     ELSE IF a = p THEN with_next(f[a], p + HEAD + n, n)
     ELSE IF a = f[p].next THEN with_prev(f[a], p + HEAD + n)
     ELSE f[a]]

merged(f, p) ==
  [a \in DOMAIN f \ {f[p].next} |->
     IF a = p THEN with_next(f[a], f[f[p].next].next, f[p].size + f[f[p].next].size + HEAD)
     ELSE IF a = f[f[p].next].next THEN with_prev(f[a], p)
     ELSE f[a]]

\* What the assumption on the constants of the heap says.
LEMMA HeapConstants ==
  /\ HEAP_ALIGN \in Nat /\ HEAP_ALIGN > 0 /\ HEAD \in Nat /\ HEAD > 0 /\ HEAP_SIZE \in Nat
  /\ HEAD \in Aligned /\ HEAP_SIZE \in Aligned /\ WORD \in Nat
  /\ HEAD + HEAP_ALIGN <= HEAP_SIZE /\ HEAP_SIZE < WORD /\ NoBlock = -1
  BY MemHAssumption DEF Aligned, NoBlock

\* Multiples of HEAP_ALIGN.
LEMMA Multiple ==
  ASSUME NEW q \in Int
  PROVE  (HEAP_ALIGN * q) % HEAP_ALIGN = 0
<1> DEFINE A == HEAP_ALIGN
           z == A * q
           d == z \div A
           r == z % A
<1>0. A \in Nat /\ A > 0
  BY HeapConstants
<1> HIDE DEF A
<1>1. z \in Int
  BY <1>0
<1>2. d \in Int /\ r \in 0 .. A - 1 /\ z = A * d + r
  <2> HIDE DEF z
  <2> QED
    BY <1>0, <1>1
<1> HIDE DEF d, r
<1>3. A * (q - d) = r
  BY <1>0, <1>2 DEF z
<1>4. q - d <= 0
  <2>1. SUFFICES ASSUME q - d >= 1 PROVE FALSE
    BY <1>2
  <2>2. A * (q - d) >= A
    BY <1>0, <1>2, <2>1
  <2> QED
    BY <1>0, <1>2, <1>3, <2>2
<1>5. q - d >= 0
  <2>1. SUFFICES ASSUME q - d <= -1 PROVE FALSE
    BY <1>2
  <2>2. A * (q - d) <= -A
    BY <1>0, <1>2, <2>1
  <2> QED
    BY <1>0, <1>2, <1>3, <2>2
<1>6. q - d = 0
  BY <1>2, <1>4, <1>5
<1>7. A * 0 = r
  BY <1>3, <1>6
<1>8. r = 0
  BY <1>0, <1>7
<1> QED
  BY <1>8 DEF r, z, A

\* An aligned number is a multiple of HEAP_ALIGN.
LEMMA AlignedIs ==
  ASSUME NEW x \in Aligned
  PROVE  x \in Int /\ \E q \in Int : x = HEAP_ALIGN * q
<1>1. x \in Int /\ x % HEAP_ALIGN = 0 /\ HEAP_ALIGN \in Nat /\ HEAP_ALIGN > 0
  BY HeapConstants DEF Aligned
<1> DEFINE q == x \div HEAP_ALIGN
           r == x % HEAP_ALIGN
<1>2. q \in Int /\ r = 0 /\ x = HEAP_ALIGN * q + r
  BY <1>1
<1> HIDE DEF q, r
<1>3. HEAP_ALIGN * q \in Int
  BY <1>1, <1>2
<1>4. x = HEAP_ALIGN * q
  BY <1>2, <1>3
<1> QED
  BY <1>1, <1>2, <1>4

\* Sums and differences of aligned numbers are aligned.
LEMMA AlignedSum ==
  ASSUME NEW x \in Aligned, NEW y \in Aligned
  PROVE  x + y \in Aligned /\ x - y \in Aligned
<1>1. PICK q \in Int : x = HEAP_ALIGN * q
  BY AlignedIs
<1>2. PICK r \in Int : y = HEAP_ALIGN * r
  BY AlignedIs
<1>3. x + y = HEAP_ALIGN * (q + r) /\ x - y = HEAP_ALIGN * (q - r)
  BY <1>1, <1>2, HeapConstants
<1>4. (HEAP_ALIGN * (q + r)) % HEAP_ALIGN = 0 /\ (HEAP_ALIGN * (q - r)) % HEAP_ALIGN = 0
  BY Multiple
<1>5. x \in Int /\ y \in Int
  BY AlignedIs
<1> HIDE DEF Aligned
<1> QED
  BY <1>3, <1>4, <1>5 DEF Aligned

\* The size that malloc looks for.
LEMMA AlignedUp ==
  ASSUME NEW n \in Nat
  PROVE  /\ aligned(n) \in Nat /\ aligned(n) \in Aligned
         /\ n + HEAP_ALIGN <= WORD => n <= aligned(n)
<1> DEFINE m == (n + HEAP_ALIGN - 1) % WORD
           q == m \div HEAP_ALIGN
           r == m % HEAP_ALIGN
<1>0. HEAP_ALIGN \in Nat /\ HEAP_ALIGN > 0 /\ WORD \in Nat /\ WORD > 0
  BY HeapConstants
<1>1. m \in Nat /\ (n + HEAP_ALIGN <= WORD => m = n + HEAP_ALIGN - 1)
  BY <1>0
<1> HIDE DEF m
<1>2. q \in Nat /\ r \in 0 .. HEAP_ALIGN - 1 /\ m = HEAP_ALIGN * q + r
  BY <1>0, <1>1
<1> HIDE DEF q, r
<1>3. m - r = HEAP_ALIGN * q /\ HEAP_ALIGN * q \in Int
  BY <1>0, <1>1, <1>2
<1>4. m - r \in Aligned
  BY <1>2, <1>3, Multiple DEF Aligned
<1>5. m - r \in Nat /\ (n + HEAP_ALIGN <= WORD => n <= m - r)
  <2>1. HEAP_ALIGN * q >= 0
    BY <1>0, <1>2
  <2> QED
    BY <1>0, <1>1, <1>2, <1>3, <2>1
<1>6. aligned(n) = m - r
  BY DEF aligned, m, r
<1> QED
  BY <1>4, <1>5, <1>6

\* A block changes hands.
LEMMA MarkedIs ==
  ASSUME NEW f, f \in [DOMAIN f -> BLOCK_HEAD], NEW p \in DOMAIN f, NEW b \in BOOLEAN
  PROVE  /\ DOMAIN marked(f, p, b) = DOMAIN f
         /\ marked(f, p, b) \in [DOMAIN f -> BLOCK_HEAD]
         /\ \A a \in DOMAIN f : /\ marked(f, p, b)[a].prev = f[a].prev
                                /\ marked(f, p, b)[a].next = f[a].next
                                /\ marked(f, p, b)[a].size = f[a].size
         /\ marked(f, p, b)[p].is_alloced = b
         /\ \A a \in DOMAIN f \ {p} : marked(f, p, b)[a] = f[a]
  BY DEF marked, BLOCK_HEAD

\* A chain stays one when a block changes hands.
LEMMA MarkKeeps ==
  ASSUME NEW f, Chain(f), NEW p \in DOMAIN f, NEW b \in BOOLEAN
  PROVE  Chain(marked(f, p, b))
<1> DEFINE g == marked(f, p, b)
<1>1. /\ DOMAIN g = DOMAIN f /\ g \in [DOMAIN f -> BLOCK_HEAD]
      /\ \A a \in DOMAIN f : /\ g[a].prev = f[a].prev
                             /\ g[a].next = f[a].next
                             /\ g[a].size = f[a].size
  BY MarkedIs DEF Chain, Heads
<1> HIDE DEF g
<1>2. Heads(g)
  BY <1>1 DEF Chain, Heads
<1>3. \A a \in DOMAIN f : End(g, a) = End(f, a)
  BY <1>1 DEF End
<1>4. Tiles(g)
  BY <1>1, <1>3 DEF Chain, Tiles
<1> QED
  BY <1>2, <1>4 DEF Chain, g

\* The heads that change in a cut or a merge.
LEMMA PrevIs ==
  ASSUME NEW h \in BLOCK_HEAD, NEW x \in Int
  PROVE  /\ with_prev(h, x) \in BLOCK_HEAD
         /\ with_prev(h, x).prev = x
         /\ with_prev(h, x).next = h.next
         /\ with_prev(h, x).size = h.size
         /\ with_prev(h, x).is_alloced = h.is_alloced
  BY DEF BLOCK_HEAD, with_prev

\* The head of a block that was cut, or that took in the next one.
LEMMA NextIs ==
  ASSUME NEW h \in BLOCK_HEAD, NEW x \in Int, NEW n \in Nat
  PROVE  /\ with_next(h, x, n) \in BLOCK_HEAD
         /\ with_next(h, x, n).prev = h.prev
         /\ with_next(h, x, n).next = x
         /\ with_next(h, x, n).size = n
         /\ with_next(h, x, n).is_alloced = h.is_alloced
  BY DEF BLOCK_HEAD, with_next

\* What a chain says of the blocks.
LEMMA ChainSays ==
  ASSUME NEW f, Chain(f)
  PROVE  /\ f \in [DOMAIN f -> BLOCK_HEAD] /\ DOMAIN f \subseteq 0 .. HEAP_SIZE - 1
         /\ 0 \in DOMAIN f /\ f[0].prev = NoBlock
         /\ \A a \in DOMAIN f :
              /\ a \in Nat /\ a \in Aligned /\ f[a].size \in Aligned
              /\ f[a].size \in Nat /\ f[a] \in BLOCK_HEAD
              /\ f[a].next \in Int /\ f[a].prev \in Int
              /\ f[a].next = NoBlock => f[a].size > 0
              /\ a < End(f, a) /\ End(f, a) \in Nat /\ End(f, a) = a + HEAD + f[a].size
              /\ \/ f[a].next = NoBlock /\ End(f, a) = HEAP_SIZE
                 \/ /\ f[a].next = End(f, a) /\ End(f, a) \in DOMAIN f
                    /\ f[End(f, a)].prev = a
              /\ a # 0 => f[a].prev \in DOMAIN f /\ f[f[a].prev].next = a
              /\ \A c \in DOMAIN f : a < c => End(f, a) <= c
<1>1. /\ f \in [DOMAIN f -> BLOCK_HEAD] /\ DOMAIN f \subseteq 0 .. HEAP_SIZE - 1
      /\ \A a \in DOMAIN f : /\ a \in Nat /\ a \in Aligned /\ f[a].size \in Aligned
                             /\ f[a].size \in Nat /\ f[a] \in BLOCK_HEAD
                             /\ f[a].next \in Int /\ f[a].prev \in Int
                             /\ f[a].next = NoBlock => f[a].size > 0
  BY DEF Chain, Heads, BLOCK_HEAD
<1>2. \A a \in DOMAIN f : /\ a < End(f, a) /\ End(f, a) \in Nat
                          /\ End(f, a) = a + HEAD + f[a].size
  BY <1>1, HeapConstants DEF End
<1> QED
  BY <1>1, <1>2 DEF Chain, Tiles

\* The new head lies inside the block that is cut.
LEMMA NewHead ==
  ASSUME NEW f, Chain(f), NEW p \in DOMAIN f, NEW n \in Nat,
         n + HEAD + HEAP_ALIGN <= f[p].size
  PROVE  /\ p + HEAD + n \in Nat /\ p + HEAD + n \notin DOMAIN f /\ p + HEAD + n # p
         /\ f[p].next # p /\ f[p].next # p + HEAD + n
<1>1. /\ \A a \in DOMAIN f : a \in Nat /\ f[a].size \in Nat
      /\ \A c \in DOMAIN f : p < c => End(f, p) <= c
      /\ f[p].next = NoBlock \/ f[p].next = End(f, p)
  BY DEF Chain, Heads, Tiles, BLOCK_HEAD
<1>2. End(f, p) = p + HEAD + f[p].size
  BY DEF End
<1> QED
  BY <1>1, <1>2, HeapConstants

\* The heads g after a cut of the block p of f.
IsCut(f, p, n, g) ==
  LET q == p + HEAD + n
      x == f[p].next
  IN  /\ DOMAIN g = DOMAIN f \cup {q} /\ g \in [DOMAIN g -> BLOCK_HEAD]
      /\ g[q].prev = p /\ g[q].next = x /\ g[q].size = f[p].size - (n + HEAD)
      /\ g[q].is_alloced = FALSE
      /\ g[p].prev = f[p].prev /\ g[p].next = q /\ g[p].size = n
      /\ x \in DOMAIN f => g[x].prev = q
      /\ \A a \in DOMAIN f \ {p} : g[a].next = f[a].next /\ g[a].size = f[a].size
      /\ \A a \in DOMAIN f \ {x} : g[a].prev = f[a].prev
      /\ \A a \in DOMAIN f : g[a].is_alloced = f[a].is_alloced

\* What cut, malloc's split, does to each head.
LEMMA CutIs ==
  ASSUME NEW f, Chain(f), NEW p \in DOMAIN f, NEW n \in Nat,
         n + HEAD + HEAP_ALIGN <= f[p].size
  PROVE  IsCut(f, p, n, cut(f, p, n))
<1> DEFINE g == cut(f, p, n)
           q == p + HEAD + n
           x == f[p].next
<1>1. /\ q \in Nat /\ q \notin DOMAIN f /\ q # p /\ x # p /\ x # q
  BY NewHead
<1>2. /\ \A a \in DOMAIN f : f[a] \in BLOCK_HEAD
      /\ f[p].size \in Nat /\ x \in Int /\ p \in Nat
  BY ChainSays
<1>3. /\ DOMAIN g = DOMAIN f \cup {q}
      /\ g[q] = rest(f, p, n)
      /\ g[p] = with_next(f[p], q, n)
      /\ x \in DOMAIN f => g[x] = with_prev(f[x], q)
      /\ \A a \in DOMAIN f \ {p, x} : g[a] = f[a]
      /\ g = [a \in DOMAIN g |-> g[a]]
  BY <1>1 DEF cut
<1> HIDE DEF g
<1>4. /\ g[q].prev = p /\ g[q].next = x /\ g[q].size = f[p].size - (n + HEAD)
      /\ g[q].is_alloced = FALSE /\ g[q] \in BLOCK_HEAD
  <2>1. f[p].size - (n + HEAD) \in Nat
    BY <1>2, HeapConstants
  <2>2. rest(f, p, n) \in BLOCK_HEAD
    BY <1>2, <2>1 DEF BLOCK_HEAD, rest
  <2> QED
    BY <1>3, <2>2 DEF rest
<1>5. /\ g[p].prev = f[p].prev /\ g[p].next = q /\ g[p].size = n
      /\ g[p].is_alloced = f[p].is_alloced /\ g[p] \in BLOCK_HEAD
  <2>1. q \in Int /\ f[p] \in BLOCK_HEAD /\ g[p] = with_next(f[p], q, n)
    BY <1>1, <1>2, <1>3
  <2> HIDE DEF q
  <2> QED
    BY <2>1, NextIs
<1>6. ASSUME x \in DOMAIN f
      PROVE  /\ g[x].prev = q /\ g[x].next = f[x].next /\ g[x].size = f[x].size
             /\ g[x].is_alloced = f[x].is_alloced /\ g[x] \in BLOCK_HEAD
  <2>1. q \in Int /\ f[x] \in BLOCK_HEAD /\ g[x] = with_prev(f[x], q)
    BY <1>1, <1>2, <1>3, <1>6
  <2> HIDE DEF q, x
  <2> QED
    BY <2>1, PrevIs
<1>7. \A a \in DOMAIN f \ {p} : g[a].next = f[a].next /\ g[a].size = f[a].size
  BY <1>3, <1>6
<1>8. \A a \in DOMAIN f \ {x} : g[a].prev = f[a].prev
  BY <1>3, <1>5
<1>9. \A a \in DOMAIN f : g[a].is_alloced = f[a].is_alloced
  BY <1>3, <1>5, <1>6
<1>10. \A a \in DOMAIN g : g[a] \in BLOCK_HEAD
  <2>1. \A a \in DOMAIN f : g[a] \in BLOCK_HEAD
    BY <1>2, <1>3, <1>5, <1>6
  <2> QED
    BY <1>3, <1>4, <2>1
<1>11. g \in [DOMAIN g -> BLOCK_HEAD]
  BY <1>3, <1>10
<1>12. IsCut(f, p, n, g)
  BY <1>3, <1>4, <1>5, <1>6, <1>7, <1>8, <1>9, <1>11 DEF IsCut
<1> QED
  BY <1>12 DEF g

\* The block p is cut in two.
LEMMA CutKeeps ==
  ASSUME NEW f, Chain(f), NEW p \in DOMAIN f, NEW n \in Nat, n \in Aligned,
         n + HEAD + HEAP_ALIGN <= f[p].size
  PROVE  Chain(cut(f, p, n))
<1> DEFINE g == cut(f, p, n)
           q == p + HEAD + n
           x == f[p].next
<1>0. /\ f \in [DOMAIN f -> BLOCK_HEAD] /\ DOMAIN f \subseteq 0 .. HEAP_SIZE - 1
      /\ \A a \in DOMAIN f : /\ a \in Nat /\ a \in Aligned /\ f[a].size \in Aligned
                             /\ f[a].size \in Nat /\ f[a] \in BLOCK_HEAD
                             /\ f[a].next \in Int /\ f[a].prev \in Int
                             /\ f[a].next = NoBlock => f[a].size > 0
  BY ChainSays
<1>1. /\ 0 \in DOMAIN f /\ f[0].prev = NoBlock
      /\ \A a \in DOMAIN f :
           /\ \/ f[a].next = NoBlock /\ End(f, a) = HEAP_SIZE
              \/ /\ f[a].next = End(f, a) /\ End(f, a) \in DOMAIN f
                 /\ f[End(f, a)].prev = a
           /\ a # 0 => f[a].prev \in DOMAIN f /\ f[f[a].prev].next = a
           /\ \A c \in DOMAIN f : a < c => End(f, a) <= c
  BY DEF Chain, Tiles
<1>2. /\ p \in Nat /\ q \in Nat /\ p < q /\ q + HEAD + HEAP_ALIGN <= End(f, p)
      /\ End(f, p) \in Nat /\ End(f, p) <= HEAP_SIZE
      /\ \A a \in DOMAIN f : a < End(f, a) /\ End(f, a) \in Nat
  BY <1>0, <1>1, HeapConstants DEF End
<1>3. q \notin DOMAIN f /\ x # p /\ x # q
  BY NewHead
<1>c. IsCut(f, p, n, g)
  BY CutIs
<1> HIDE DEF g
<1>4. DOMAIN g = DOMAIN f \cup {q} /\ g \in [DOMAIN g -> BLOCK_HEAD]
  BY <1>c DEF IsCut
<1>5. /\ g[q].prev = p /\ g[q].next = x /\ g[q].size = f[p].size - (n + HEAD)
      /\ g[p].prev = f[p].prev /\ g[p].next = q /\ g[p].size = n
      /\ x \in DOMAIN f => g[x].prev = q
  BY <1>c DEF IsCut
<1>6. \A a \in DOMAIN f \ {p} : g[a].next = f[a].next /\ g[a].size = f[a].size
  BY <1>c DEF IsCut
<1>7. \A a \in DOMAIN f \ {x} : g[a].prev = f[a].prev
  BY <1>c DEF IsCut
<1>8. Heads(g)
  <2>2. DOMAIN g \subseteq 0 .. HEAP_SIZE - 1
    BY <1>0, <1>2, <1>4, HeapConstants
  <2>3. q \in Aligned /\ g[q].size \in Aligned /\ g[q].size > 0
    BY <1>0, <1>5, AlignedSum, HeapConstants
  <2>4. \A a \in DOMAIN g : /\ a \in Aligned /\ g[a].size \in Aligned
                            /\ g[a].next = NoBlock => g[a].size > 0
    <3>1. ASSUME NEW a \in DOMAIN g
          PROVE  /\ a \in Aligned /\ g[a].size \in Aligned
                 /\ g[a].next = NoBlock => g[a].size > 0
      <4>1. CASE a = q
        BY <2>3, <4>1
      <4>2. CASE a = p
        BY <1>0, <1>2, <1>5, <4>2, HeapConstants
      <4>3. CASE a # p /\ a # q
        BY <1>0, <1>4, <1>6, <4>3
      <4> QED
        BY <4>1, <4>2, <4>3
    <3> QED
      BY <3>1
  <2> QED
    BY <1>4, <2>2, <2>4 DEF Heads
<1>9. /\ End(g, q) = End(f, p) /\ End(g, p) = q
      /\ \A a \in DOMAIN f \ {p} : End(g, a) = End(f, a)
  BY <1>0, <1>2, <1>5, <1>6, HeapConstants DEF End
<1>10. Tiles(g)
  <2>1. 0 \in DOMAIN g /\ g[0].prev = NoBlock
    <3>1. x # 0
      BY <1>1, <1>2, HeapConstants
    <3> QED
      BY <1>1, <1>4, <1>7, <3>1
  <2>2. ASSUME NEW a \in DOMAIN g
        PROVE  \/ g[a].next = NoBlock /\ End(g, a) = HEAP_SIZE
               \/ /\ g[a].next = End(g, a) /\ End(g, a) \in DOMAIN g
                  /\ g[End(g, a)].prev = a
    <3>1. CASE a = p
      BY <1>4, <1>5, <1>9, <3>1
    <3>2. CASE a = q
      BY <1>1, <1>4, <1>5, <1>9, <3>2
    <3>3. CASE a # p /\ a # q
      <4>1. a \in DOMAIN f /\ g[a].next = f[a].next /\ End(g, a) = End(f, a)
        BY <1>4, <1>6, <1>9, <3>3
      <4>2. CASE f[a].next = NoBlock
        BY <1>1, <4>1, <4>2, HeapConstants, <1>2
      <4>3. CASE f[a].next # NoBlock
        <5>1. End(f, a) \in DOMAIN f /\ f[End(f, a)].prev = a /\ f[a].next = End(f, a)
          BY <1>1, <4>1, <4>3
        <5>2. End(f, a) # x
          <6>1. SUFFICES ASSUME End(f, a) = x PROVE FALSE
            OBVIOUS
          <6>2. x # NoBlock /\ f[x].prev = p
            BY <1>1, <1>2, <4>1, <5>1, <6>1, HeapConstants
          <6> QED
            BY <3>3, <5>1, <6>1, <6>2
        <5> QED
          BY <1>4, <1>7, <4>1, <5>1, <5>2
      <4> QED
        BY <4>2, <4>3
    <3> QED
      BY <3>1, <3>2, <3>3
  <2>3. ASSUME NEW a \in DOMAIN g, a # 0
        PROVE  g[a].prev \in DOMAIN g /\ g[g[a].prev].next = a
    <3>1. CASE a = q
      BY <1>4, <1>5, <3>1
    <3>2. CASE a # q /\ a = x
      BY <1>4, <1>5, <3>2
    <3>3. CASE a # q /\ a # x
      <4>1. a \in DOMAIN f /\ g[a].prev = f[a].prev
        BY <1>4, <1>7, <3>3
      <4>2. f[a].prev \in DOMAIN f /\ f[f[a].prev].next = a
        BY <1>1, <2>3, <4>1
      <4>3. f[a].prev # p
        BY <3>3, <4>2
      <4> QED
        BY <1>4, <1>6, <4>1, <4>2, <4>3
    <3> QED
      BY <3>1, <3>2, <3>3
  <2>4. ASSUME NEW a \in DOMAIN g, NEW c \in DOMAIN g, a < c
        PROVE  End(g, a) <= c
    <3>1. CASE a = p
      BY <1>0, <1>1, <1>2, <1>4, <1>9, <2>4, <3>1, HeapConstants
    <3>2. CASE a = q
      BY <1>0, <1>1, <1>2, <1>4, <1>9, <2>4, <3>2, HeapConstants
    <3>3. CASE a # p /\ a # q /\ c = q
      <4>1. a \in DOMAIN f /\ End(g, a) = End(f, a) /\ a \in Nat
        BY <1>0, <1>4, <1>9, <3>3
      <4>2. a < p
        <5>1. SUFFICES ASSUME p < a PROVE FALSE
          BY <1>2, <3>3, <4>1
        <5>2. End(f, p) <= a
          BY <1>1, <4>1, <5>1
        <5> QED
          BY <1>2, <2>4, <3>3, <4>1, <5>2, HeapConstants
      <4>3. End(f, a) <= p /\ End(f, a) \in Nat
        BY <1>1, <1>2, <4>1, <4>2
      <4> QED
        BY <1>2, <3>3, <4>1, <4>3
    <3>4. CASE a # p /\ a # q /\ c # q
      BY <1>0, <1>1, <1>2, <1>4, <1>9, <2>4, <3>4, HeapConstants
    <3> QED
      BY <3>1, <3>2, <3>3, <3>4
  <2> QED
    BY <2>1, <2>2, <2>3, <2>4 DEF Tiles
<1> QED
  BY <1>8, <1>10 DEF Chain, g

\* The heads g after a merge of the block p of f with the next one.
IsMerged(f, p, g) ==
  LET q == f[p].next
      y == f[q].next
  IN  /\ q \in DOMAIN f /\ q # p /\ y # p /\ y # q /\ f[q].prev = p /\ q = End(f, p)
      /\ DOMAIN g = DOMAIN f \ {q} /\ g \in [DOMAIN g -> BLOCK_HEAD]
      /\ g[p].prev = f[p].prev /\ g[p].next = y
      /\ g[p].size = f[p].size + f[q].size + HEAD
      /\ y \in DOMAIN f => g[y].prev = p
      /\ \A a \in DOMAIN f \ {p, q} : g[a].next = f[a].next /\ g[a].size = f[a].size
      /\ \A a \in DOMAIN f \ {q, y} : g[a].prev = f[a].prev
      /\ \A a \in DOMAIN f \ {q} : g[a].is_alloced = f[a].is_alloced

\* What merged, a merge of free, does to each head.
LEMMA MergedIs ==
  ASSUME NEW f, Chain(f), NEW p \in DOMAIN f, f[p].next # NoBlock
  PROVE  IsMerged(f, p, merged(f, p))
<1> DEFINE g == merged(f, p)
           q == f[p].next
           y == f[q].next
           n == f[p].size + f[q].size + HEAD
<1>1. q = End(f, p) /\ q \in DOMAIN f /\ f[q].prev = p /\ q # p /\ p < q /\ q \in Nat
  BY ChainSays
<1>2. /\ \A a \in DOMAIN f : f[a] \in BLOCK_HEAD
      /\ n \in Nat /\ y \in Int /\ p \in Nat
  BY <1>1, ChainSays, HeapConstants
<1>3. y = NoBlock \/ q < y
  BY <1>1, ChainSays
<1>4. y # p /\ y # q
  <2> HIDE DEF y, q
  <2> QED
    BY <1>1, <1>2, <1>3, HeapConstants
<1>5. /\ DOMAIN g = DOMAIN f \ {q}
      /\ g[p] = with_next(f[p], y, n)
      /\ y \in DOMAIN f => g[y] = with_prev(f[y], p)
      /\ \A a \in DOMAIN f \ {p, q, y} : g[a] = f[a]
      /\ g = [a \in DOMAIN g |-> g[a]]
  BY <1>1, <1>4 DEF merged
<1> HIDE DEF g
<1>6. /\ g[p].prev = f[p].prev /\ g[p].next = y /\ g[p].size = n /\ g[p] \in BLOCK_HEAD
      /\ g[p].is_alloced = f[p].is_alloced
  <2>1. /\ y \in Int /\ n \in Nat /\ f[p] \in BLOCK_HEAD /\ g[p] = with_next(f[p], y, n)
    BY <1>2, <1>5
  <2> HIDE DEF y, n
  <2> QED
    BY <2>1, NextIs
<1>7. ASSUME y \in DOMAIN f
      PROVE  /\ g[y].prev = p /\ g[y].next = f[y].next /\ g[y].size = f[y].size
             /\ g[y].is_alloced = f[y].is_alloced /\ g[y] \in BLOCK_HEAD
  <2>1. g[y] = with_prev(f[y], p) /\ f[y] \in BLOCK_HEAD /\ n \in Nat /\ p \in Int
    BY <1>2, <1>5, <1>7
  <2> HIDE DEF y, n
  <2> QED
    BY <2>1, PrevIs
<1>8. \A a \in DOMAIN f \ {p, q} : g[a].next = f[a].next /\ g[a].size = f[a].size
  BY <1>5, <1>7
<1>9. \A a \in DOMAIN f \ {q, y} : g[a].prev = f[a].prev
  BY <1>5, <1>6
<1>10. \A a \in DOMAIN f \ {q} : g[a].is_alloced = f[a].is_alloced /\ g[a] \in BLOCK_HEAD
  BY <1>2, <1>5, <1>6, <1>7
<1>11. g \in [DOMAIN g -> BLOCK_HEAD]
  BY <1>5, <1>10
<1>12. IsMerged(f, p, g)
  BY <1>1, <1>4, <1>5, <1>6, <1>7, <1>8, <1>9, <1>10, <1>11 DEF IsMerged
<1> QED
  BY <1>12 DEF g

\* The block p takes in its successor.
LEMMA MergeKeeps ==
  ASSUME NEW f, Chain(f), NEW p \in DOMAIN f, f[p].next # NoBlock
  PROVE  Chain(merged(f, p))
<1> DEFINE g == merged(f, p)
           q == f[p].next
           y == f[q].next
           n == f[p].size + f[q].size + HEAD
<1>0. /\ f \in [DOMAIN f -> BLOCK_HEAD] /\ DOMAIN f \subseteq 0 .. HEAP_SIZE - 1
      /\ \A a \in DOMAIN f : /\ a \in Nat /\ a \in Aligned /\ f[a].size \in Aligned
                             /\ f[a].size \in Nat /\ f[a] \in BLOCK_HEAD
                             /\ f[a].next \in Int /\ f[a].prev \in Int
                             /\ f[a].next = NoBlock => f[a].size > 0
  BY ChainSays
<1>1. /\ 0 \in DOMAIN f /\ f[0].prev = NoBlock
      /\ \A a \in DOMAIN f :
           /\ \/ f[a].next = NoBlock /\ End(f, a) = HEAP_SIZE
              \/ /\ f[a].next = End(f, a) /\ End(f, a) \in DOMAIN f
                 /\ f[End(f, a)].prev = a
           /\ a # 0 => f[a].prev \in DOMAIN f /\ f[f[a].prev].next = a
           /\ \A c \in DOMAIN f : a < c => End(f, a) <= c
  BY DEF Chain, Tiles
<1>2. /\ p \in Nat /\ q \in DOMAIN f /\ q \in Nat /\ q = End(f, p) /\ p < q
      /\ f[q].prev = p /\ n \in Nat /\ y \in Int
      /\ \A a \in DOMAIN f : a < End(f, a) /\ End(f, a) \in Nat
  BY <1>0, <1>1, HeapConstants DEF End
<1>m. IsMerged(f, p, g)
  BY MergedIs
<1> HIDE DEF g
<1>3. y \notin {p, q}
  BY <1>m DEF IsMerged
<1>4. DOMAIN g = DOMAIN f \ {q} /\ g \in [DOMAIN g -> BLOCK_HEAD]
  BY <1>m DEF IsMerged
<1>5. /\ g[p].prev = f[p].prev /\ g[p].next = y /\ g[p].size = n
      /\ y \in DOMAIN f => g[y].prev = p
  BY <1>m DEF IsMerged
<1>6. \A a \in DOMAIN f \ {p, q} : g[a].next = f[a].next /\ g[a].size = f[a].size
  BY <1>m DEF IsMerged
<1>7. \A a \in DOMAIN f \ {q, y} : g[a].prev = f[a].prev
  BY <1>m DEF IsMerged
<1>8. Heads(g)
  <2>3. n \in Aligned /\ n > 0
    <3>1. f[p].size + f[q].size \in Aligned
      BY <1>0, <1>2, AlignedSum
    <3> QED
      BY <1>0, <1>2, <3>1, AlignedSum, HeapConstants
  <2>4. ASSUME NEW a \in DOMAIN g
        PROVE  /\ a \in Aligned /\ g[a].size \in Aligned
               /\ g[a].next = NoBlock => g[a].size > 0
    <3>1. CASE a = p
      BY <1>0, <1>5, <2>3, <3>1
    <3>2. CASE a # p
      BY <1>0, <1>4, <1>6, <2>4, <3>2
    <3> QED
      BY <3>1, <3>2
  <2> QED
    BY <1>0, <1>4, <2>4 DEF Heads
<1>9. End(g, p) = End(f, q) /\ \A a \in DOMAIN f \ {p, q} : End(g, a) = End(f, a)
  BY <1>0, <1>2, <1>5, <1>6, HeapConstants DEF End
<1>10. Tiles(g)
  <2>1. 0 \in DOMAIN g /\ g[0].prev = NoBlock
    <3>1. y # 0 /\ q # 0
      BY <1>1, <1>2, HeapConstants
    <3> QED
      BY <1>1, <1>4, <1>7, <3>1
  <2>2. ASSUME NEW a \in DOMAIN g
        PROVE  \/ g[a].next = NoBlock /\ End(g, a) = HEAP_SIZE
               \/ /\ g[a].next = End(g, a) /\ End(g, a) \in DOMAIN g
                  /\ g[End(g, a)].prev = a
    <3>1. CASE a = p
      BY <1>1, <1>2, <1>3, <1>4, <1>5, <1>9, <3>1
    <3>2. CASE a # p
      <4>1. a \in DOMAIN f /\ a # q /\ g[a].next = f[a].next /\ End(g, a) = End(f, a)
        BY <1>4, <1>6, <1>9, <3>2
      <4>2. CASE f[a].next = NoBlock
        BY <1>1, <4>1, <4>2, HeapConstants, <1>2
      <4>3. CASE f[a].next # NoBlock
        <5>1. End(f, a) \in DOMAIN f /\ f[End(f, a)].prev = a /\ f[a].next = End(f, a)
          BY <1>1, <4>1, <4>3
        <5>2. End(f, a) # q
          BY <1>2, <3>2, <5>1
        <5>3. End(f, a) # y
          <6>1. SUFFICES ASSUME End(f, a) = y PROVE FALSE
            OBVIOUS
          <6>2. y # NoBlock /\ f[y].prev = q
            BY <1>1, <1>2, <4>1, <5>1, <6>1, HeapConstants
          <6> QED
            BY <4>1, <5>1, <6>1, <6>2
        <5> QED
          BY <1>4, <1>7, <4>1, <5>1, <5>2, <5>3
      <4> QED
        BY <4>2, <4>3
    <3> QED
      BY <3>1, <3>2
  <2>3. ASSUME NEW a \in DOMAIN g, a # 0
        PROVE  g[a].prev \in DOMAIN g /\ g[g[a].prev].next = a
    <3>1. CASE a = y
      BY <1>2, <1>4, <1>5, <2>3, <3>1
    <3>2. CASE a # y
      <4>1. a \in DOMAIN f /\ a # q /\ g[a].prev = f[a].prev
        BY <1>4, <1>7, <2>3, <3>2
      <4>2. f[a].prev \in DOMAIN f /\ f[f[a].prev].next = a
        BY <1>1, <2>3, <4>1
      <4>3. f[a].prev # p /\ f[a].prev # q
        BY <3>2, <4>1, <4>2
      <4> QED
        BY <1>4, <1>6, <4>1, <4>2, <4>3
    <3> QED
      BY <3>1, <3>2
  <2>4. ASSUME NEW a \in DOMAIN g, NEW c \in DOMAIN g, a < c
        PROVE  End(g, a) <= c
    <3>0. a \in DOMAIN f /\ c \in DOMAIN f /\ c # q
      BY <1>4, <2>4
    <3>1. CASE a = p
      <4>1. q <= c
        BY <1>1, <1>2, <2>4, <3>0, <3>1
      <4>2. q < c
        BY <1>0, <1>2, <3>0, <4>1
      <4> QED
        BY <1>1, <1>2, <1>9, <3>0, <3>1, <4>2
    <3>2. CASE a # p
      BY <1>1, <1>4, <1>9, <2>4, <3>0, <3>2
    <3> QED
      BY <3>1, <3>2
  <2> QED
    BY <2>1, <2>2, <2>3, <2>4 DEF Tiles
<1> QED
  BY <1>8, <1>10 DEF Chain, g

-----------------------------------------------------------------------------
(* The counters.                                                           *)

allocedIn(f) == {p \in DOMAIN f : f[p].is_alloced}
freeIn(f) == DOMAIN f \ allocedIn(f)
sizes(f) == [p \in DOMAIN f |-> f[p].size]
bytesIn(f, S) == SumFunctionOnSet(sizes(f), S)

\* The bytes of the blocks S are those of one of them and those of the others.
LEMMA BytesAre ==
  ASSUME NEW f, Heads(f), NEW S, S \subseteq DOMAIN f
  PROVE  IsFiniteSet(S) /\ Cardinality(S) \in Nat /\ bytesIn(f, S) \in Nat
<1>1. /\ IsFiniteSet(0 .. HEAP_SIZE - 1) /\ S \subseteq 0 .. HEAP_SIZE - 1
      /\ \A p \in S : sizes(f)[p] \in Nat
  <2>1. IsFiniteSet(0 .. HEAP_SIZE - 1)
    BY FS_Interval, HeapConstants
  <2> QED
    BY <2>1 DEF Heads, BLOCK_HEAD, sizes
<1>2. IsFiniteSet(S) /\ Cardinality(S) \in Nat
  BY <1>1, FS_Subset, FS_CardinalityType
<1>3. SumFunctionOnSet(sizes(f), S) \in Nat
  BY <1>1, <1>2, SumSame
<1> QED
  BY <1>2, <1>3 DEF bytesIn

\* The bytes and the number of the blocks S, p apart.
Apart(f, S, p) ==
  /\ f[p].size \in Nat /\ bytesIn(f, S \ {p}) \in Nat
  /\ bytesIn(f, S) = f[p].size + bytesIn(f, S \ {p})
  /\ Cardinality(S) \in Nat /\ Cardinality(S \ {p}) = Cardinality(S) - 1

LEMMA BytesSplit ==
  ASSUME NEW f, Heads(f), NEW S, S \subseteq DOMAIN f, NEW p \in S
  PROVE  Apart(f, S, p)
<1> DEFINE g == sizes(f)
           R == S \ {p}
<1>1. f[p].size \in Nat /\ g[p] = f[p].size /\ R \subseteq DOMAIN f /\ R = S \ {p}
      /\ \A q \in S : g[q] \in Nat
  BY DEF Heads, BLOCK_HEAD, sizes
<1>2. IsFiniteSet(S) /\ Cardinality(S) \in Nat
  BY BytesAre
<1> HIDE DEF g, R
<1>3. bytesIn(f, R) \in Nat
  BY <1>1, BytesAre
<1>4. SumFunctionOnSet(g, S) = g[p] + SumFunctionOnSet(g, S \ {p})
  BY <1>1, <1>2, SumAdd
<1>5. Cardinality(S \ {p}) = Cardinality(S) - 1
  BY <1>2, FS_RemoveElement
<1>6. bytesIn(f, S) = SumFunctionOnSet(g, S) /\ bytesIn(f, R) = SumFunctionOnSet(g, R)
  BY DEF bytesIn, g
<1>7. bytesIn(f, S) = f[p].size + bytesIn(f, R)
  <2>1. SumFunctionOnSet(g, S \ {p}) = SumFunctionOnSet(g, R) /\ bytesIn(f, S \ {p}) = bytesIn(f, R)
    BY <1>1, Zenon
  <2> QED
    BY <1>1, <1>4, <1>6, <2>1
<1>8. Cardinality(R) = Cardinality(S) - 1
  BY <1>1, <1>5, Zenon
<1> QED
  BY <1>1, <1>2, <1>3, <1>7, <1>8, Zenon DEF Apart

\* Blocks of the same size in two chains.
LEMMA BytesSame ==
  ASSUME NEW f, Heads(f), NEW g, NEW S, S \subseteq DOMAIN f, S \subseteq DOMAIN g,
         \A p \in S : g[p].size = f[p].size
  PROVE  bytesIn(g, S) = bytesIn(f, S)
<1>1. IsFiniteSet(S)
  BY BytesAre
<1>2. \A p \in S : sizes(f)[p] \in Nat /\ sizes(f)[p] = sizes(g)[p]
  BY DEF Heads, BLOCK_HEAD, sizes
<1> HIDE DEF sizes
<1> QED
  BY <1>1, <1>2, SumSame DEF bytesIn

\* How free writes the heads: grown with one block taken in, grown_twice with two;
\* grown_to is the common form.
grown(g, r, x, s, t) == [g EXCEPT ![r].next = x, ![r].size = @ + s + t]

grown_to(g, r, x, m) == [a \in DOMAIN g |-> IF a = r THEN with_next(g[r], x, m) ELSE g[a]]

grown_twice(g, r, x, s, t, w) == [g EXCEPT ![r].next = x, ![r].size = @ + s + t + w]

\* The same for a block that is marked as well.
longer(h, x, s, t) == [h EXCEPT !.next = x, !.size = @ + s + t]

\* free's two ways to write a head that took in the next block.
LEMMA LongerIs ==
  ASSUME NEW h \in BLOCK_HEAD, NEW x \in Int, NEW s \in Nat, NEW t \in Nat
  PROVE  longer(h, x, s, t) = with_next(h, x, h.size + s + t)
  BY DEF BLOCK_HEAD, with_next, longer

\* The same within a chain.
LEMMA GrownIs ==
  ASSUME NEW g, g \in [DOMAIN g -> BLOCK_HEAD], NEW r \in DOMAIN g, NEW x \in Int,
         NEW s \in Nat, NEW t \in Nat
  PROVE  grown(g, r, x, s, t)
         = grown_to(g, r, x, g[r].size + s + t)
  BY DEF BLOCK_HEAD, with_next, grown, grown_to

\* The same with three blocks.
LEMMA GrownTwiceIs ==
  ASSUME NEW g, g \in [DOMAIN g -> BLOCK_HEAD], NEW r \in DOMAIN g, NEW x \in Int,
         NEW s \in Nat, NEW t \in Nat, NEW w \in Nat
  PROVE  grown_twice(g, r, x, s, t, w)
         = grown_to(g, r, x, g[r].size + s + t + w)
  BY DEF BLOCK_HEAD, with_next, grown_twice, grown_to

\* How malloc writes the head of the block it hands out, and its two parts.
taken(h, x, n) == [h EXCEPT !.next = x, !.size = n, !.is_alloced = TRUE]
kept(h) == [h EXCEPT !.is_alloced = TRUE]

\* malloc's two ways to write the head of the block it hands out.
LEMMA ThreeFields ==
  ASSUME NEW h \in BLOCK_HEAD, NEW x \in Int, NEW n \in Nat
  PROVE  taken(h, x, n) = kept(with_next(h, x, n))
  BY DEF BLOCK_HEAD, with_next, taken, kept

\* What malloc's split and its marking do.
LEMMA SplitIs ==
  ASSUME Chain(blk), NEW p \in Blocks, NEW n \in Nat, splits(p, n)
  PROVE  /\ n + HEAD + HEAP_ALIGN <= blk[p].size
         /\ split(p, n) = marked(cut(blk, p, n), p, TRUE)
<1> DEFINE q == p + HEAD + n
           x == blk[p].next
           h == taken(blk[p], q, n)
           w == with_next(blk[p], q, n)
<1>1. blk[p] \in BLOCK_HEAD /\ blk[p].size \in Nat /\ p \in Nat /\ blk[p].next \in Int
  BY DEF Chain, Heads, Blocks, BLOCK_HEAD
<1>2. n + HEAD + HEAP_ALIGN <= blk[p].size
  BY <1>1, HeapConstants DEF splits
<1>3. q \in Int /\ q # p /\ q # x /\ x # p
  <2>1. q \in Nat /\ q # p /\ x # p /\ x # q
    BY <1>2, NewHead DEF Blocks
  <2> QED
    BY <2>1
<1>4. h = kept(w)
  <2>1. q \in Int /\ blk[p] \in BLOCK_HEAD
    BY <1>1, <1>3
  <2> HIDE DEF q
  <2> QED
    BY ONLY <2>1, n \in Nat, ThreeFields
<1>5. split(p, n)
       = [a \in Blocks \cup {q} |->
           CASE a = q -> rest(blk, p, n)
             [] a = p -> h
             [] a = x -> with_prev(blk[a], q)
             [] OTHER -> blk[a]]
  BY DEF split, rest, with_prev, taken
<1>6. cut(blk, p, n)
       = [a \in Blocks \cup {q} |->
           IF a = q THEN rest(blk, p, n)
           ELSE IF a = p THEN w
           ELSE IF a = x THEN with_prev(blk[a], q)
           ELSE blk[a]]
  BY DEF cut, Blocks
<1> HIDE DEF q, x, h, w
<1>7. ASSUME NEW a \in Blocks \cup {q}
      PROVE (CASE a = q -> rest(blk, p, n)
               [] a = p -> h
               [] a = x -> with_prev(blk[a], q)
               [] OTHER -> blk[a])
            = IF a = q THEN rest(blk, p, n)
              ELSE IF a = p THEN h
              ELSE IF a = x THEN with_prev(blk[a], q)
              ELSE blk[a]
  BY <1>3
<1>8. split(p, n)
       = [a \in Blocks \cup {q} |->
           IF a = q THEN rest(blk, p, n)
           ELSE IF a = p THEN h
           ELSE IF a = x THEN with_prev(blk[a], q)
           ELSE blk[a]]
  BY <1>5, <1>7
<1> DEFINE c == cut(blk, p, n)
<1>9. /\ DOMAIN c = Blocks \cup {q} /\ c[p] = w
      /\ \A a \in Blocks \cup {q} : a # p => c[a] = IF a = q THEN rest(blk, p, n)
                                                   ELSE IF a = x THEN with_prev(blk[a], q)
                                                   ELSE blk[a]
  BY <1>3, <1>6
<1> HIDE DEF c
<1>10. marked(c, p, TRUE) = [a \in Blocks \cup {q} |-> IF a = p THEN h ELSE c[a]]
  BY <1>4, <1>9 DEF marked, kept
<1>11. split(p, n) = [a \in Blocks \cup {q} |-> IF a = p THEN h ELSE c[a]]
  BY <1>3, <1>8, <1>9
<1> QED
  BY <1>2, <1>10, <1>11 DEF c

\* What free does in its four cases.
LEMMA FreedIs ==
  ASSUME Chain(blk), NEW p \in Blocks
  PROVE  LET u == marked(blk, p, FALSE)
             r == blk[p].prev
             n == blk[p].next
         IN  /\ ~ CAN_MERGE(r) /\ ~ CAN_MERGE(n) => freed(p) = u
             /\ CAN_MERGE(r) /\ ~ CAN_MERGE(n) => freed(p) = merged(u, r)
             /\ ~ CAN_MERGE(r) /\ CAN_MERGE(n) => freed(p) = merged(u, p)
             /\ CAN_MERGE(r) /\ CAN_MERGE(n) => freed(p) = merged(merged(u, p), r)
<1> DEFINE u == marked(blk, p, FALSE)
           b == blk[p]
           r == b.prev
           n == b.next
           y == blk[n].next
           P == CAN_MERGE(r)
           N == CAN_MERGE(n)
           out(S) == [a \in Blocks \ S |-> blk[a]]
           keep == [b EXCEPT !.is_alloced = FALSE]
           f1 == [blk EXCEPT ![p] = keep]
           f2 == relinked(grown(out({p}), r, n, b.size, HEAD), n, r)
           f3 == relinked([out({n}) EXCEPT ![p] = longer(keep, y, blk[n].size, HEAD)], y, p)
           f4 == relinked(grown_twice(out({p, n}), r, y, b.size, blk[n].size, 2 * HEAD), y, r)
<1>1. freed(p) = CASE ~ P /\ ~ N -> f1
                   [] P /\ ~ N -> f2
                   [] ~ P /\ N -> f3
                   [] OTHER -> f4
  BY DEF freed, grown, grown_twice, longer
<1>2. /\ blk \in [Blocks -> BLOCK_HEAD] /\ Blocks \subseteq Nat
      /\ b \in BLOCK_HEAD /\ r \in Int /\ n \in Int /\ b.size \in Nat
      /\ HEAD \in Nat /\ 2 * HEAD \in Nat
  BY HeapConstants DEF Chain, Heads, BLOCK_HEAD, Blocks
<1>3. /\ DOMAIN u = Blocks /\ u \in [Blocks -> BLOCK_HEAD]
      /\ \A a \in Blocks : /\ u[a].prev = blk[a].prev
                           /\ u[a].next = blk[a].next
                           /\ u[a].size = blk[a].size
      /\ u[p].is_alloced = FALSE
      /\ \A a \in Blocks \ {p} : u[a] = blk[a]
      /\ u[p] = keep /\ u = f1
  <2>1. blk \in [DOMAIN blk -> BLOCK_HEAD] /\ p \in DOMAIN blk
    BY <1>2 DEF Blocks
  <2>2. u[p] = keep /\ u = f1
    BY <2>1 DEF marked
  <2>3. /\ DOMAIN u = DOMAIN blk /\ u \in [DOMAIN blk -> BLOCK_HEAD]
        /\ \A a \in DOMAIN blk : /\ u[a].prev = blk[a].prev
                                 /\ u[a].next = blk[a].next
                                 /\ u[a].size = blk[a].size
        /\ u[p].is_alloced = FALSE
        /\ \A a \in DOMAIN blk \ {p} : u[a] = blk[a]
    <3> DEFINE c == FALSE
    <3>1. c \in BOOLEAN /\ u = marked(blk, p, c)
      OBVIOUS
    <3> HIDE DEF u
    <3>2. c = FALSE
      OBVIOUS
    <3> HIDE DEF c
    <3>3. /\ DOMAIN u = DOMAIN blk /\ u \in [DOMAIN blk -> BLOCK_HEAD]
          /\ \A a \in DOMAIN blk : /\ u[a].prev = blk[a].prev
                                   /\ u[a].next = blk[a].next
                                   /\ u[a].size = blk[a].size
          /\ u[p].is_alloced = c
          /\ \A a \in DOMAIN blk \ {p} : u[a] = blk[a]
      BY <2>1, <3>1, MarkedIs
    <3> QED
      BY <3>2, <3>3
  <2> HIDE DEF keep, f1, u
  <2> QED
    BY <2>2, <2>3 DEF Blocks
<1>4. Tiles(blk) /\ p \in DOMAIN blk
  BY DEF Chain, Blocks
<1>5. P => r \in Blocks /\ r < p /\ r # p /\ u[r].next = p /\ blk[r].next = p /\ r # n
  <2>1. SUFFICES ASSUME P PROVE r \in Blocks /\ r < p /\ blk[r].next = p /\ r # n
    BY <1>3
  <2>2. r # NoBlock
    BY <2>1 DEF CAN_MERGE
  <2>3. r \in Blocks /\ blk[r].next = p
    BY <1>2, <1>4, <2>2 DEF Tiles, Blocks
  <2>4. r # p /\ (n # p)
    BY <1>2, <1>4, <2>3, HeapConstants DEF Tiles, End, Blocks, BLOCK_HEAD
  <2>5. r < p /\ (n = NoBlock \/ p < n)
    BY <1>2, <1>4, <2>3, HeapConstants DEF Tiles, End, Blocks, BLOCK_HEAD
  <2> QED
    BY <1>2, <2>2, <2>3, <2>4, <2>5, HeapConstants
<1>6. N => n \in Blocks /\ n # p /\ u[n] = blk[n] /\ y \in Int /\ blk[n].size \in Nat
            /\ y # n /\ y # p /\ (y = NoBlock \/ p < y)
  <2>1. SUFFICES ASSUME N
                 PROVE  n \in Blocks /\ n # p /\ u[n] = blk[n] /\ y \in Int
                        /\ blk[n].size \in Nat /\ y # n /\ y # p /\ (y = NoBlock \/ p < y)
    OBVIOUS
  <2>2. n # NoBlock
    BY <2>1 DEF CAN_MERGE
  <2>3. n \in Blocks /\ p < n
    BY <1>2, <1>4, <2>2, HeapConstants DEF Tiles, End, Blocks, BLOCK_HEAD
  <2>4. y = NoBlock \/ n < y
    BY <1>2, <1>4, <2>3, HeapConstants DEF Tiles, End, Blocks, BLOCK_HEAD
  <2>5. /\ blk[n] \in BLOCK_HEAD /\ n \in Nat /\ n # p
    BY <1>2, <2>3
  <2>6. u[n] = blk[n]
    BY <1>3, <2>3, <2>5
  <2>7. y \in Int /\ blk[n].size \in Nat
    BY <2>5 DEF BLOCK_HEAD
  <2> HIDE DEF y, u, N, n
  <2> QED
    BY <1>2, <2>3, <2>4, <2>5, <2>6, <2>7, HeapConstants
<1> HIDE DEF u, P, N, f1, keep
<1>7. ASSUME P PROVE f2 = merged(u, r)
  <2> DEFINE g == out({p})
             h == grown(g, r, n, b.size, HEAD)
  <2>1. /\ g \in [DOMAIN g -> BLOCK_HEAD] /\ DOMAIN g = Blocks \ {p}
        /\ r \in DOMAIN g /\ \A a \in Blocks \ {p} : g[a] = u[a]
    BY <1>2, <1>3, <1>5, <1>7
  <2> HIDE DEF g
  <2>2. h = [a \in DOMAIN g |-> IF a = r THEN with_next(g[r], n, g[r].size + b.size + HEAD)
                                ELSE g[a]]
    <3>1. n \in Int /\ b.size \in Nat /\ HEAD \in Nat
      BY <1>2
    <3> HIDE DEF n, b, r
    <3>2. h = grown_to(g, r, n, g[r].size + b.size + HEAD)
      BY <2>1, <3>1, GrownIs
    <3> HIDE DEF h
    <3> QED
      BY <3>2 DEF grown_to
  <2> HIDE DEF h
  <2>3. f2 = [a \in DOMAIN h |-> IF a = n THEN with_prev(h[a], r) ELSE h[a]]
    BY DEF relinked, with_prev, h, g
  <2>4. u[r].next = p /\ u[p].next = n /\ u[p].size = b.size /\ r # n
    BY <1>3, <1>5, <1>7
  <2>5. merged(u, r) = [a \in Blocks \ {p} |->
                         IF a = r THEN with_next(u[a], n, u[r].size + b.size + HEAD)
                         ELSE IF a = n THEN with_prev(u[a], r)
                         ELSE u[a]]
    BY <1>3, <2>4 DEF merged
  <2> HIDE DEF f2, n, r, b
  <2> QED
    BY <2>1, <2>2, <2>3, <2>4, <2>5
<1>8. ASSUME N PROVE f3 = merged(u, p)
  <2> DEFINE g == out({n})
             h == longer(keep, y, blk[n].size, HEAD)
             i == [g EXCEPT ![p] = h]
  <2>1. /\ DOMAIN g = Blocks \ {n} /\ p \in DOMAIN g /\ n # p /\ y # n /\ y # p
        /\ \A a \in Blocks \ {n, p} : g[a] = u[a]
    BY <1>2, <1>3, <1>6, <1>8
  <2>2. h = with_next(u[p], y, u[p].size + blk[n].size + HEAD)
    <3>1. keep \in BLOCK_HEAD /\ y \in Int /\ blk[n].size \in Nat /\ keep = u[p]
      BY <1>3, <1>6, <1>8
    <3>2. HEAD \in Nat
      BY <1>2
    <3> DEFINE e == blk[n].size
               z == y
    <3>3. e \in Nat /\ z \in Int
      BY <3>1
    <3> HIDE DEF e, z, keep
    <3>4. longer(keep, z, e, HEAD) = with_next(keep, z, keep.size + e + HEAD)
      BY ONLY <3>1, <3>2, <3>3, LongerIs
    <3> QED
      BY <3>1, <3>4 DEF e, z
  <2> HIDE DEF g, h
  <2>3. /\ DOMAIN i = Blocks \ {n} /\ i[p] = h
        /\ \A a \in Blocks \ {n, p} : i[a] = u[a]
    BY <2>1
  <2> HIDE DEF i
  <2>4. f3 = [a \in DOMAIN i |-> IF a = y THEN with_prev(i[a], p) ELSE i[a]]
    BY DEF relinked, with_prev, i, h, g
  <2>5. u[p].next = n /\ u[n].next = y /\ u[n].size = blk[n].size
    BY <1>3, <1>6, <1>8
  <2>6. merged(u, p) = [a \in Blocks \ {n} |->
                         IF a = p THEN with_next(u[a], y, u[p].size + blk[n].size + HEAD)
                         ELSE IF a = y THEN with_prev(u[a], p)
                         ELSE u[a]]
    BY <1>3, <2>5 DEF merged
  <2> HIDE DEF f3, y, n
  <2> QED
    BY <2>1, <2>2, <2>3, <2>4, <2>6
<1>9. ASSUME P, N PROVE f4 = merged(merged(u, p), r)
  <2> DEFINE g == out({p, n})
             h == grown_twice(g, r, y, b.size, blk[n].size, 2 * HEAD)
             v == merged(u, p)
  <2>1. /\ g \in [DOMAIN g -> BLOCK_HEAD] /\ DOMAIN g = Blocks \ {p, n}
        /\ r \in DOMAIN g /\ \A a \in Blocks \ {p, n} : g[a] = u[a]
    BY <1>2, <1>3, <1>5, <1>6, <1>9
  <2> HIDE DEF g
  <2>2. h = [a \in DOMAIN g |-> IF a = r
                                THEN with_next(g[r], y, g[r].size + b.size + blk[n].size
                                                          + 2 * HEAD)
                                ELSE g[a]]
    <3>1. /\ y \in Int /\ b.size \in Nat /\ blk[n].size \in Nat /\ 2 * HEAD \in Nat
      BY <1>2, <1>6, <1>9
    <3> HIDE DEF y, n, b, r
    <3>2. h = grown_to(g, r, y, g[r].size + b.size + blk[n].size + 2 * HEAD)
      BY <2>1, <3>1, GrownTwiceIs
    <3> HIDE DEF h
    <3> QED
      BY <3>2 DEF grown_to
  <2> HIDE DEF h
  <2>3. f4 = [a \in DOMAIN h |-> IF a = y THEN with_prev(h[a], r) ELSE h[a]]
    BY DEF relinked, with_prev, h, g
  <2>4. /\ u[p].next = n /\ u[n].next = y /\ u[n].size = blk[n].size /\ u[p].size = b.size
        /\ u[r].next = p /\ r # n /\ r # p /\ y # n /\ y # p /\ n # p /\ r \in Blocks
        /\ u[r].size \in Nat /\ b.size \in Nat /\ blk[n].size \in Nat
        /\ u[p] \in BLOCK_HEAD
    BY <1>2, <1>3, <1>5, <1>6, <1>9 DEF BLOCK_HEAD
  <2> DEFINE m == b.size + blk[n].size + HEAD
  <2>5. /\ DOMAIN v = Blocks \ {n}
        /\ v[p] = with_next(u[p], y, m)
        /\ \A a \in Blocks \ {n, p} : v[a] = IF a = y THEN with_prev(u[a], p) ELSE u[a]
    BY <1>3, <2>4 DEF merged
  <2>6. v[p].next = y /\ v[p].size = m
    <3>1. y \in Int /\ m \in Nat
      BY <1>2, <1>6, <1>9, <2>4
    <3> DEFINE w == u[p]
    <3>2. w \in BLOCK_HEAD /\ v[p] = with_next(w, y, m)
      BY <2>4, <2>5
    <3> HIDE DEF y, m, v, w
    <3> QED
      BY ONLY <3>1, <3>2, NextIs
  <2>7. y # r
    BY <1>2, <1>5, <1>6, <1>9, HeapConstants
  <2>8. v[r] = u[r]
    BY <2>4, <2>5, <2>7
  <2> HIDE DEF v
  <2>9. merged(v, r) = [a \in Blocks \ {n, p} |->
                         IF a = r THEN with_next(u[r], y, u[r].size + m + HEAD)
                         ELSE IF a = y THEN with_prev(v[a], r)
                         ELSE v[a]]
    <3> DEFINE o == u[r].size
    <3>1. /\ v[r].next = p /\ v[p].next = y /\ v[p].size = m /\ v[r].size = o /\ v[r] = u[r]
          /\ DOMAIN v \ {p} = Blocks \ {n, p}
      BY <2>4, <2>5, <2>6, <2>8
    <3> HIDE DEF y, m, n, r, b, u, o
    <3>2. merged(v, r) = [a \in Blocks \ {n, p} |->
                           IF a = r THEN with_next(u[r], y, o + m + HEAD)
                           ELSE IF a = y THEN with_prev(v[a], r)
                           ELSE v[a]]
      BY ONLY <3>1 DEF merged
    <3> QED
      BY <3>2 DEF o
  <2>10. u[r].size + m + HEAD = u[r].size + b.size + blk[n].size + 2 * HEAD
    BY <1>2, <2>4
  <2>11. y \in Blocks => with_prev(v[y], r) = with_prev(u[y], r)
    <3>1. y \in Blocks => v[y] = with_prev(u[y], p)
      BY <2>4, <2>5
    <3> HIDE DEF y
    <3> QED
      BY <3>1 DEF with_prev
  <2>12. h = [a \in Blocks \ {p, n} |-> IF a = r THEN with_next(u[r], y, u[r].size + m + HEAD)
                                        ELSE u[a]]
    BY <2>1, <2>2, <2>10
  <2> HIDE DEF f4, y, m, n, r, b
  <2>13. f4 = [a \in Blocks \ {n, p} |->
                         IF a = r THEN with_next(u[r], y, u[r].size + m + HEAD)
                         ELSE IF a = y THEN with_prev(u[a], r)
                         ELSE u[a]]
    BY <2>3, <2>7, <2>12
  <2>14. ASSUME NEW a \in Blocks \ {n, p}, a # r
         PROVE  (IF a = y THEN with_prev(v[a], r) ELSE v[a])
                  = IF a = y THEN with_prev(u[a], r) ELSE u[a]
    BY <2>5, <2>11, <2>14
  <2> QED
    BY <2>9, <2>13, <2>14 DEF v
<1> HIDE DEF f2, f3, f4
<1>10. /\ ~ P /\ ~ N => freed(p) = f1
       /\ P /\ ~ N => freed(p) = f2
       /\ ~ P /\ N => freed(p) = f3
       /\ P /\ N => freed(p) = f4
  BY <1>1, Zenon
<1>11. /\ ~ P /\ ~ N => freed(p) = u
       /\ P /\ ~ N => freed(p) = merged(u, r)
       /\ ~ P /\ N => freed(p) = merged(u, p)
       /\ P /\ N => freed(p) = merged(merged(u, p), r)
  BY <1>3, <1>7, <1>8, <1>9, <1>10
<1> QED
  BY <1>11 DEF P, N, u

\* The five counters of a chain.
blockNum(f) == Cardinality(DOMAIN f)
allocedNum(f) == Cardinality(allocedIn(f))
allocedSize(f) == bytesIn(f, allocedIn(f))
freeNum(f) == Cardinality(freeIn(f))
freeSize(f) == bytesIn(f, freeIn(f))

\* CountersMatch in terms of the chain.
LEMMA CountersAre ==
  CountersMatch <=> info = [block_num |-> blockNum(blk),
                            alloced_num |-> allocedNum(blk), alloced_size |-> allocedSize(blk),
                            free_num |-> freeNum(blk), free_size |-> freeSize(blk)]
<1>1. allocedIn(blk) = Alloced /\ freeIn(blk) = Free /\ DOMAIN blk = Blocks
  BY DEF allocedIn, freeIn, Alloced, Free, Blocks
<1>2. \A S : bytesIn(blk, S) = bytes(S)
  BY DEF bytesIn, bytes, sizes, Blocks
<1>3. /\ blockNum(blk) = Cardinality(Blocks)
      /\ allocedNum(blk) = Cardinality(Alloced) /\ allocedSize(blk) = bytes(Alloced)
      /\ freeNum(blk) = Cardinality(Free) /\ freeSize(blk) = bytes(Free)
  BY <1>1, <1>2, Zenon DEF blockNum, allocedNum, allocedSize, freeNum, freeSize
<1> QED
  BY <1>3 DEF CountersMatch

\* The counters of a chain are numbers, and each block is allocated or free.
LEMMA CountsTyped ==
  ASSUME NEW f, Heads(f)
  PROVE  /\ blockNum(f) \in Nat /\ allocedNum(f) \in Nat /\ freeNum(f) \in Nat
         /\ allocedSize(f) \in Nat /\ freeSize(f) \in Nat
         /\ blockNum(f) = allocedNum(f) + freeNum(f)
<1> DEFINE D == DOMAIN f
<1>1. allocedIn(f) \subseteq D /\ freeIn(f) \subseteq D
      /\ allocedIn(f) \cap freeIn(f) = {} /\ allocedIn(f) \cup freeIn(f) = D
  BY DEF allocedIn, freeIn
<1>2. /\ IsFiniteSet(allocedIn(f)) /\ IsFiniteSet(freeIn(f))
      /\ Cardinality(allocedIn(f)) \in Nat /\ Cardinality(freeIn(f)) \in Nat
      /\ Cardinality(D) \in Nat
      /\ bytesIn(f, allocedIn(f)) \in Nat /\ bytesIn(f, freeIn(f)) \in Nat
  BY <1>1, BytesAre
<1>3. Cardinality(allocedIn(f) \cup freeIn(f))
        = Cardinality(allocedIn(f)) + Cardinality(freeIn(f)) - Cardinality(allocedIn(f) \cap freeIn(f))
  BY <1>2, FS_Union
<1>4. Cardinality({}) = 0
  BY FS_EmptySet
<1>5. blockNum(f) = Cardinality(D)
  BY DEF blockNum
<1> HIDE DEF D
<1> DEFINE A == allocedIn(f)
           F == freeIn(f)
<1>6. /\ Cardinality(D) = Cardinality(A \cup F) /\ Cardinality(A \cap F) = 0
  BY <1>1, <1>4, Zenon
<1>7. Cardinality(D) = Cardinality(A) + Cardinality(F)
  BY <1>2, <1>3, <1>6
<1> QED
  BY <1>2, <1>5, <1>7 DEF allocedNum, allocedSize, freeNum, freeSize

\* A block that is handed out, or given back the other way around.
LEMMA MarkCounts ==
  ASSUME NEW f, NEW g, Heads(f), Heads(g), DOMAIN g = DOMAIN f, NEW p \in DOMAIN f,
         \A a \in DOMAIN f : g[a].size = f[a].size,
         ~ f[p].is_alloced, g[p].is_alloced,
         \A a \in DOMAIN f \ {p} : g[a].is_alloced <=> f[a].is_alloced
  PROVE  /\ allocedIn(g) = allocedIn(f) \cup {p} /\ p \notin allocedIn(f)
         /\ blockNum(g) = blockNum(f)
         /\ allocedNum(g) = allocedNum(f) + 1
         /\ allocedSize(g) = allocedSize(f) + f[p].size
         /\ freeNum(f) = freeNum(g) + 1
         /\ freeSize(f) = freeSize(g) + f[p].size
<1>1. /\ allocedIn(g) = allocedIn(f) \cup {p} /\ p \notin allocedIn(f)
      /\ p \in freeIn(f) /\ freeIn(g) = freeIn(f) \ {p} /\ p \in allocedIn(g)
      /\ allocedIn(f) = allocedIn(g) \ {p}
      /\ allocedIn(f) \subseteq DOMAIN f /\ freeIn(f) \subseteq DOMAIN f
      /\ allocedIn(g) \subseteq DOMAIN g /\ freeIn(g) \subseteq DOMAIN f
  BY DEF allocedIn, freeIn
<1>2. /\ bytesIn(g, allocedIn(g)) = g[p].size + bytesIn(g, allocedIn(f))
      /\ Cardinality(allocedIn(f)) = Cardinality(allocedIn(g)) - 1
      /\ Cardinality(allocedIn(g)) \in Nat
      /\ bytesIn(g, allocedIn(f)) \in Nat
  <2> DEFINE S == allocedIn(g)
  <2>1. /\ Heads(g) /\ S \subseteq DOMAIN g /\ p \in S
        /\ allocedIn(g) = S /\ allocedIn(f) = S \ {p}
    BY <1>1
  <2> HIDE DEF S
  <2>2. Apart(g, S, p)
    BY <2>1, BytesSplit
  <2> QED
    <3> DEFINE T == S \ {p}
    <3>1. allocedIn(g) = S /\ allocedIn(f) = T /\ T = S \ {p}
      BY <2>1
    <3>2. /\ bytesIn(g, S) = g[p].size + bytesIn(g, T) /\ bytesIn(g, T) \in Nat
          /\ Cardinality(T) = Cardinality(S) - 1 /\ Cardinality(S) \in Nat
      BY <2>2, Zenon DEF Apart
    <3> HIDE DEF T
    <3> QED
      BY ONLY <3>1, <3>2, Zenon
<1>3. /\ bytesIn(f, freeIn(f)) = f[p].size + bytesIn(f, freeIn(g))
      /\ Cardinality(freeIn(g)) = Cardinality(freeIn(f)) - 1
      /\ Cardinality(freeIn(f)) \in Nat /\ f[p].size \in Nat
      /\ bytesIn(f, freeIn(g)) \in Nat
  <2> DEFINE S == freeIn(f)
  <2>1. /\ Heads(f) /\ S \subseteq DOMAIN f /\ p \in S
        /\ freeIn(f) = S /\ freeIn(g) = S \ {p}
    BY <1>1
  <2> HIDE DEF S
  <2>2. Apart(f, S, p)
    BY <2>1, BytesSplit
  <2> QED
    <3> DEFINE T == S \ {p}
    <3>1. freeIn(f) = S /\ freeIn(g) = T /\ T = S \ {p}
      BY <2>1
    <3>2. /\ bytesIn(f, S) = f[p].size + bytesIn(f, T) /\ bytesIn(f, T) \in Nat
          /\ Cardinality(T) = Cardinality(S) - 1 /\ Cardinality(S) \in Nat
          /\ f[p].size \in Nat
      BY <2>2, Zenon DEF Apart
    <3> HIDE DEF T
    <3> QED
      BY ONLY <3>1, <3>2, Zenon
<1>4. bytesIn(g, allocedIn(f)) = bytesIn(f, allocedIn(f)) /\ bytesIn(g, freeIn(g)) = bytesIn(f, freeIn(g))
  BY <1>1, BytesSame
<1> QED
  BY <1>1, <1>2, <1>3, <1>4 DEF blockNum, allocedNum, allocedSize, freeNum, freeSize

\* A free block p that takes in a free block q, or is cut the other way around.
LEMMA JoinCounts ==
  ASSUME NEW f, NEW g, Heads(f), Heads(g), NEW p \in DOMAIN f, NEW q \in DOMAIN f \ {p},
         DOMAIN g = DOMAIN f \ {q},
         ~ f[p].is_alloced, ~ f[q].is_alloced,
         g[p].size = f[p].size + f[q].size + HEAD,
         \A a \in DOMAIN g \ {p} : g[a].size = f[a].size,
         \A a \in DOMAIN g : g[a].is_alloced <=> f[a].is_alloced
  PROVE  /\ allocedIn(g) = allocedIn(f)
         /\ blockNum(f) = blockNum(g) + 1
         /\ allocedNum(g) = allocedNum(f)
         /\ allocedSize(g) = allocedSize(f)
         /\ freeNum(f) = freeNum(g) + 1
         /\ freeSize(g) = freeSize(f) + HEAD
<1> DEFINE R == freeIn(f) \ {q}
           T == R \ {p}
<1>1. /\ allocedIn(g) = allocedIn(f) /\ freeIn(g) = R
      /\ R = freeIn(f) \ {q} /\ T = R \ {p}
      /\ p \in R /\ q \in freeIn(f) /\ p \notin allocedIn(f) /\ p \notin T
      /\ allocedIn(f) \subseteq DOMAIN f /\ freeIn(f) \subseteq DOMAIN f
      /\ R \subseteq DOMAIN f /\ R \subseteq DOMAIN g /\ T \subseteq DOMAIN f /\ T \subseteq DOMAIN g
      /\ allocedIn(f) \subseteq DOMAIN g
  BY DEF allocedIn, freeIn
<1> HIDE DEF R, T
<1>2. /\ bytesIn(f, freeIn(f)) = f[q].size + bytesIn(f, R)
      /\ Cardinality(R) = Cardinality(freeIn(f)) - 1
      /\ Cardinality(freeIn(f)) \in Nat
      /\ f[q].size \in Nat
  <2> DEFINE S == freeIn(f)
  <2>1. S \subseteq DOMAIN f /\ q \in S /\ R = S \ {q}
    BY <1>1
  <2> HIDE DEF S
  <2>2. Apart(f, S, q)
    BY <2>1, BytesSplit
  <2>3. /\ bytesIn(f, S) = f[q].size + bytesIn(f, R) /\ f[q].size \in Nat
        /\ Cardinality(R) = Cardinality(S) - 1 /\ Cardinality(S) \in Nat
    BY ONLY <2>1, <2>2, Zenon DEF Apart
  <2> QED
    BY <2>3 DEF S
<1>3. bytesIn(f, R) = f[p].size + bytesIn(f, T) /\ bytesIn(f, T) \in Nat /\ f[p].size \in Nat
  <2>1. /\ bytesIn(f, R) = f[p].size + bytesIn(f, R \ {p})
        /\ bytesIn(f, R \ {p}) \in Nat /\ f[p].size \in Nat
    <3>1. p \in R /\ R \subseteq DOMAIN f
      BY <1>1
    <3>2. Apart(f, R, p)
      BY <3>1, BytesSplit
    <3> QED
      BY <3>2, Zenon DEF Apart
  <2> QED
    BY <1>1, <2>1, Zenon
<1>4. bytesIn(g, R) = g[p].size + bytesIn(g, T)
  <2>1. bytesIn(g, R) = g[p].size + bytesIn(g, R \ {p})
    <3>1. p \in R /\ R \subseteq DOMAIN g
      BY <1>1
    <3>2. Apart(g, R, p)
      BY <3>1, BytesSplit
    <3> QED
      BY <3>2, Zenon DEF Apart
  <2> QED
    BY <1>1, <2>1, Zenon
<1>5. /\ Cardinality(DOMAIN g) = Cardinality(DOMAIN f) - 1
      /\ Cardinality(DOMAIN f) \in Nat
  <2>1. Apart(f, DOMAIN f, q)
    BY BytesSplit
  <2> QED
    BY <2>1, Zenon DEF Apart
<1>6. bytesIn(g, T) = bytesIn(f, T)
  <2>1. \A a \in T : g[a].size = f[a].size
    BY <1>1
  <2> QED
    BY <1>1, <2>1, BytesSame
<1>7. bytesIn(g, allocedIn(f)) = bytesIn(f, allocedIn(f))
  <2>1. \A a \in allocedIn(f) : g[a].size = f[a].size
    BY <1>1
  <2> QED
    BY <1>1, <2>1, BytesSame
<1> QED
  BY <1>1, <1>2, <1>3, <1>4, <1>5, <1>6, <1>7, HeapConstants
     DEF blockNum, allocedNum, allocedSize, freeNum, freeSize

\* Of the block a and the next one, one is in use.
OneInUse(f, a) == f[a].next # NoBlock => f[a].is_alloced \/ f[f[a].next].is_alloced

\* The chain and its counts after two free neighbours became one.
LEMMA MergeSays ==
  ASSUME NEW f, Chain(f), NEW p \in DOMAIN f, f[p].next # NoBlock,
         ~ f[p].is_alloced, ~ f[f[p].next].is_alloced
  PROVE  LET g == merged(f, p)
         IN  /\ Chain(g) /\ f[p].next \in DOMAIN f /\ p \in DOMAIN g
             /\ DOMAIN g = DOMAIN f \ {f[p].next}
             /\ ~ g[p].is_alloced
             /\ g[p].next = f[f[p].next].next /\ g[p].prev = f[p].prev
             /\ \A a \in DOMAIN g : g[a].is_alloced = f[a].is_alloced
             /\ \A a \in DOMAIN g \ {p} : g[a].next = f[a].next /\ g[a].size = f[a].size
             /\ \A a \in DOMAIN g \ {p} : OneInUse(f, a) => OneInUse(g, a)
             /\ OneInUse(f, f[p].next) => OneInUse(g, p)
             /\ allocedIn(g) = allocedIn(f)
             /\ blockNum(f) = blockNum(g) + 1
             /\ allocedNum(g) = allocedNum(f)
             /\ allocedSize(g) = allocedSize(f)
             /\ freeNum(f) = freeNum(g) + 1
             /\ freeSize(g) = freeSize(f) + HEAD
<1> DEFINE g == merged(f, p)
           q == f[p].next
           y == f[q].next
<1>1. IsMerged(f, p, g) /\ Chain(g)
  BY MergedIs, MergeKeeps
<1> HIDE DEF g
<1>2. /\ q \in DOMAIN f /\ q # p /\ y # p /\ y # q /\ f[q].prev = p
      /\ DOMAIN g = DOMAIN f \ {q} /\ p \in DOMAIN g
      /\ g[p].next = y /\ g[p].prev = f[p].prev /\ g[p].size = f[p].size + f[q].size + HEAD
      /\ \A a \in DOMAIN g \ {p} : g[a].next = f[a].next /\ g[a].size = f[a].size
      /\ \A a \in DOMAIN g : g[a].is_alloced = f[a].is_alloced
  <2>1. /\ q \in DOMAIN f /\ q # p /\ y # p /\ y # q /\ f[q].prev = p
        /\ DOMAIN g = DOMAIN f \ {q}
        /\ g[p].next = y /\ g[p].prev = f[p].prev /\ g[p].size = f[p].size + f[q].size + HEAD
    BY <1>1 DEF IsMerged
  <2>2. \A a \in DOMAIN f \ {p, q} : g[a].next = f[a].next /\ g[a].size = f[a].size
    BY <1>1 DEF IsMerged
  <2>3. \A a \in DOMAIN f \ {q} : g[a].is_alloced = f[a].is_alloced
    BY <1>1 DEF IsMerged
  <2> HIDE DEF q, y
  <2> QED
    BY <2>1, <2>2, <2>3
<1>3. \A a \in DOMAIN f : \/ f[a].next = NoBlock
                          \/ f[a].next \in DOMAIN f /\ f[f[a].next].prev = a
  <2>1. ASSUME NEW a \in DOMAIN f, f[a].next # NoBlock
        PROVE  f[a].next \in DOMAIN f /\ f[f[a].next].prev = a
    <3>1. f[a].next = End(f, a) /\ End(f, a) \in DOMAIN f /\ f[End(f, a)].prev = a
      BY <2>1 DEF Chain, Tiles
    <3> QED
      BY <3>1, Zenon
  <2> HIDE DEF q, y
  <2> QED
    BY <2>1
<1>4. \A a \in DOMAIN g \ {p} : OneInUse(f, a) => OneInUse(g, a)
  <2>1. SUFFICES ASSUME NEW a \in DOMAIN g \ {p}, OneInUse(f, a), g[a].next # NoBlock
                 PROVE  g[a].is_alloced \/ g[g[a].next].is_alloced
    BY DEF OneInUse
  <2>2. g[a].next = f[a].next /\ f[a].next \in DOMAIN f /\ f[a].next # q
    BY <1>2, <1>3, <2>1
  <2> QED
    BY <1>2, <2>1, <2>2 DEF OneInUse
<1>5. OneInUse(f, q) => OneInUse(g, p)
  <2>1. SUFFICES ASSUME OneInUse(f, q), g[p].next # NoBlock
                 PROVE  g[g[p].next].is_alloced
    BY DEF OneInUse
  <2>2. y \in DOMAIN g
    BY <1>2, <1>3, <2>1
  <2> QED
    BY <1>2, <2>1, <2>2 DEF OneInUse
<1>6. /\ allocedIn(g) = allocedIn(f)
      /\ blockNum(f) = blockNum(g) + 1
      /\ allocedNum(g) = allocedNum(f)
      /\ allocedSize(g) = allocedSize(f)
      /\ freeNum(f) = freeNum(g) + 1
      /\ freeSize(g) = freeSize(f) + HEAD
  <2>1. Heads(f) /\ Heads(g)
    BY <1>1 DEF Chain
  <2>2. ~ f[q].is_alloced /\ \A a \in DOMAIN g : g[a].is_alloced <=> f[a].is_alloced
    BY <1>2
  <2> HIDE DEF q, y
  <2> QED
    BY <1>2, <2>1, <2>2, JoinCounts
<1>7. ~ g[p].is_alloced
  BY <1>2
<1> HIDE DEF q, y
<1> QED
  BY <1>1, <1>2, <1>4, <1>5, <1>6, <1>7 DEF g, q, y

-----------------------------------------------------------------------------
(* The steps of malloc and free.                                           *)

\* The bytes of the blocks and of their heads are those of the heap.
Conserved ==
  info.alloced_size + info.free_size + HEAD * info.block_num = HEAP_SIZE

HeapOK == Chain(blk) /\ CountersMatch /\ FreeBlocksMerged /\ Conserved

\* FreeBlocksMerged block by block.
LEMMA MergedMeans == FreeBlocksMerged <=> \A a \in Blocks : OneInUse(blk, a)
  BY DEF FreeBlocksMerged, OneInUse

\* The same after a step.
LEMMA MergedMeansNext == FreeBlocksMerged' <=> \A a \in DOMAIN blk' : OneInUse(blk', a)
  BY DEF FreeBlocksMerged, OneInUse, Blocks

\* CountersMatch after a step.
LEMMA CountersAreNext ==
  CountersMatch' <=> info' = [block_num |-> blockNum(blk'),
                              alloced_num |-> allocedNum(blk'),
                              alloced_size |-> allocedSize(blk'),
                              free_num |-> freeNum(blk'), free_size |-> freeSize(blk')]
<1>1. allocedIn(blk') = Alloced' /\ freeIn(blk') = Free' /\ DOMAIN blk' = Blocks'
  BY DEF allocedIn, freeIn, Alloced, Free, Blocks
<1>2. bytesIn(blk', Alloced') = bytes(Alloced)' /\ bytesIn(blk', Free') = bytes(Free)'
  BY DEF bytesIn, bytes, sizes, Blocks
<1>3. /\ blockNum(blk') = Cardinality(Blocks)'
      /\ allocedNum(blk') = Cardinality(Alloced)' /\ allocedSize(blk') = bytes(Alloced)'
      /\ freeNum(blk') = Cardinality(Free)' /\ freeSize(blk') = bytes(Free)'
  BY <1>1, <1>2, Zenon DEF blockNum, allocedNum, allocedSize, freeNum, freeSize
<1> QED
  BY <1>3 DEF CountersMatch

\* The counters as one record, and the assignments malloc and free make to them.
five(a, b, c, d, e) ==
  [block_num |-> a, alloced_num |-> b, alloced_size |-> c, free_num |-> d, free_size |-> e]

whole(i, s) == [i EXCEPT !.free_num = @ - 1, !.free_size = @ - s,
                         !.alloced_num = @ + 1, !.alloced_size = @ + s]

part(i, n) == [i EXCEPT !.block_num = @ + 1, !.free_size = @ - (n + HEAD),
                        !.alloced_num = @ + 1, !.alloced_size = @ + n]

back(i, s, m) == [i EXCEPT !.alloced_size = (@ - s) % WORD, !.alloced_num = (@ - 1) % WORD,
                           !.free_size = @ + s + m * HEAD,
                           !.block_num = @ - m, !.free_num = @ + 1 - m]

\* The bytes of the heap, heads included.
all_bytes(i) == i.alloced_size + i.free_size + HEAD * i.block_num

\* The counters of _G_sys_heap.
INFO == [block_num : Int, alloced_num : Int, alloced_size : Int, free_num : Int, free_size : Int]

\* The assignments with their values.
four(i, a, b, c, d) == [i EXCEPT !.free_num = a, !.free_size = b, !.alloced_num = c,
                                 !.alloced_size = d]

set_part(i, a, b, c, d) == [i EXCEPT !.block_num = a, !.free_size = b, !.alloced_num = c,
                                     !.alloced_size = d]

set_back(i, a, b, c, d, e) == [i EXCEPT !.alloced_size = a, !.alloced_num = b, !.free_size = c,
                                        !.block_num = d, !.free_num = e]

\* The fields of the counters.
LEMMA InfoFields ==
  ASSUME NEW a \in Int, NEW b \in Int, NEW c \in Int, NEW d \in Int, NEW e \in Int
  PROVE  /\ five(a, b, c, d, e) \in INFO
         /\ five(a, b, c, d, e).block_num = a
         /\ five(a, b, c, d, e).alloced_num = b
         /\ five(a, b, c, d, e).alloced_size = c
         /\ five(a, b, c, d, e).free_num = d
         /\ five(a, b, c, d, e).free_size = e
  BY DEF five, INFO

\* Records with five equal fields.
LEMMA SameInfo ==
  ASSUME NEW i \in INFO, NEW j \in INFO, i.block_num = j.block_num,
         i.alloced_num = j.alloced_num, i.alloced_size = j.alloced_size,
         i.free_num = j.free_num, i.free_size = j.free_size
  PROVE  i = j
  BY DEF INFO

\* The assignments of malloc without a split.
LEMMA SetFour ==
  ASSUME NEW i \in INFO, NEW a \in Int, NEW b \in Int, NEW c \in Int, NEW d \in Int
  PROVE  four(i, a, b, c, d) = five(i.block_num, c, d, a, b)
<1>1. /\ four(i, a, b, c, d) \in INFO
      /\ four(i, a, b, c, d).block_num = i.block_num
      /\ four(i, a, b, c, d).free_num = a /\ four(i, a, b, c, d).free_size = b
      /\ four(i, a, b, c, d).alloced_num = c /\ four(i, a, b, c, d).alloced_size = d
  BY DEF four, INFO
<1>2. i.block_num \in Int
  BY DEF INFO
<1> DEFINE x == four(i, a, b, c, d)
           y == five(i.block_num, c, d, a, b)
<1>3. /\ y \in INFO /\ y.block_num = i.block_num /\ y.alloced_num = c
      /\ y.alloced_size = d /\ y.free_num = a /\ y.free_size = b
  <2> DEFINE o == i.block_num
             w == five(o, c, d, a, b)
  <2>1. o \in Int /\ y = w
    BY <1>2
  <2> HIDE DEF o, y
  <2>2. /\ w \in INFO /\ w.block_num = o /\ w.alloced_num = c
        /\ w.alloced_size = d /\ w.free_num = a /\ w.free_size = b
    <3>1. o \in Int
      BY <2>1
    <3> QED
      BY ONLY <3>1, a \in Int, b \in Int, c \in Int, d \in Int, InfoFields
  <2> HIDE DEF w
  <2> QED
    BY <2>1, <2>2 DEF o
<1> HIDE DEF x, y
<1>4. x = y
  <2>1. /\ x \in INFO /\ x.block_num = y.block_num /\ x.alloced_num = y.alloced_num
        /\ x.alloced_size = y.alloced_size /\ x.free_num = y.free_num
        /\ x.free_size = y.free_size
    BY <1>1, <1>3 DEF x
  <2> QED
    BY ONLY <1>3, <2>1, SameInfo
<1> QED
  BY <1>4 DEF x, y

\* The assignments of malloc with a split.
LEMMA SetPart ==
  ASSUME NEW i \in INFO, NEW a \in Int, NEW b \in Int, NEW c \in Int, NEW d \in Int
  PROVE  set_part(i, a, b, c, d) = five(a, c, d, i.free_num, b)
<1>1. /\ set_part(i, a, b, c, d) \in INFO
      /\ set_part(i, a, b, c, d).free_num = i.free_num
      /\ set_part(i, a, b, c, d).block_num = a /\ set_part(i, a, b, c, d).free_size = b
      /\ set_part(i, a, b, c, d).alloced_num = c /\ set_part(i, a, b, c, d).alloced_size = d
  BY DEF set_part, INFO
<1>2. i.free_num \in Int
  BY DEF INFO
<1> DEFINE x == set_part(i, a, b, c, d)
           y == five(a, c, d, i.free_num, b)
<1>3. /\ y \in INFO /\ y.block_num = a /\ y.alloced_num = c
      /\ y.alloced_size = d /\ y.free_num = i.free_num /\ y.free_size = b
  <2> DEFINE o == i.free_num
             w == five(a, c, d, o, b)
  <2>1. o \in Int /\ y = w
    BY <1>2
  <2> HIDE DEF o, y
  <2>2. /\ w \in INFO /\ w.block_num = a /\ w.alloced_num = c
        /\ w.alloced_size = d /\ w.free_num = o /\ w.free_size = b
    <3>1. o \in Int
      BY <2>1
    <3> QED
      BY ONLY <3>1, a \in Int, b \in Int, c \in Int, d \in Int, InfoFields
  <2> HIDE DEF w
  <2> QED
    BY <2>1, <2>2 DEF o
<1> HIDE DEF x, y
<1>4. x = y
  <2>1. /\ x \in INFO /\ x.block_num = y.block_num /\ x.alloced_num = y.alloced_num
        /\ x.alloced_size = y.alloced_size /\ x.free_num = y.free_num
        /\ x.free_size = y.free_size
    BY <1>1, <1>3 DEF x
  <2> QED
    BY ONLY <1>3, <2>1, SameInfo
<1> QED
  BY <1>4 DEF x, y

\* The assignments of free.
LEMMA SetBack ==
  ASSUME NEW i \in INFO, NEW a \in Int, NEW b \in Int, NEW c \in Int, NEW d \in Int,
         NEW e \in Int
  PROVE  set_back(i, a, b, c, d, e) = five(d, b, a, e, c)
<1>1. /\ set_back(i, a, b, c, d, e) \in INFO
      /\ set_back(i, a, b, c, d, e).alloced_size = a
      /\ set_back(i, a, b, c, d, e).alloced_num = b
      /\ set_back(i, a, b, c, d, e).free_size = c
      /\ set_back(i, a, b, c, d, e).block_num = d
      /\ set_back(i, a, b, c, d, e).free_num = e
  BY DEF set_back, INFO
<1> DEFINE x == set_back(i, a, b, c, d, e)
           y == five(d, b, a, e, c)
<1>3. /\ y \in INFO /\ y.block_num = d /\ y.alloced_num = b
      /\ y.alloced_size = a /\ y.free_num = e /\ y.free_size = c
  BY InfoFields
<1> HIDE DEF x, y
<1>4. x = y
  <2>1. /\ x \in INFO /\ x.block_num = y.block_num /\ x.alloced_num = y.alloced_num
        /\ x.alloced_size = y.alloced_size /\ x.free_num = y.free_num
        /\ x.free_size = y.free_size
    BY <1>1, <1>3 DEF x
  <2> QED
    BY ONLY <1>3, <2>1, SameInfo
<1> QED
  BY <1>4 DEF x, y

\* The counters after malloc handed out a whole block.
LEMMA WholeIs ==
  ASSUME NEW i \in INFO, NEW s \in Int
  PROVE  whole(i, s) = five(i.block_num, i.alloced_num + 1, i.alloced_size + s,
                            i.free_num - 1, i.free_size - s)
<1>1. whole(i, s) = four(i, i.free_num - 1, i.free_size - s, i.alloced_num + 1,
                         i.alloced_size + s)
  BY Zenon DEF whole, four
<1>2. /\ i.free_num - 1 \in Int /\ i.free_size - s \in Int /\ i.alloced_num + 1 \in Int
      /\ i.alloced_size + s \in Int
  BY DEF INFO
<1> QED
  BY <1>1, <1>2, SetFour

\* The counters after malloc split a block.
LEMMA PartIs ==
  ASSUME NEW i \in INFO, NEW s \in Int
  PROVE  part(i, s) = five(i.block_num + 1, i.alloced_num + 1, i.alloced_size + s,
                           i.free_num, i.free_size - (s + HEAD))
<1>1. part(i, s) = set_part(i, i.block_num + 1, i.free_size - (s + HEAD), i.alloced_num + 1,
                            i.alloced_size + s)
  BY Zenon DEF part, set_part
<1>2. /\ i.block_num + 1 \in Int /\ i.alloced_num + 1 \in Int /\ i.alloced_size + s \in Int
      /\ i.free_size - (s + HEAD) \in Int
  BY HeapConstants DEF INFO
<1> QED
  BY <1>1, <1>2, SetPart

\* The counters after free.
LEMMA BackIs ==
  ASSUME NEW i \in INFO, NEW s \in Int, NEW m \in Int
  PROVE  back(i, s, m) = five(i.block_num - m, (i.alloced_num - 1) % WORD,
                              (i.alloced_size - s) % WORD, i.free_num + 1 - m,
                              i.free_size + s + m * HEAD)
<1> DEFINE x == (i.alloced_size - s) % WORD
           y == (i.alloced_num - 1) % WORD
           z == i.free_size + s + m * HEAD
           v == i.block_num - m
           w == i.free_num + 1 - m
<1>1. back(i, s, m) = set_back(i, x, y, z, v, w)
  BY Zenon DEF back, set_back
<1>2. /\ i.block_num \in Int /\ i.alloced_num \in Int /\ i.alloced_size \in Int
      /\ i.free_num \in Int /\ i.free_size \in Int
      /\ WORD \in Nat /\ WORD > 0 /\ HEAD \in Nat
  BY HeapConstants DEF INFO
<1>3. x \in Int /\ y \in Int
  BY <1>2
<1>4. z \in Int /\ v \in Int /\ w \in Int
  BY <1>2
<1> HIDE DEF x, y, z, v, w
<1>5. back(i, s, m) = five(v, y, x, w, z)
  BY <1>1, <1>3, <1>4, SetBack
<1> QED
  BY <1>5 DEF x, y, z, v, w

\* CountersMatch, now and after a step, as one record.
LEMMA CountersMean ==
  /\ CountersMatch <=> info = five(blockNum(blk), allocedNum(blk), allocedSize(blk),
                                   freeNum(blk), freeSize(blk))
  /\ CountersMatch' <=> info' = five(blockNum(blk'), allocedNum(blk'), allocedSize(blk'),
                                     freeNum(blk'), freeSize(blk'))
  BY CountersAre, CountersAreNext, Zenon DEF five

\* Conserved, now and after a step.
LEMMA ConservedIs ==
  /\ Conserved <=> all_bytes(info) = HEAP_SIZE
  /\ Conserved' <=> all_bytes(info') = HEAP_SIZE
  BY DEF Conserved, all_bytes

\* malloc's block is free and large enough.
LEMMA FirstFit ==
  ASSUME Chain(blk), NEW n \in Nat, Fits(n) # {}
  PROVE  /\ first_fit(n) \in Blocks /\ ~ blk[first_fit(n)].is_alloced
         /\ aligned(n) <= blk[first_fit(n)].size
<1>1. Fits(n) \in SUBSET Nat
  BY DEF Fits, Blocks, Chain, Heads
<1>2. \E p \in Fits(n) : \A q \in Fits(n) : p <= q
  BY <1>1, LeastExists
<1>3. first_fit(n) \in Fits(n)
  BY <1>2 DEF first_fit
<1>4. aligned(n) \in Nat /\ \A p \in Blocks : blk[p].size \in Nat
  BY AlignedUp DEF Chain, Heads, Blocks, BLOCK_HEAD
<1> QED
  BY <1>3, <1>4 DEF Fits

\* What taking the block p changes.
Taken(q, n) ==
  /\ q \in Blocks /\ q \notin allocedIn(blk)
  /\ allocedIn(blk') = allocedIn(blk) \cup {q}
  /\ n <= blk'[q].size
  /\ \A a \in allocedIn(blk) : blk'[a].size = blk[a].size

\* The five numbers of the chain f.
counts(f) == five(blockNum(f), allocedNum(f), allocedSize(f), freeNum(f), freeSize(f))

\* The counters of a chain, one by one.
LEMMA CountsAre ==
  ASSUME NEW f, Heads(f)
  PROVE  /\ counts(f) \in INFO
         /\ counts(f).block_num = blockNum(f) /\ counts(f).alloced_num = allocedNum(f)
         /\ counts(f).alloced_size = allocedSize(f)
         /\ counts(f).free_num = freeNum(f) /\ counts(f).free_size = freeSize(f)
<1> DEFINE v == blockNum(f)
           w == allocedNum(f)
           x == allocedSize(f)
           y == freeNum(f)
           z == freeSize(f)
<1>1. v \in Int /\ w \in Int /\ x \in Int /\ y \in Int /\ z \in Int
  BY CountsTyped
<1>2. counts(f) = five(v, w, x, y, z)
  BY DEF counts
<1> HIDE DEF v, w, x, y, z
<1>3. /\ five(v, w, x, y, z) \in INFO /\ five(v, w, x, y, z).block_num = v
      /\ five(v, w, x, y, z).alloced_num = w /\ five(v, w, x, y, z).alloced_size = x
      /\ five(v, w, x, y, z).free_num = y /\ five(v, w, x, y, z).free_size = z
  BY ONLY <1>1, InfoFields
<1>4. /\ counts(f) \in INFO /\ counts(f).block_num = v
      /\ counts(f).alloced_num = w /\ counts(f).alloced_size = x
      /\ counts(f).free_num = y /\ counts(f).free_size = z
  BY ONLY <1>2, <1>3
<1> QED
  BY <1>4 DEF v, w, x, y, z

\* malloc hands out a whole block.
LEMMA TakeWholeKeeps ==
  ASSUME HeapOK, NEW p \in Blocks, ~ blk[p].is_alloced, NEW n \in Nat, n <= blk[p].size,
         blk' = marked(blk, p, TRUE), info' = whole(info, blk[p].size)
  PROVE  HeapOK' /\ Taken(p, n)
<1> DEFINE c == TRUE
           g == marked(blk, p, c)
<1>1. c \in BOOLEAN /\ c = TRUE /\ blk' = g /\ p \in DOMAIN blk
  BY DEF Blocks
<1>2. Chain(blk) /\ blk \in [DOMAIN blk -> BLOCK_HEAD]
  BY DEF HeapOK, Chain, Heads
<1>3. /\ DOMAIN g = DOMAIN blk
      /\ \A a \in DOMAIN blk : g[a].next = blk[a].next /\ g[a].size = blk[a].size
      /\ g[p].is_alloced = c
      /\ \A a \in DOMAIN blk \ {p} : g[a] = blk[a]
  <2>1. g = marked(blk, p, c)
    OBVIOUS
  <2> HIDE DEF c, g
  <2>2. /\ DOMAIN g = DOMAIN blk
        /\ \A a \in DOMAIN blk : /\ g[a].prev = blk[a].prev
                                 /\ g[a].next = blk[a].next
                                 /\ g[a].size = blk[a].size
        /\ g[p].is_alloced = c
        /\ \A a \in DOMAIN blk \ {p} : g[a] = blk[a]
    <3>1. p \in DOMAIN blk /\ c \in BOOLEAN /\ blk \in [DOMAIN blk -> BLOCK_HEAD]
      BY <1>1, <1>2
    <3> QED
      BY ONLY <2>1, <3>1, MarkedIs
  <2> QED
    BY ONLY <2>2
<1>4. Chain(g)
  <2> HIDE DEF c
  <2> QED
    BY <1>1, <1>2, MarkKeeps
<1> HIDE DEF c, g
<1>5. /\ allocedIn(g) = allocedIn(blk) \cup {p} /\ p \notin allocedIn(blk)
      /\ blockNum(g) = blockNum(blk)
      /\ allocedNum(g) = allocedNum(blk) + 1
      /\ allocedSize(g) = allocedSize(blk) + blk[p].size
      /\ freeNum(blk) = freeNum(g) + 1
      /\ freeSize(blk) = freeSize(g) + blk[p].size
  <2>1. Heads(blk) /\ Heads(g) /\ g[p].is_alloced
    BY <1>1, <1>2, <1>3, <1>4 DEF Chain
  <2> QED
    BY <1>1, <1>3, <2>1, MarkCounts
<1>6. /\ blockNum(blk) \in Nat /\ allocedNum(blk) \in Nat /\ freeNum(blk) \in Nat
      /\ allocedSize(blk) \in Nat /\ freeSize(blk) \in Nat /\ blk[p].size \in Nat
      /\ blockNum(g) \in Nat /\ allocedNum(g) \in Nat /\ freeNum(g) \in Nat
      /\ allocedSize(g) \in Nat /\ freeSize(g) \in Nat
  BY <1>1, <1>2, <1>4, CountsTyped DEF Chain, Heads, BLOCK_HEAD
<1>7. info = counts(blk) /\ Heads(blk) /\ Heads(g)
  BY <1>1, <1>2, <1>4, CountersMean DEF HeapOK, counts, Chain
<1>8. whole(counts(blk), blk[p].size) = counts(g)
  <2> DEFINE i == counts(blk)
             o == blk[p].size
  <2>1. /\ i \in INFO /\ o \in Int
        /\ i.block_num = blockNum(blk) /\ i.alloced_num = allocedNum(blk)
        /\ i.alloced_size = allocedSize(blk)
        /\ i.free_num = freeNum(blk) /\ i.free_size = freeSize(blk)
    BY <1>6, <1>7, CountsAre
  <2>2. /\ allocedSize(g) = allocedSize(blk) + o
        /\ freeSize(blk) = freeSize(g) + o
    BY <1>5
  <2> HIDE DEF i, o
  <2>3. whole(i, o) = five(i.block_num, i.alloced_num + 1, i.alloced_size + o,
                           i.free_num - 1, i.free_size - o)
    BY <2>1, WholeIs
  <2>4. /\ i.block_num = blockNum(g) /\ i.alloced_num + 1 = allocedNum(g)
        /\ i.alloced_size + o = allocedSize(g)
        /\ i.free_num - 1 = freeNum(g) /\ i.free_size - o = freeSize(g)
    BY <1>5, <1>6, <2>1, <2>2
  <2>5. whole(i, o) = counts(g)
    BY <2>3, <2>4, Zenon DEF counts
  <2> QED
    BY <2>5 DEF i, o
<1>9. info' = counts(g)
  BY <1>7, <1>8
<1>10. CountersMatch'
  BY <1>1, <1>9, CountersMean, Zenon DEF counts
<1>11. Conserved'
  <2>1. allocedSize(blk) + freeSize(blk) + HEAD * blockNum(blk) = HEAP_SIZE
    BY <1>7, CountsAre, ConservedIs DEF HeapOK, all_bytes
  <2>2. allocedSize(g) + freeSize(g) + HEAD * blockNum(g) = HEAP_SIZE
    BY <1>5, <1>6, <2>1, HeapConstants
  <2> QED
    BY <1>7, <1>9, <2>2, CountsAre, ConservedIs DEF all_bytes
<1>12. FreeBlocksMerged'
  <2>1. ASSUME NEW a \in DOMAIN g PROVE OneInUse(g, a)
    <3>1. OneInUse(blk, a) /\ a \in DOMAIN blk
      BY <1>3, MergedMeans DEF HeapOK, Blocks
    <3>2. \/ blk[a].next = NoBlock
          \/ blk[a].next \in DOMAIN blk
      BY <1>2, <3>1, ChainSays
    <3> QED
      BY <1>1, <1>3, <3>1, <3>2 DEF OneInUse
  <2> QED
    BY <1>1, <2>1, MergedMeansNext
<1>13. HeapOK'
  BY <1>1, <1>4, <1>10, <1>11, <1>12 DEF HeapOK
<1>14. Taken(p, n)
  BY <1>1, <1>3, <1>5 DEF Taken, allocedIn
<1> QED
  BY <1>13, <1>14

\* malloc splits a block and hands out the first part.
LEMMA TakePartKeeps ==
  ASSUME HeapOK, NEW p \in Blocks, ~ blk[p].is_alloced, NEW n \in Nat, n \in Aligned,
         splits(p, n), blk' = split(p, n), info' = part(info, n)
  PROVE  HeapOK' /\ Taken(p, n)
<1> DEFINE t == TRUE
           c == cut(blk, p, n)
           g == marked(c, p, t)
           q == p + HEAD + n
           x == blk[p].next
<1>1. /\ Chain(blk) /\ blk \in [DOMAIN blk -> BLOCK_HEAD] /\ p \in DOMAIN blk
      /\ t \in BOOLEAN /\ t = TRUE
  BY DEF HeapOK, Chain, Heads, Blocks
<1>2. n + HEAD + HEAP_ALIGN <= blk[p].size /\ blk' = g
  BY <1>1, SplitIs
<1>3. IsCut(blk, p, n, c) /\ Chain(c)
  BY <1>1, <1>2, CutIs, CutKeeps
<1>4. /\ q \in Nat /\ q \notin DOMAIN blk /\ q # p /\ x # p /\ x # q
  BY <1>1, <1>2, NewHead
<1>5. /\ \A a \in DOMAIN blk : blk[a].size \in Nat
      /\ \A a \in DOMAIN blk : \/ blk[a].next = NoBlock
                               \/ blk[a].next \in DOMAIN blk
  <2>1. /\ \A a \in DOMAIN blk : /\ blk[a].size \in Nat
                                 /\ \/ blk[a].next = NoBlock /\ End(blk, a) = HEAP_SIZE
                                    \/ /\ blk[a].next = End(blk, a)
                                       /\ End(blk, a) \in DOMAIN blk
                                       /\ blk[End(blk, a)].prev = a
    BY <1>1, ChainSays
  <2> QED
    BY <2>1
<1> HIDE DEF t, c, x
<1>6. /\ DOMAIN c = DOMAIN blk \cup {q} /\ c \in [DOMAIN c -> BLOCK_HEAD]
      /\ c[q].next = x /\ c[q].size = blk[p].size - (n + HEAD)
      /\ c[q].is_alloced = FALSE /\ c[p].size = n
      /\ \A a \in DOMAIN blk \ {p} : c[a].next = blk[a].next /\ c[a].size = blk[a].size
      /\ \A a \in DOMAIN blk : c[a].is_alloced = blk[a].is_alloced
  BY <1>3 DEF IsCut, x
<1>7. Chain(g)
  BY <1>1, <1>3, <1>6, MarkKeeps
<1>8. /\ DOMAIN g = DOMAIN c
      /\ \A a \in DOMAIN c : g[a].next = c[a].next /\ g[a].size = c[a].size
      /\ g[p].is_alloced = t
      /\ \A a \in DOMAIN c \ {p} : g[a] = c[a]
  <2>1. p \in DOMAIN c /\ t \in BOOLEAN /\ c \in [DOMAIN c -> BLOCK_HEAD]
    BY <1>1, <1>6
  <2>2. /\ DOMAIN g = DOMAIN c
        /\ \A a \in DOMAIN c : /\ g[a].prev = c[a].prev
                               /\ g[a].next = c[a].next
                               /\ g[a].size = c[a].size
        /\ g[p].is_alloced = t
        /\ \A a \in DOMAIN c \ {p} : g[a] = c[a]
    BY ONLY <2>1, MarkedIs
  <2> HIDE DEF g
  <2> QED
    BY ONLY <2>2
<1> HIDE DEF g
<1>9. /\ allocedIn(blk) = allocedIn(c)
      /\ blockNum(c) = blockNum(blk) + 1
      /\ allocedNum(blk) = allocedNum(c)
      /\ allocedSize(blk) = allocedSize(c)
      /\ freeNum(c) = freeNum(blk) + 1
      /\ freeSize(blk) = freeSize(c) + HEAD
  <2>1. /\ Heads(c) /\ Heads(blk) /\ p \in DOMAIN c /\ q \in DOMAIN c \ {p}
        /\ DOMAIN blk = DOMAIN c \ {q} /\ ~ c[p].is_alloced /\ ~ c[q].is_alloced
        /\ \A a \in DOMAIN blk \ {p} : blk[a].size = c[a].size
        /\ \A a \in DOMAIN blk : blk[a].is_alloced <=> c[a].is_alloced
    BY <1>1, <1>3, <1>4, <1>6 DEF Chain
  <2>2. blk[p].size = c[p].size + c[q].size + HEAD
    BY <1>1, <1>5, <1>6, HeapConstants
  <2> HIDE DEF q
  <2> QED
    BY <2>1, <2>2, JoinCounts
<1>10. /\ allocedIn(g) = allocedIn(c) \cup {p} /\ p \notin allocedIn(c)
       /\ blockNum(g) = blockNum(c)
       /\ allocedNum(g) = allocedNum(c) + 1
       /\ allocedSize(g) = allocedSize(c) + c[p].size
       /\ freeNum(c) = freeNum(g) + 1
       /\ freeSize(c) = freeSize(g) + c[p].size
  <2>1. /\ Heads(c) /\ Heads(g) /\ p \in DOMAIN c /\ ~ c[p].is_alloced /\ g[p].is_alloced
        /\ DOMAIN g = DOMAIN c
        /\ \A a \in DOMAIN c : g[a].size = c[a].size
        /\ \A a \in DOMAIN c \ {p} : g[a].is_alloced <=> c[a].is_alloced
    BY <1>1, <1>3, <1>6, <1>7, <1>8 DEF Chain
  <2> QED
    BY <2>1, MarkCounts
<1>11. /\ blockNum(blk) \in Nat /\ allocedNum(blk) \in Nat /\ freeNum(blk) \in Nat
       /\ allocedSize(blk) \in Nat /\ freeSize(blk) \in Nat
       /\ blockNum(g) \in Nat /\ allocedNum(g) \in Nat /\ freeNum(g) \in Nat
       /\ allocedSize(g) \in Nat /\ freeSize(g) \in Nat
       /\ blockNum(c) \in Nat /\ freeNum(c) \in Nat /\ freeSize(c) \in Nat
  BY <1>1, <1>3, <1>7, CountsTyped DEF Chain
<1>12. /\ blockNum(g) = blockNum(blk) + 1
       /\ allocedNum(g) = allocedNum(blk) + 1
       /\ allocedSize(g) = allocedSize(blk) + n
       /\ freeNum(g) = freeNum(blk)
       /\ freeSize(blk) = freeSize(g) + (n + HEAD)
  BY <1>6, <1>9, <1>10, <1>11, HeapConstants
<1>13. info = counts(blk) /\ Heads(blk) /\ Heads(g)
  BY <1>1, <1>7, CountersMean DEF HeapOK, counts, Chain
<1>14. part(counts(blk), n) = counts(g)
  <2> DEFINE i == counts(blk)
  <2>1. /\ i \in INFO
        /\ i.block_num = blockNum(blk) /\ i.alloced_num = allocedNum(blk)
        /\ i.alloced_size = allocedSize(blk)
        /\ i.free_num = freeNum(blk) /\ i.free_size = freeSize(blk)
    BY <1>13, CountsAre
  <2> HIDE DEF i
  <2>2. part(i, n) = five(i.block_num + 1, i.alloced_num + 1, i.alloced_size + n,
                          i.free_num, i.free_size - (n + HEAD))
    BY <2>1, PartIs
  <2>3. /\ i.block_num + 1 = blockNum(g) /\ i.alloced_num + 1 = allocedNum(g)
        /\ i.alloced_size + n = allocedSize(g)
        /\ i.free_num = freeNum(g) /\ i.free_size - (n + HEAD) = freeSize(g)
    BY <1>11, <1>12, <2>1, HeapConstants
  <2>4. part(i, n) = counts(g)
    BY <2>2, <2>3, Zenon DEF counts
  <2> QED
    BY <2>4 DEF i
<1>15. info' = counts(g)
  BY <1>13, <1>14
<1>16. CountersMatch'
  BY <1>2, <1>15, CountersMean, Zenon DEF counts
<1>17. Conserved'
  <2>1. allocedSize(blk) + freeSize(blk) + HEAD * blockNum(blk) = HEAP_SIZE
    BY <1>13, CountsAre, ConservedIs DEF HeapOK, all_bytes
  <2>2. allocedSize(g) + freeSize(g) + HEAD * blockNum(g) = HEAP_SIZE
    BY <1>11, <1>12, <2>1, HeapConstants
  <2> QED
    BY <1>13, <1>15, <2>2, CountsAre, ConservedIs DEF all_bytes
<1>18. FreeBlocksMerged'
  <2>0. \A a \in DOMAIN blk : OneInUse(blk, a)
    BY MergedMeans DEF HeapOK, Blocks
  <2>1. ASSUME NEW a \in DOMAIN g PROVE OneInUse(g, a)
    <3>1. CASE a = p
      BY <1>1, <1>8, <3>1 DEF OneInUse
    <3>2. CASE a = q
      <4>1. g[q].next = x /\ OneInUse(blk, p) /\ ~ blk[p].is_alloced /\ blk[p].next = x
        BY <1>1, <1>6, <1>8, <2>0 DEF x
      <4>2. x # NoBlock => x \in DOMAIN blk /\ x \in DOMAIN c \ {p} /\ blk[x].is_alloced
        BY <1>1, <1>4, <1>5, <1>6, <4>1 DEF OneInUse
      <4>3. x # NoBlock => g[x].is_alloced
        BY <1>6, <1>8, <4>2
      <4> HIDE DEF q
      <4> QED
        BY <3>2, <4>1, <4>3 DEF OneInUse
    <3>3. CASE a # p /\ a # q
      <4>1. a \in DOMAIN blk /\ OneInUse(blk, a) /\ g[a].next = blk[a].next
            /\ (g[a].is_alloced <=> blk[a].is_alloced)
        BY <1>6, <1>8, <2>0, <3>3
      <4>2. ASSUME NEW b \in DOMAIN blk, blk[b].is_alloced PROVE g[b].is_alloced
        BY <1>1, <1>6, <1>8, <4>2
      <4> QED
        BY <1>5, <4>1, <4>2 DEF OneInUse
    <3> QED
      BY <3>1, <3>2, <3>3
  <2> QED
    BY <1>2, <2>1, MergedMeansNext
<1>19. HeapOK'
  BY <1>2, <1>7, <1>16, <1>17, <1>18 DEF HeapOK
<1>20. Taken(p, n)
  <2>1. \A a \in allocedIn(blk) : blk'[a].size = blk[a].size
    BY <1>1, <1>2, <1>6, <1>8 DEF allocedIn
  <2>2. blk'[p].size = n /\ p \notin allocedIn(blk) /\ allocedIn(blk') = allocedIn(blk) \cup {p}
    BY <1>1, <1>2, <1>6, <1>8, <1>9, <1>10
  <2> QED
    BY <2>1, <2>2 DEF Taken
<1> QED
  BY <1>19, <1>20

\* What malloc does to the heap when a block fits.
LEMMA TakeKeeps ==
  ASSUME HeapOK, NEW n \in Nat, Fits(n) # {}, take_block(first_fit(n), aligned(n))
  PROVE  HeapOK' /\ Taken(first_fit(n), aligned(n))
<1> DEFINE p == first_fit(n)
           m == aligned(n)
<1>1. /\ p \in Blocks /\ ~ blk[p].is_alloced /\ m <= blk[p].size
      /\ m \in Nat /\ m \in Aligned
  BY FirstFit, AlignedUp DEF HeapOK
<1>2. take_block(p, m)
  OBVIOUS
<1> HIDE DEF p, m
<1>3. ASSUME splits(p, m) PROVE HeapOK' /\ Taken(p, m)
  <2>1. blk' = split(p, m) /\ info' = part(info, m)
    BY <1>2, <1>3 DEF take_block, part
  <2> QED
    BY <1>1, <1>3, <2>1, TakePartKeeps
<1>4. ASSUME ~ splits(p, m) PROVE HeapOK' /\ Taken(p, m)
  <2>1. blk' = marked(blk, p, TRUE) /\ info' = whole(info, blk[p].size)
    BY <1>2, <1>4 DEF take_block, marked, whole
  <2> QED
    BY <1>1, <2>1, TakeWholeKeeps
<1> QED
  BY <1>3, <1>4 DEF p, m

\* The chain g has m blocks less than f, and the same ones in use.
Joined(f, g, m) ==
  /\ Chain(g) /\ allocedIn(g) = allocedIn(f)
  /\ \A a \in allocedIn(f) : g[a].size = f[a].size
  /\ blockNum(f) = blockNum(g) + m
  /\ allocedNum(g) = allocedNum(f) /\ allocedSize(g) = allocedSize(f)
  /\ freeNum(f) = freeNum(g) + m
  /\ freeSize(g) = freeSize(f) + m * HEAD

\* Two free neighbours become one; E are the blocks that have a free neighbour.
LEMMA JoinOne ==
  ASSUME NEW f, Chain(f), NEW p \in DOMAIN f, f[p].next # NoBlock,
         ~ f[p].is_alloced, ~ f[f[p].next].is_alloced,
         NEW E, \A a \in DOMAIN f \ E : OneInUse(f, a), f[p].next \notin E
  PROVE  LET g == merged(f, p)
         IN  /\ Joined(f, g, 1) /\ p \in DOMAIN g /\ DOMAIN g = DOMAIN f \ {f[p].next}
             /\ \A a \in DOMAIN g \ (E \ {p}) : OneInUse(g, a)
             /\ \A a \in DOMAIN g : g[a].is_alloced = f[a].is_alloced
             /\ \A a \in DOMAIN g \ {p} : g[a].next = f[a].next
<1> DEFINE g == merged(f, p)
           q == f[p].next
<1>1. /\ Chain(g) /\ q \in DOMAIN f /\ p \in DOMAIN g
      /\ DOMAIN g = DOMAIN f \ {q}
      /\ \A a \in DOMAIN g : g[a].is_alloced = f[a].is_alloced
      /\ \A a \in DOMAIN g \ {p} : g[a].next = f[a].next /\ g[a].size = f[a].size
      /\ \A a \in DOMAIN g \ {p} : OneInUse(f, a) => OneInUse(g, a)
      /\ OneInUse(f, q) => OneInUse(g, p)
      /\ allocedIn(g) = allocedIn(f)
      /\ blockNum(f) = blockNum(g) + 1
      /\ allocedNum(g) = allocedNum(f)
      /\ allocedSize(g) = allocedSize(f)
      /\ freeNum(f) = freeNum(g) + 1
      /\ freeSize(g) = freeSize(f) + HEAD
  BY MergeSays
<1>2. ~ f[q].is_alloced /\ q \notin E
  OBVIOUS
<1> HIDE DEF g, q
<1>3. \A a \in allocedIn(f) : g[a].size = f[a].size
  BY <1>1, <1>2 DEF allocedIn
<1>4. \A a \in DOMAIN g \ (E \ {p}) : OneInUse(g, a)
  BY <1>1, <1>2
<1>5. Joined(f, g, 1)
  BY <1>1, <1>3, HeapConstants DEF Joined
<1> QED
  BY <1>1, <1>4, <1>5 DEF g, q

\* Two merges in a row.
LEMMA JoinedTwice ==
  ASSUME NEW f, NEW g, NEW h, Chain(f), Joined(f, g, 1), Joined(g, h, 1)
  PROVE  Joined(f, h, 2)
<1>1. /\ blockNum(f) \in Nat /\ freeNum(f) \in Nat /\ freeSize(f) \in Nat
      /\ blockNum(g) \in Nat /\ freeNum(g) \in Nat /\ freeSize(g) \in Nat
      /\ blockNum(h) \in Nat /\ freeNum(h) \in Nat /\ freeSize(h) \in Nat
  BY CountsTyped DEF Joined, Chain
<1> QED
  BY <1>1, HeapConstants DEF Joined

\* What freeing the block p does to the chain, m of its neighbours being free.
Freed(p, g, m) ==
  /\ Chain(g) /\ \A a \in DOMAIN g : OneInUse(g, a)
  /\ allocedIn(g) = allocedIn(blk) \ {p}
  /\ \A a \in allocedIn(g) : g[a].size = blk[a].size
  /\ blockNum(blk) = blockNum(g) + m
  /\ allocedNum(blk) = allocedNum(g) + 1
  /\ allocedSize(blk) = allocedSize(g) + blk[p].size
  /\ freeNum(blk) + 1 = freeNum(g) + m
  /\ freeSize(g) = freeSize(blk) + blk[p].size + m * HEAD

\* The four cases of free: no neighbour is free, the one before, the one behind, or
\* both.
LEMMA FreedJoins ==
  ASSUME HeapOK, NEW p \in Blocks, blk[p].is_alloced
  PROVE  Freed(p, freed(p), Cardinality({a \in {blk[p].prev, blk[p].next} : CAN_MERGE(a)}))
<1> DEFINE b == FALSE
           u == marked(blk, p, b)
           r == blk[p].prev
           n == blk[p].next
           P == CAN_MERGE(r)
           N == CAN_MERGE(n)
           m == Cardinality({a \in {r, n} : CAN_MERGE(a)})
<1>1. /\ Chain(blk) /\ blk \in [DOMAIN blk -> BLOCK_HEAD] /\ p \in DOMAIN blk
      /\ b \in BOOLEAN /\ b = FALSE
      /\ \A a \in DOMAIN blk : OneInUse(blk, a)
  BY MergedMeans DEF HeapOK, Chain, Heads, Blocks
<1>2. /\ ~ P /\ ~ N => freed(p) = u
      /\ P /\ ~ N => freed(p) = merged(u, r)
      /\ ~ P /\ N => freed(p) = merged(u, p)
      /\ P /\ N => freed(p) = merged(merged(u, p), r)
  BY <1>1, FreedIs
<1>3. /\ p \in Nat /\ p # NoBlock
      /\ \A a \in DOMAIN blk : \/ blk[a].next = NoBlock
                               \/ /\ blk[a].next \in DOMAIN blk
                                  /\ blk[blk[a].next].prev = a
      /\ r # NoBlock => r \in DOMAIN blk /\ blk[r].next = p
      /\ blk[p].size \in Nat
  <2>1. /\ blk[0].prev = NoBlock /\ p \in Nat /\ blk[p].size \in Nat
        /\ \A a \in DOMAIN blk : /\ a \in Nat
                                 /\ \/ blk[a].next = NoBlock /\ End(blk, a) = HEAP_SIZE
                                    \/ /\ blk[a].next = End(blk, a)
                                       /\ End(blk, a) \in DOMAIN blk
                                       /\ blk[End(blk, a)].prev = a
        /\ p # 0 => r \in DOMAIN blk /\ blk[r].next = p
    BY <1>1, ChainSays
  <2>2. p # NoBlock
    BY <2>1, HeapConstants
  <2> HIDE DEF r
  <2>3. r # NoBlock => r \in DOMAIN blk /\ blk[r].next = p
    BY <2>1 DEF r
  <2> QED
    BY <2>1, <2>2, <2>3
<1>n. n # NoBlock => n \in DOMAIN blk /\ n # r /\ n # p
  <2>1. n # NoBlock => n = End(blk, p) /\ n \in DOMAIN blk /\ p < n /\ n \in Nat
    BY <1>1, ChainSays
  <2>2. r \in DOMAIN blk => r < p /\ r \in Nat
    <3>1. ASSUME r \in DOMAIN blk PROVE r < p /\ r \in Nat
      <4>1. r # NoBlock
        BY <1>1, <3>1, ChainSays, HeapConstants
      <4>2. blk[r].next = p /\ r < End(blk, r) /\ r \in Nat
            /\ (blk[r].next = NoBlock \/ blk[r].next = End(blk, r))
        BY <1>1, <1>3, <3>1, <4>1, ChainSays
      <4> QED
        BY <1>3, <4>2
    <3> QED
      BY <3>1
  <2> QED
    BY <1>3, <2>1, <2>2
<1> HIDE DEF b
<1>4. Chain(u)
  BY <1>1, MarkKeeps
<1>5. /\ DOMAIN u = DOMAIN blk
      /\ \A a \in DOMAIN blk : u[a].next = blk[a].next /\ u[a].size = blk[a].size
      /\ u[p].is_alloced = FALSE
      /\ \A a \in DOMAIN blk \ {p} : u[a] = blk[a]
  <2>1. p \in DOMAIN blk /\ b \in BOOLEAN /\ blk \in [DOMAIN blk -> BLOCK_HEAD]
    BY <1>1
  <2>2. /\ DOMAIN u = DOMAIN blk
        /\ \A a \in DOMAIN blk : /\ u[a].prev = blk[a].prev
                                 /\ u[a].next = blk[a].next
                                 /\ u[a].size = blk[a].size
        /\ u[p].is_alloced = b
        /\ \A a \in DOMAIN blk \ {p} : u[a] = blk[a]
    BY ONLY <2>1, MarkedIs
  <2> HIDE DEF u
  <2> QED
    BY ONLY <1>1, <2>2
<1> HIDE DEF u
<1>6. /\ allocedIn(blk) = allocedIn(u) \cup {p} /\ p \notin allocedIn(u)
      /\ blockNum(blk) = blockNum(u)
      /\ allocedNum(blk) = allocedNum(u) + 1
      /\ allocedSize(blk) = allocedSize(u) + blk[p].size
      /\ freeNum(u) = freeNum(blk) + 1
      /\ freeSize(u) = freeSize(blk) + blk[p].size
  <2>1. /\ Heads(u) /\ Heads(blk) /\ DOMAIN blk = DOMAIN u /\ p \in DOMAIN u
        /\ \A a \in DOMAIN u : blk[a].size = u[a].size
        /\ ~ u[p].is_alloced /\ blk[p].is_alloced
        /\ \A a \in DOMAIN u \ {p} : blk[a].is_alloced <=> u[a].is_alloced
        /\ u[p].size = blk[p].size
    BY <1>1, <1>4, <1>5 DEF Chain
  <2>2. /\ allocedIn(blk) = allocedIn(u) \cup {p} /\ p \notin allocedIn(u)
        /\ blockNum(blk) = blockNum(u)
        /\ allocedNum(blk) = allocedNum(u) + 1
        /\ allocedSize(blk) = allocedSize(u) + u[p].size
        /\ freeNum(u) = freeNum(blk) + 1
        /\ freeSize(u) = freeSize(blk) + u[p].size
    BY <2>1, MarkCounts
  <2> QED
    BY <2>1, <2>2
<1>7. ASSUME NEW g, NEW o \in {0, 1, 2}, Joined(u, g, o), \A a \in DOMAIN g : OneInUse(g, a)
      PROVE  Freed(p, g, o)
  <2>1. /\ blockNum(u) \in Nat /\ allocedNum(u) \in Nat /\ freeNum(u) \in Nat
        /\ allocedSize(u) \in Nat /\ freeSize(u) \in Nat
        /\ blockNum(blk) \in Nat /\ allocedNum(blk) \in Nat /\ freeNum(blk) \in Nat
        /\ allocedSize(blk) \in Nat /\ freeSize(blk) \in Nat
        /\ blockNum(g) \in Nat /\ allocedNum(g) \in Nat /\ freeNum(g) \in Nat
        /\ allocedSize(g) \in Nat /\ freeSize(g) \in Nat
    BY <1>1, <1>4, <1>7, CountsTyped DEF Joined, Chain
  <2>2. /\ blockNum(blk) = blockNum(g) + o
        /\ allocedNum(blk) = allocedNum(g) + 1
        /\ allocedSize(blk) = allocedSize(g) + blk[p].size
        /\ freeNum(blk) + 1 = freeNum(g) + o
        /\ freeSize(g) = freeSize(blk) + blk[p].size + o * HEAD
    BY <1>6, <1>7, <2>1, HeapConstants DEF Joined
  <2>3. allocedIn(g) = allocedIn(blk) \ {p}
    BY <1>6, <1>7 DEF Joined
  <2>4. \A a \in allocedIn(g) : g[a].size = blk[a].size
    <3>1. \A a \in allocedIn(g) : a \in allocedIn(u) /\ a \in DOMAIN blk
      BY <1>5, <1>7 DEF Joined, allocedIn
    <3> QED
      BY <1>5, <1>7, <3>1 DEF Joined
  <2>5. Chain(g)
    BY <1>7 DEF Joined
  <2> QED
    BY <1>7, <2>2, <2>3, <2>4, <2>5 DEF Freed
<1>8. /\ ~ P /\ ~ N => m = 0
      /\ P /\ ~ N => m = 1
      /\ ~ P /\ N => m = 1
      /\ P /\ N => m = 2
  <2> DEFINE S == {a \in {r, n} : CAN_MERGE(a)}
  <2>1. /\ ~ P /\ ~ N => S = {}
        /\ P /\ ~ N => S = {r}
        /\ ~ P /\ N => S = {n}
        /\ P /\ N => S = {r} \cup {n} /\ r # n
    BY <1>n DEF CAN_MERGE
  <2>2. /\ Cardinality({}) = 0 /\ Cardinality({r}) = 1 /\ Cardinality({n}) = 1
        /\ r # n => Cardinality({r} \cup {n}) = 2
    <3>1. Cardinality({}) = 0 /\ Cardinality({r}) = 1 /\ Cardinality({n}) = 1 /\ IsFiniteSet({r})
      BY FS_EmptySet, FS_Singleton
    <3>2. ASSUME r # n PROVE Cardinality({r} \cup {n}) = 2
      <4>1. n \notin {r}
        BY <3>2
      <4>2. Cardinality({r} \cup {n}) = Cardinality({r}) + 1
        BY <3>1, <4>1, FS_AddElement
      <4> QED
        BY <3>1, <4>2
    <3> QED
      BY <3>1, <3>2
  <2>3. m = Cardinality(S)
    OBVIOUS
  <2> HIDE DEF S, P, N, r, n, m
  <2>4. ASSUME ~ P, ~ N PROVE m = 0
    BY <2>1, <2>2, <2>3, <2>4, Zenon
  <2>5. ASSUME P, ~ N PROVE m = 1
    BY <2>1, <2>2, <2>3, <2>5, Zenon
  <2>6. ASSUME ~ P, N PROVE m = 1
    BY <2>1, <2>2, <2>3, <2>6, Zenon
  <2>7. ASSUME P, N PROVE m = 2
    BY <2>1, <2>2, <2>3, <2>7, Zenon
  <2> QED
    BY <2>4, <2>5, <2>6, <2>7
<1> DEFINE E == (IF P THEN {r} ELSE {}) \cup (IF N THEN {p} ELSE {})
<1>9. /\ P => r \in DOMAIN blk /\ r # NoBlock /\ ~ blk[r].is_alloced /\ blk[r].next = p
              /\ r # p /\ r # n
      /\ N => n \in DOMAIN blk /\ n # NoBlock /\ ~ blk[n].is_alloced /\ n # p
  <2>1. P => r # NoBlock /\ ~ blk[r].is_alloced
    BY DEF CAN_MERGE
  <2>2. N => n # NoBlock /\ ~ blk[n].is_alloced
    BY DEF CAN_MERGE
  <2> HIDE DEF P, N
  <2> QED
    BY <1>3, <1>n, <2>1, <2>2
<1>10. \A a \in DOMAIN u \ E : OneInUse(u, a)
  <2>1. SUFFICES ASSUME NEW a \in DOMAIN u, a \notin E, u[a].next # NoBlock
                 PROVE  u[a].is_alloced \/ u[u[a].next].is_alloced
    BY DEF OneInUse
  <2>2. /\ a \in DOMAIN blk /\ blk[a].next = u[a].next /\ blk[a].next \in DOMAIN blk
        /\ blk[blk[a].next].prev = a
        /\ blk[a].is_alloced \/ blk[blk[a].next].is_alloced
    BY <1>1, <1>3, <1>5, <2>1 DEF OneInUse
  <2>3. CASE a = p
    <3>1. ~ N /\ n # NoBlock /\ blk[n].is_alloced /\ n # p
      BY <1>n, <2>1, <2>2, <2>3 DEF CAN_MERGE
    <3> QED
      BY <1>5, <2>2, <2>3, <3>1
  <2>4. CASE a # p /\ blk[a].next = p
    <3>1. a = r /\ ~ P /\ a # NoBlock
      BY <1>1, <2>1, <2>2, <2>4, ChainSays, HeapConstants
    <3>2. blk[a].is_alloced
      BY <3>1 DEF CAN_MERGE
    <3> QED
      BY <1>5, <2>2, <2>4, <3>2
  <2>5. CASE a # p /\ blk[a].next # p
    BY <1>5, <2>2, <2>5
  <2> QED
    BY <2>3, <2>4, <2>5
<1> HIDE DEF r, n, P, N, m
<1>11. ASSUME ~ P, ~ N PROVE Freed(p, freed(p), m)
  <2>1. Joined(u, u, 0)
    <3>1. blockNum(u) \in Nat /\ freeNum(u) \in Nat /\ freeSize(u) \in Nat
      BY <1>4, CountsTyped DEF Chain
    <3> QED
      BY <1>4, <3>1, HeapConstants DEF Joined
  <2>2. \A a \in DOMAIN u : OneInUse(u, a)
    BY <1>10, <1>11
  <2> QED
    BY <1>2, <1>7, <1>8, <1>11, <2>1, <2>2
<1>12. ASSUME P, ~ N PROVE Freed(p, freed(p), m)
  <2>1. /\ r \in DOMAIN u /\ u[r].next = p /\ u[r].next # NoBlock
        /\ ~ u[r].is_alloced /\ ~ u[u[r].next].is_alloced /\ p \notin {r}
    BY <1>3, <1>5, <1>9, <1>12
  <2>2. \A a \in DOMAIN u \ {r} : OneInUse(u, a)
    BY <1>10, <1>12
  <2> DEFINE g == merged(u, r)
             e == {r}
  <2>3. e \ {r} = {} /\ u[r].next \notin e /\ \A a \in DOMAIN u \ e : OneInUse(u, a)
    BY <2>1, <2>2
  <2> HIDE DEF e
  <2>4. /\ Joined(u, g, 1)
        /\ \A a \in DOMAIN g \ (e \ {r}) : OneInUse(g, a)
    BY <1>4, <2>1, <2>3, JoinOne
  <2> HIDE DEF g
  <2>5. \A a \in DOMAIN g : OneInUse(g, a)
    BY <2>3, <2>4
  <2>6. Freed(p, g, 1)
    BY <1>7, <2>4, <2>5
  <2> QED
    BY <1>2, <1>8, <1>12, <2>6 DEF g
<1>13. ASSUME ~ P, N PROVE Freed(p, freed(p), m)
  <2>1. /\ p \in DOMAIN u /\ u[p].next = n /\ u[p].next # NoBlock
        /\ ~ u[p].is_alloced /\ ~ u[u[p].next].is_alloced /\ n \notin {p}
    BY <1>1, <1>5, <1>9, <1>13 DEF n
  <2>2. \A a \in DOMAIN u \ {p} : OneInUse(u, a)
    BY <1>10, <1>13
  <2> DEFINE g == merged(u, p)
             e == {p}
  <2>3. e \ {p} = {} /\ u[p].next \notin e /\ \A a \in DOMAIN u \ e : OneInUse(u, a)
    BY <2>1, <2>2
  <2> HIDE DEF e
  <2>4. /\ Joined(u, g, 1)
        /\ \A a \in DOMAIN g \ (e \ {p}) : OneInUse(g, a)
    BY <1>4, <2>1, <2>3, JoinOne
  <2> HIDE DEF g
  <2>5. \A a \in DOMAIN g : OneInUse(g, a)
    BY <2>3, <2>4
  <2>6. Freed(p, g, 1)
    BY <1>7, <2>4, <2>5
  <2> QED
    BY <1>2, <1>8, <1>13, <2>6 DEF g
<1>14. ASSUME P, N PROVE Freed(p, freed(p), m)
  <2>1. /\ p \in DOMAIN u /\ u[p].next = n /\ u[p].next # NoBlock
        /\ ~ u[p].is_alloced /\ ~ u[u[p].next].is_alloced /\ n \notin {p, r}
    BY <1>1, <1>5, <1>9, <1>14 DEF n
  <2>2. \A a \in DOMAIN u \ {p, r} : OneInUse(u, a)
    BY <1>10, <1>14
  <2> DEFINE v == merged(u, p)
             e == {p, r}
  <2>3. e \ {p} = {r} /\ u[p].next \notin e /\ \A a \in DOMAIN u \ e : OneInUse(u, a)
    BY <1>9, <1>14, <2>1, <2>2
  <2> HIDE DEF e
  <2>4. /\ Joined(u, v, 1) /\ p \in DOMAIN v /\ DOMAIN v = DOMAIN u \ {u[p].next}
        /\ \A a \in DOMAIN v \ (e \ {p}) : OneInUse(v, a)
        /\ \A a \in DOMAIN v : v[a].is_alloced = u[a].is_alloced
        /\ \A a \in DOMAIN v \ {p} : v[a].next = u[a].next
    BY <1>4, <2>1, <2>3, JoinOne
  <2> DEFINE g == merged(v, r)
             j == {r}
  <2> HIDE DEF v
  <2>5. /\ r \in DOMAIN v /\ v[r].next = p /\ v[r].next # NoBlock
        /\ ~ v[r].is_alloced /\ ~ v[v[r].next].is_alloced /\ p \notin j /\ j \ {r} = {}
        /\ Chain(v)
        /\ \A a \in DOMAIN v \ j : OneInUse(v, a)
    <3>1. r \in DOMAIN v /\ r # p
      BY <1>5, <1>9, <1>14, <2>1, <2>4
    <3>2. v[r].next = p /\ ~ v[r].is_alloced /\ ~ v[p].is_alloced
      BY <1>1, <1>5, <1>9, <1>14, <2>4, <3>1
    <3>3. \A a \in DOMAIN v \ j : OneInUse(v, a)
      BY <2>3, <2>4
    <3>4. Chain(v)
      BY <2>4 DEF Joined
    <3> QED
      BY <1>3, <3>1, <3>2, <3>3, <3>4
  <2> HIDE DEF j
  <2>6. /\ Joined(v, g, 1)
        /\ \A a \in DOMAIN g \ (j \ {r}) : OneInUse(g, a)
    BY <2>5, JoinOne
  <2> HIDE DEF g
  <2>7. \A a \in DOMAIN g : OneInUse(g, a)
    BY <2>5, <2>6
  <2>8. Joined(u, g, 2)
    BY <1>4, <2>4, <2>6, JoinedTwice
  <2>9. Freed(p, g, 2)
    BY <1>7, <2>7, <2>8
  <2> QED
    BY <1>2, <1>8, <1>14, <2>9 DEF g, v
<1> QED
  BY <1>11, <1>12, <1>13, <1>14 DEF m, r, n

\* The counters after the block p was freed.
LEMMA BackCounts ==
  ASSUME HeapOK, NEW p \in Blocks, NEW g, NEW m \in {0, 1, 2}, Freed(p, g, m)
  PROVE  /\ back(info, blk[p].size, m) = counts(g)
         /\ all_bytes(counts(g)) = HEAP_SIZE
<1>1. info = counts(blk) /\ Heads(blk) /\ Heads(g)
  BY CountersMean DEF HeapOK, counts, Chain, Freed
<1> DEFINE i == counts(blk)
           s == blk[p].size
<1>2. /\ i \in INFO /\ s \in Nat
      /\ i.block_num = blockNum(blk) /\ i.alloced_num = allocedNum(blk)
      /\ i.alloced_size = allocedSize(blk)
      /\ i.free_num = freeNum(blk) /\ i.free_size = freeSize(blk)
  BY <1>1, CountsAre DEF Heads, BLOCK_HEAD, Blocks
<1>3. /\ blockNum(blk) \in Nat /\ allocedNum(blk) \in Nat /\ freeNum(blk) \in Nat
      /\ allocedSize(blk) \in Nat /\ freeSize(blk) \in Nat
      /\ blockNum(g) \in Nat /\ allocedNum(g) \in Nat /\ freeNum(g) \in Nat
      /\ allocedSize(g) \in Nat /\ freeSize(g) \in Nat
      /\ blockNum(blk) = allocedNum(blk) + freeNum(blk)
  BY <1>1, CountsTyped
<1>4. allocedSize(blk) + freeSize(blk) + HEAD * blockNum(blk) = HEAP_SIZE
  BY <1>1, CountsAre, ConservedIs DEF HeapOK, all_bytes
<1>5. /\ blockNum(blk) = blockNum(g) + m
      /\ allocedNum(blk) = allocedNum(g) + 1
      /\ allocedSize(blk) = allocedSize(g) + s
      /\ freeNum(blk) + 1 = freeNum(g) + m
      /\ freeSize(g) = freeSize(blk) + s + m * HEAD
  BY DEF Freed
<1> HIDE DEF i, s
<1>6. blockNum(blk) <= HEAD * blockNum(blk) /\ HEAD * blockNum(blk) \in Nat
  <2>1. (HEAD - 1) * blockNum(blk) \in Nat
    <3>1. HEAD - 1 \in Nat
      BY HeapConstants
    <3> QED
      BY <1>3, <3>1
  <2>2. HEAD * blockNum(blk) = (HEAD - 1) * blockNum(blk) + blockNum(blk)
    BY <1>3, HeapConstants
  <2> QED
    BY <1>3, <2>1, <2>2
<1>7. allocedNum(g) < WORD /\ allocedSize(g) < WORD
  BY <1>2, <1>3, <1>4, <1>5, <1>6, HeapConstants
<1>8. \A x \in Nat : x < WORD => x % WORD = x
  BY HeapConstants
<1>9. back(i, s, m) = five(i.block_num - m, (i.alloced_num - 1) % WORD,
                           (i.alloced_size - s) % WORD, i.free_num + 1 - m,
                           i.free_size + s + m * HEAD)
  <2>1. i \in INFO /\ s \in Int /\ m \in Int
    BY <1>2
  <2> QED
    BY ONLY <2>1, BackIs
<1>10. /\ i.block_num - m = blockNum(g)
       /\ i.alloced_num - 1 = allocedNum(g)
       /\ i.alloced_size - s = allocedSize(g)
       /\ i.free_num + 1 - m = freeNum(g)
       /\ i.free_size + s + m * HEAD = freeSize(g)
  BY <1>2, <1>3, <1>5, HeapConstants
<1>11. (i.alloced_num - 1) % WORD = allocedNum(g) /\ (i.alloced_size - s) % WORD = allocedSize(g)
  BY <1>3, <1>7, <1>8, <1>10
<1>12. back(i, s, m) = counts(g)
  BY <1>9, <1>10, <1>11, Zenon DEF counts
<1>13. allocedSize(g) + freeSize(g) + HEAD * blockNum(g) = HEAP_SIZE
  <2>1. m = 0 \/ m = 1 \/ m = 2
    OBVIOUS
  <2> QED
    BY <1>2, <1>3, <1>4, <1>5, <2>1, HeapConstants
<1>14. all_bytes(counts(g)) = HEAP_SIZE
  BY <1>1, <1>13, CountsAre DEF all_bytes
<1> QED
  BY <1>1, <1>12, <1>14 DEF i, s

\* What giving back the block p changes.
Given(p) ==
  /\ allocedIn(blk') = allocedIn(blk) \ {p}
  /\ \A a \in allocedIn(blk') : blk'[a].size = blk[a].size

\* What free does to the heap when the address is that of a block in use.
LEMMA FreeKeeps ==
  ASSUME HeapOK, NEW p \in allocedIn(blk), blk' = freed(p), info' = counted(p)
  PROVE  HeapOK' /\ Given(p)
<1> DEFINE m == Cardinality({a \in {blk[p].prev, blk[p].next} : CAN_MERGE(a)})
           g == freed(p)
<1>1. p \in Blocks /\ blk[p].is_alloced
  BY DEF allocedIn, Blocks
<1>2. Freed(p, g, m)
  BY <1>1, FreedJoins
<1>3. info' = back(info, blk[p].size, m) /\ blk' = g
  BY Zenon DEF counted, back
<1>4. m \in {0, 1, 2}
  <2> DEFINE S == {a \in {blk[p].prev, blk[p].next} : CAN_MERGE(a)}
             r == blk[p].prev
             n == blk[p].next
  <2>1. S = {} \/ S = {r} \/ S = {n} \/ (S = {r} \cup {n} /\ r # n)
    BY DEF CAN_MERGE
  <2>2. /\ Cardinality({}) = 0 /\ Cardinality({r}) = 1 /\ Cardinality({n}) = 1
        /\ r # n => Cardinality({r} \cup {n}) = 2
    <3> HIDE DEF r, n
    <3>1. Cardinality({}) = 0 /\ Cardinality({r}) = 1 /\ Cardinality({n}) = 1 /\ IsFiniteSet({r})
      BY FS_EmptySet, FS_Singleton
    <3>2. ASSUME r # n PROVE Cardinality({r} \cup {n}) = 2
      <4>1. n \notin {r}
        BY <3>2
      <4>2. Cardinality({r} \cup {n}) = Cardinality({r}) + 1
        BY <3>1, <4>1, FS_AddElement
      <4> QED
        BY <3>1, <4>2
    <3> QED
      BY <3>1, <3>2
  <2>3. m = Cardinality(S)
    OBVIOUS
  <2> HIDE DEF S, r, n, m
  <2>4. m = 0 \/ m = 1 \/ m = 2
    BY <2>1, <2>2, <2>3, Zenon
  <2> QED
    BY <2>4
<1> HIDE DEF m, g
<1>5. back(info, blk[p].size, m) = counts(g) /\ all_bytes(counts(g)) = HEAP_SIZE
  BY <1>1, <1>2, <1>4, BackCounts
<1>6. CountersMatch'
  BY <1>3, <1>5, CountersMean, Zenon DEF counts
<1>7. Conserved'
  BY <1>3, <1>5, ConservedIs
<1>8. FreeBlocksMerged'
  BY <1>2, <1>3, MergedMeansNext DEF Freed
<1>9. Chain(blk')
  BY <1>2, <1>3 DEF Freed
<1>10. HeapOK'
  BY <1>6, <1>7, <1>8, <1>9 DEF HeapOK
<1>11. Given(p)
  BY <1>2, <1>3 DEF Freed, Given
<1> QED
  BY <1>10, <1>11

\* What the tasks hold, and what their calls have still to do.
UseTyped ==
  /\ held \subseteq [ptr : Int, n : Requests]
  /\ call \in [HeapTask -> [op : {"none", "realloc", "FOREVER"}, old : Int, n : Nat]]

\* No block is used twice.
UsedOnce ==
  /\ \A h, g \in held : h.ptr = g.ptr => h = g
  /\ \A t \in HeapTask : call[t].op = "realloc" => \A h \in held : h.ptr # call[t].old
  /\ \A t, u \in HeapTask : /\ call[t].op = "realloc" /\ call[u].op = "realloc"
                            /\ call[t].old = call[u].old
                            => t = u

\* What is in use is what is allocated.
UsedIsAlloced ==
  /\ \A p \in allocedIn(blk) : p + HEAD \in InUse
  /\ \A x \in InUse : x - HEAD \in allocedIn(blk)

\* Requests that aligned does not round to 0.
NoWrap == \A n \in Requests : n + HEAP_ALIGN <= WORD

Enough == \A h \in held : blk[h.ptr - HEAD].size >= h.n

HeapInv ==
  HeapOK /\ UseTyped /\ UsedOnce /\ UsedIsAlloced /\ (NoWrap => Enough)

\* Who uses an address.
LEMMA InUseIs ==
  \A x : x \in InUse <=> \/ \E h \in held : h.ptr = x
                         \/ \E t \in HeapTask : call[t].op = "realloc" /\ call[t].old = x
  BY DEF InUse

\* Who uses it after a step.
LEMMA InUseIsNext ==
  \A x : x \in InUse' <=> \/ \E h \in held' : h.ptr = x
                          \/ \E t \in HeapTask : call'[t].op = "realloc" /\ call'[t].old = x
  BY DEF InUse

\* What malloc returned for an allocated block passes the range check of free.
LEMMA AllocedTyped ==
  ASSUME HeapOK
  PROVE  /\ allocedIn(blk) \subseteq Blocks /\ allocedIn(blk) \subseteq Nat
         /\ \A p \in allocedIn(blk) : p + HEAD \in 0 .. HEAP_SIZE - 1 /\ blk[p].size \in Nat
<1>1. Chain(blk)
  BY DEF HeapOK
<1>2. ASSUME NEW p \in allocedIn(blk)
      PROVE  /\ p \in Blocks /\ p \in Nat /\ p + HEAD \in 0 .. HEAP_SIZE - 1
             /\ blk[p].size \in Nat
  <2>1. p \in DOMAIN blk
    BY DEF allocedIn
  <2>2. /\ p \in Nat /\ blk[p].size \in Nat /\ DOMAIN blk \subseteq 0 .. HEAP_SIZE - 1
        /\ blk[p].next = NoBlock => blk[p].size > 0
        /\ End(blk, p) = p + HEAD + blk[p].size
        /\ \/ blk[p].next = NoBlock /\ End(blk, p) = HEAP_SIZE
           \/ blk[p].next = End(blk, p) /\ End(blk, p) \in DOMAIN blk
    BY <1>1, <2>1, ChainSays
  <2>3. p + HEAD \in 0 .. HEAP_SIZE - 1
    BY <2>2, HeapConstants
  <2> QED
    BY <2>1, <2>2, <2>3 DEF Blocks
<1> QED
  BY <1>2

-----------------------------------------------------------------------------

\* A task that gets the block p keeps what the others hold.
LEMMA HeldMore ==
  ASSUME HeapInv, NEW n \in Requests, NEW p \in Blocks, Taken(p, aligned(n)), HeapOK',
         NEW t \in HeapTask, call[t] = NoCall, NEW S,
         \/ S = {} /\ call' = call
         \/ \E h \in held : /\ S = {h}
                            /\ call' = [call EXCEPT ![t] = [op |-> "realloc", old |-> h.ptr,
                                                            n |-> n]],
         held' = (held \ S) \cup {[ptr |-> p + HEAD, n |-> n]}
  PROVE  HeapInv'
<1> DEFINE new == [ptr |-> p + HEAD, n |-> n]
<1>1. /\ allocedIn(blk) \subseteq Nat /\ allocedIn(blk') \subseteq Nat /\ p \in Nat /\ p \in Int
      /\ HEAD \in Nat /\ n \in Nat
  <2>1. \A x \in allocedIn(blk') : x \in Nat
    BY ChainSays DEF HeapOK, allocedIn
  <2>2. p \in Nat
    BY <2>1 DEF Taken
  <2>3. \A x \in allocedIn(blk) : x \in Nat
    BY AllocedTyped DEF HeapInv
  <2> QED
    BY <2>1, <2>2, <2>3, HeapConstants, MemHAssumption
<1>2. /\ p \notin allocedIn(blk)
      /\ allocedIn(blk') = allocedIn(blk) \cup {p}
      /\ aligned(n) <= blk'[p].size
      /\ \A a \in allocedIn(blk) : blk'[a].size = blk[a].size
  BY DEF Taken
<1>3. /\ new \in [ptr : Int, n : Requests] /\ new.ptr = p + HEAD /\ new.n = n
  BY <1>1
<1> HIDE DEF new
<1>4. p + HEAD \notin InUse /\ \A x \in InUse : x \in Int
  <2>1. \A x \in InUse : x \in Int
    BY InUseIs DEF HeapInv, UseTyped
  <2>2. \A x \in InUse : x - HEAD \in allocedIn(blk)
    BY DEF HeapInv, UsedIsAlloced
  <2>3. ASSUME p + HEAD \in InUse PROVE FALSE
    <3> DEFINE y == p + HEAD
    <3>1. y \in InUse /\ y - HEAD = p
      BY <1>1, <2>3
    <3> HIDE DEF y
    <3>2. y - HEAD \in allocedIn(blk)
      BY <2>2, <3>1
    <3> QED
      BY <1>2, <3>1, <3>2
  <2> QED
    BY <2>1, <2>3
<1>5. /\ \A h \in held : h.ptr \in InUse
      /\ \A u \in HeapTask : call[u].op = "realloc" => call[u].old \in InUse
  BY InUseIs
<1>6. /\ held \subseteq [ptr : Int, n : Requests]
      /\ call \in [HeapTask -> [op : {"none", "realloc", "FOREVER"}, old : Int, n : Nat]]
  BY DEF HeapInv, UseTyped
<1>7. /\ call[t].op # "realloc"
      /\ S \subseteq held
      /\ call' \in [HeapTask -> [op : {"none", "realloc", "FOREVER"}, old : Int, n : Nat]]
      /\ \A u \in HeapTask : u # t => call'[u] = call[u]
      /\ \/ S = {} /\ call'[t].op # "realloc"
         \/ \E h \in held : S = {h} /\ call'[t].op = "realloc" /\ call'[t].old = h.ptr
  <2>1. call[t].op # "realloc"
    BY DEF NoCall
  <2>2. CASE S = {} /\ call' = call
    BY <1>6, <2>1, <2>2
  <2>3. ASSUME NEW h \in held, S = {h},
               call' = [call EXCEPT ![t] = [op |-> "realloc", old |-> h.ptr, n |-> n]]
        PROVE  /\ call' \in [HeapTask -> [op : {"none", "realloc", "FOREVER"}, old : Int,
                                          n : Nat]]
               /\ \A u \in HeapTask : u # t => call'[u] = call[u]
               /\ call'[t].op = "realloc" /\ call'[t].old = h.ptr
    <3>1. h.ptr \in Int
      BY <1>6
    <3>2. [op |-> "realloc", old |-> h.ptr, n |-> n]
            \in [op : {"none", "realloc", "FOREVER"}, old : Int, n : Nat]
      BY <1>1, <3>1
    <3> QED
      BY <1>6, <2>3, <3>2
  <2> QED
    BY <2>1, <2>2, <2>3
<1>8. UseTyped'
  <2>1. held' = (held \ S) \cup {new}
    BY DEF new
  <2> QED
    BY <1>3, <1>6, <1>7, <2>1 DEF UseTyped
<1>9. held' = (held \ S) \cup {new}
  BY DEF new
<1>10. \A x : x \in InUse' <=> x \in InUse \/ x = p + HEAD
  <2>1. ASSUME NEW x \in InUse PROVE x \in InUse'
    <3>1. CASE \E h \in held : h.ptr = x
      <4>1. PICK h \in held : h.ptr = x
        BY <3>1
      <4>2. CASE h \in S
        <5>1. call'[t].op = "realloc" /\ call'[t].old = h.ptr
          BY <1>7, <4>2
        <5> QED
          BY <4>1, <5>1, InUseIsNext
      <4>3. CASE h \notin S
        BY <1>9, <4>1, <4>3, InUseIsNext
      <4> QED
        BY <4>2, <4>3
    <3>2. CASE \E u \in HeapTask : call[u].op = "realloc" /\ call[u].old = x
      BY <1>7, <3>2, InUseIsNext
    <3> QED
      BY <3>1, <3>2, InUseIs
  <2>2. ASSUME NEW x \in InUse', x # p + HEAD PROVE x \in InUse
    <3>1. CASE \E h \in held' : h.ptr = x
      BY <1>3, <1>9, <2>2, <3>1, InUseIs
    <3>2. CASE \E u \in HeapTask : call'[u].op = "realloc" /\ call'[u].old = x
      <4>1. PICK u \in HeapTask : call'[u].op = "realloc" /\ call'[u].old = x
        BY <3>2
      <4>2. CASE u = t
        BY <1>5, <1>7, <4>1, <4>2
      <4>3. CASE u # t
        BY <1>5, <1>7, <4>1, <4>3
      <4> QED
        BY <4>2, <4>3
    <3> QED
      BY <2>2, <3>1, <3>2, InUseIsNext
  <2>3. p + HEAD \in InUse'
    BY <1>3, <1>9, InUseIsNext
  <2> QED
    BY <2>1, <2>2, <2>3
<1>11. UsedIsAlloced'
  <2>1. \A q \in allocedIn(blk') : q + HEAD \in InUse'
    BY <1>2, <1>10 DEF HeapInv, UsedIsAlloced
  <2>2. \A x \in InUse' : x - HEAD \in allocedIn(blk')
    BY <1>1, <1>2, <1>10 DEF HeapInv, UsedIsAlloced
  <2> QED
    BY <2>1, <2>2 DEF UsedIsAlloced
<1>12. UsedOnce'
  <2>0. /\ \A h, g \in held : h.ptr = g.ptr => h = g
        /\ \A u \in HeapTask : call[u].op = "realloc" => \A h \in held : h.ptr # call[u].old
        /\ \A v, u \in HeapTask : /\ call[v].op = "realloc" /\ call[u].op = "realloc"
                                  /\ call[v].old = call[u].old
                                  => v = u
    BY DEF HeapInv, UsedOnce
  <2>1. \A h, g \in held' : h.ptr = g.ptr => h = g
    BY <1>3, <1>4, <1>5, <1>9, <2>0
  <2>2. ASSUME NEW u \in HeapTask, call'[u].op = "realloc", NEW h \in held'
        PROVE  h.ptr # call'[u].old
    <3>1. CASE u = t
      <4>1. PICK g \in held : S = {g} /\ call'[t].old = g.ptr
        BY <1>7, <2>2, <3>1
      <4>2. CASE h = new
        BY <1>3, <1>4, <1>5, <3>1, <4>1, <4>2
      <4>3. CASE h # new
        BY <1>9, <2>0, <3>1, <4>1, <4>3
      <4> QED
        BY <4>2, <4>3
    <3>2. CASE u # t
      BY <1>3, <1>4, <1>5, <1>7, <1>9, <2>0, <2>2, <3>2
    <3> QED
      BY <3>1, <3>2
  <2>3. ASSUME NEW u \in HeapTask, NEW v \in HeapTask, call'[u].op = "realloc",
               call'[v].op = "realloc", call'[u].old = call'[v].old
        PROVE  u = v
    <3>1. \A w \in HeapTask : w # t /\ call'[w].op = "realloc" => /\ call[w].op = "realloc"
                                                                   /\ call'[w].old = call[w].old
      BY <1>7
    <3>2. call'[t].op = "realloc" => \E h \in held : call'[t].old = h.ptr
      BY <1>7
    <3> QED
      BY <2>0, <2>3, <3>1, <3>2
  <2> QED
    BY <2>1, <2>2, <2>3 DEF UsedOnce
<1>13. NoWrap => Enough'
  <2>1. SUFFICES ASSUME NoWrap, NEW h \in held' PROVE blk'[h.ptr - HEAD].size >= h.n
    BY DEF Enough
  <2>2. CASE h = new
    <3>1. n <= aligned(n) /\ aligned(n) \in Nat /\ h.ptr - HEAD = p /\ h.n = n
      BY <1>1, <1>3, <2>1, <2>2, AlignedUp DEF NoWrap
    <3>2. blk'[p].size \in Nat
      BY <1>2, ChainSays DEF HeapOK, allocedIn
    <3> QED
      BY <1>1, <1>2, <3>1, <3>2
  <2>3. CASE h \in held
    <3>1. h.ptr - HEAD \in allocedIn(blk)
      BY <1>5, <2>3 DEF HeapInv, UsedIsAlloced
    <3> QED
      BY <1>2, <2>1, <2>3, <3>1 DEF HeapInv, Enough
  <2> QED
    BY <1>9, <2>2, <2>3
<1> QED
  BY <1>8, <1>11, <1>12, <1>13 DEF HeapInv

\* malloc, and the first half of realloc, without a block that fits.
LEMMA LostKeeps ==
  ASSUME HeapInv, NEW t \in HeapTask, call[t] = NoCall,
         call' = [call EXCEPT ![t].op = "FOREVER"], UNCHANGED <<blk, info, held>>
  PROVE  HeapInv'
<1>1. /\ call \in [HeapTask -> [op : {"none", "realloc", "FOREVER"}, old : Int, n : Nat]]
      /\ call[t].op # "realloc"
  BY DEF HeapInv, UseTyped, NoCall
<1>2. /\ call' \in [HeapTask -> [op : {"none", "realloc", "FOREVER"}, old : Int, n : Nat]]
      /\ call'[t].op # "realloc" /\ \A u \in HeapTask : u # t => call'[u] = call[u]
  BY <1>1
<1>3. \A x : x \in InUse' <=> x \in InUse
  BY <1>1, <1>2, InUseIs, InUseIsNext
<1>4. HeapOK'
  BY DEF HeapInv, HeapOK, CountersMatch, FreeBlocksMerged, Conserved, Blocks, Alloced, Free, bytes
<1>5. UseTyped'
  BY <1>2 DEF HeapInv, UseTyped
<1>6. UsedOnce'
  BY <1>1, <1>2 DEF HeapInv, UsedOnce
<1>7. UsedIsAlloced'
  BY <1>3 DEF HeapInv, UsedIsAlloced
<1>8. NoWrap => Enough'
  BY DEF HeapInv, Enough
<1> QED
  BY <1>4, <1>5, <1>6, <1>7, <1>8 DEF HeapInv

\* The block of an address in use is given back.
LEMMA HeldLess ==
  ASSUME HeapInv, NEW x \in InUse, free_block(x), UseTyped', UsedOnce',
         held' \subseteq held, \A y : y \in InUse' <=> y \in InUse /\ y # x
  PROVE  HeapInv'
<1> DEFINE p == x - HEAD
<1>1. x \in Int /\ p \in allocedIn(blk) /\ \A y \in InUse : y \in Int
  BY InUseIs DEF HeapInv, UseTyped, UsedIsAlloced
<1>2. p \in Blocks /\ p \in Nat /\ x = p + HEAD /\ x \in 0 .. HEAP_SIZE - 1
  <2>1. p \in Blocks /\ p \in Nat /\ p + HEAD \in 0 .. HEAP_SIZE - 1
    BY <1>1, AllocedTyped DEF HeapInv
  <2> QED
    BY <1>1, <2>1, HeapConstants
<1>3. blk' = freed(p) /\ info' = counted(p)
  BY <1>2 DEF free_block
<1>4. HeapOK' /\ Given(p)
  <2>1. HeapOK
    BY DEF HeapInv
  <2> HIDE DEF p
  <2> QED
    BY <1>1, <1>3, <2>1, FreeKeeps
<1>5. \A a \in allocedIn(blk) : a \in Nat
  BY AllocedTyped DEF HeapInv
<1>6. UsedIsAlloced'
  <2>1. ASSUME NEW a \in allocedIn(blk') PROVE a + HEAD \in InUse'
    <3>1. a \in allocedIn(blk) /\ a # p
      BY <1>4 DEF Given
    <3>2. a + HEAD \in InUse /\ a + HEAD # x
      BY <1>1, <1>2, <1>5, <3>1, HeapConstants DEF HeapInv, UsedIsAlloced
    <3> QED
      BY <3>2
  <2>2. ASSUME NEW y \in InUse' PROVE y - HEAD \in allocedIn(blk')
    <3>1. y - HEAD \in allocedIn(blk) /\ y # x /\ y \in Int
      BY <1>1 DEF HeapInv, UsedIsAlloced
    <3>2. y - HEAD # p
      BY <1>1, <3>1, HeapConstants
    <3> QED
      BY <1>4, <3>1, <3>2 DEF Given
  <2> QED
    BY <2>1, <2>2 DEF UsedIsAlloced
<1>7. NoWrap => Enough'
  <2>1. SUFFICES ASSUME NoWrap, NEW h \in held' PROVE blk'[h.ptr - HEAD].size >= h.n
    BY DEF Enough
  <2>2. h \in held /\ h.ptr \in InUse'
    BY InUseIsNext
  <2>3. h.ptr - HEAD \in allocedIn(blk')
    BY <1>6, <2>2 DEF UsedIsAlloced
  <2> QED
    BY <1>4, <2>1, <2>2, <2>3 DEF Given, HeapInv, Enough
<1> QED
  BY <1>4, <1>6, <1>7 DEF HeapInv

\* heap_init: one free block.
LEMMA HeapInitHolds ==
  ASSUME heapInit
  PROVE  HeapInv
<1> DEFINE h == [prev |-> NoBlock, next |-> NoBlock, size |-> HEAP_SIZE - HEAD,
                 is_alloced |-> FALSE]
<1>1. /\ blk = [a \in {0} |-> h] /\ DOMAIN blk = {0} /\ blk[0] = h
      /\ info = five(1, 0, 0, 1, HEAP_SIZE - HEAD)
      /\ held = {} /\ call = [t \in HeapTask |-> NoCall]
  BY DEF heapInit, five
<1>2. HEAP_SIZE - HEAD \in Nat /\ HEAP_SIZE - HEAD > 0 /\ HEAP_SIZE > 0 /\ NoBlock \in Int
  BY HeapConstants
<1>3. /\ h \in BLOCK_HEAD /\ h.prev = NoBlock /\ h.next = NoBlock /\ h.size = HEAP_SIZE - HEAD
      /\ h.is_alloced = FALSE
  BY <1>2 DEF BLOCK_HEAD
<1> HIDE DEF h
<1>4. 0 \in Aligned /\ HEAP_SIZE - HEAD \in Aligned
  <2>1. HEAP_SIZE \in Aligned /\ HEAD \in Aligned
    BY HeapConstants
  <2>2. HEAP_SIZE - HEAD \in Aligned /\ HEAP_SIZE - HEAP_SIZE \in Aligned
    BY <2>1, AlignedSum
  <2>3. HEAP_SIZE - HEAP_SIZE = 0
    BY HeapConstants
  <2> QED
    BY <2>2, <2>3
<1>5. Heads(blk)
  <2>1. blk \in [DOMAIN blk -> BLOCK_HEAD]
    BY <1>1, <1>3
  <2>2. DOMAIN blk \subseteq 0 .. HEAP_SIZE - 1
    BY <1>1, HeapConstants
  <2>3. blk[0].size = HEAP_SIZE - HEAD
    BY <1>1, <1>3
  <2> QED
    BY <1>1, <1>2, <1>4, <2>1, <2>2, <2>3 DEF Heads
<1>6. Tiles(blk)
  BY <1>1, <1>2, <1>3, HeapConstants DEF Tiles, End
<1>7. Chain(blk)
  BY <1>5, <1>6 DEF Chain
<1>8. allocedIn(blk) = {} /\ freeIn(blk) = {0}
  BY <1>1, <1>3 DEF allocedIn, freeIn
<1>9. /\ blockNum(blk) = 1 /\ allocedNum(blk) = 0 /\ freeNum(blk) = 1
      /\ allocedSize(blk) = 0 /\ freeSize(blk) = HEAP_SIZE - HEAD
  <2>1. Cardinality({}) = 0 /\ Cardinality({0}) = 1
    BY FS_EmptySet, FS_Singleton
  <2>2. /\ bytesIn(blk, {}) = 0
        /\ bytesIn(blk, {0}) = blk[0].size + bytesIn(blk, {0} \ {0})
    <3>1. bytesIn(blk, {}) = 0
      BY SumEmpty DEF bytesIn
    <3> DEFINE S == {0}
    <3>2. S \subseteq DOMAIN blk /\ 0 \in S
      BY <1>1
    <3> HIDE DEF S
    <3>3. bytesIn(blk, S) = blk[0].size + bytesIn(blk, S \ {0})
      <4>1. Apart(blk, S, 0)
        BY <1>5, <3>2, BytesSplit
      <4> QED
        BY <4>1, Zenon DEF Apart
    <3> QED
      BY <3>1, <3>3 DEF S
  <2>3. {0} \ {0} = {}
    OBVIOUS
  <2>4. bytesIn(blk, {0}) = HEAP_SIZE - HEAD
    <3>1. bytesIn(blk, {0} \ {0}) = 0
      BY <2>2, <2>3, Zenon
    <3> QED
      BY <1>1, <1>2, <1>3, <2>2, <3>1
  <2>5. allocedNum(blk) = 0 /\ freeNum(blk) = 1 /\ blockNum(blk) = 1
    BY <1>1, <1>8, <2>1, Zenon DEF allocedNum, freeNum, blockNum
  <2>6. allocedSize(blk) = 0 /\ freeSize(blk) = HEAP_SIZE - HEAD
    BY <1>8, <2>2, <2>4, Zenon DEF allocedSize, freeSize
  <2> QED
    BY <2>5, <2>6
<1>10. CountersMatch
  BY <1>1, <1>9, CountersMean, Zenon
<1>11. Conserved
  <2>1. all_bytes(info) = 0 + (HEAP_SIZE - HEAD) + HEAD * 1
    BY <1>1 DEF five, all_bytes
  <2>2. all_bytes(info) = HEAP_SIZE
    BY <2>1, HeapConstants
  <2> QED
    BY <2>2, ConservedIs
<1>12. FreeBlocksMerged
  BY <1>1, <1>3 DEF FreeBlocksMerged, Blocks
<1>13. HeapOK
  BY <1>7, <1>10, <1>11, <1>12 DEF HeapOK
<1>14. \A t \in HeapTask : call[t].op = "none"
  BY <1>1 DEF NoCall
<1>15. UseTyped
  BY <1>1, HeapConstants DEF UseTyped, NoCall
<1>16. UsedOnce
  BY <1>1, <1>14 DEF UsedOnce
<1>17. UsedIsAlloced
  <2>1. \A x : x \notin InUse
    BY <1>1, <1>14, InUseIs
  <2> QED
    BY <1>8, <2>1 DEF UsedIsAlloced
<1>18. Enough
  BY <1>1 DEF Enough
<1> QED
  BY <1>13, <1>15, <1>16, <1>17, <1>18 DEF HeapInv

\* malloc keeps the invariant.
LEMMA MallocKeeps ==
  ASSUME HeapInv, NEW t \in HeapTask, NEW n \in Requests, malloc(t, n)
  PROVE  HeapInv'
<1>1. n \in Nat /\ call[t] = NoCall /\ HeapOK
  BY MemHAssumption DEF malloc, HeapInv
<1>2. CASE Fits(n) # {}
  <2> DEFINE p == first_fit(n)
             S == {}
  <2>1. /\ take_block(p, aligned(n)) /\ call' = call
        /\ held' = held \cup {[ptr |-> p + HEAD, n |-> n]}
    BY <1>2 DEF malloc
  <2>2. HeapOK' /\ Taken(p, aligned(n))
    BY <1>1, <1>2, <2>1, TakeKeeps
  <2>3. p \in Blocks /\ S = {} /\ held' = (held \ S) \cup {[ptr |-> p + HEAD, n |-> n]}
    BY <2>1, <2>2 DEF Taken
  <2> HIDE DEF p, S
  <2> QED
    BY <1>1, <2>1, <2>2, <2>3, HeldMore
<1>3. CASE Fits(n) = {}
  BY <1>1, <1>3, LostKeeps DEF malloc
<1> QED
  BY <1>2, <1>3

\* So does free of what a task holds.
LEMMA FreeTaskKeeps ==
  ASSUME HeapInv, NEW t \in HeapTask, NEW h \in held, free(t, h)
  PROVE  HeapInv'
<1>1. /\ free_block(h.ptr) /\ held' = held \ {h} /\ call' = call
  BY DEF free
<1>2. h.ptr \in InUse
  BY InUseIs
<1>3. /\ \A e, g \in held : e.ptr = g.ptr => e = g
      /\ \A u \in HeapTask : call[u].op = "realloc" => \A e \in held : e.ptr # call[u].old
  BY DEF HeapInv, UsedOnce
<1>4. \A y : y \in InUse' <=> y \in InUse /\ y # h.ptr
  BY <1>1, <1>3, InUseIs, InUseIsNext
<1>5. UseTyped'
  BY <1>1 DEF HeapInv, UseTyped
<1>6. UsedOnce'
  BY <1>1 DEF HeapInv, UsedOnce
<1> QED
  BY <1>1, <1>2, <1>4, <1>5, <1>6, HeldLess

\* An address that malloc did not return has no block head in front of it.
LEMMA ForeignKeeps ==
  ASSUME HeapInv, NEW t \in HeapTask, NEW ptr \in Foreign, free_foreign(t, ptr)
  PROVE  UNCHANGED heapVars
<1>1. ASSUME ptr \in 0 .. HEAP_SIZE - 1, ptr - HEAD \in Blocks PROVE FALSE
  <2>1. ptr - HEAD \in Nat /\ ptr - HEAD \in Aligned /\ ptr \in Int
    BY <1>1, MemHAssumption, ChainSays DEF HeapInv, HeapOK, Blocks
  <2>2. ptr \in HEAD .. HEAP_SIZE - 1
    BY <1>1, <2>1, HeapConstants
  <2>3. (ptr - HEAD) + HEAD \in Aligned
    BY <2>1, AlignedSum, HeapConstants
  <2>4. (ptr - HEAD) + HEAD = ptr
    BY <2>1, HeapConstants
  <2>5. ptr % HEAP_ALIGN = 0
    BY <2>3, <2>4 DEF Aligned
  <2> QED
    BY <2>2, <2>5, MemHAssumption
<1>2. UNCHANGED <<blk, info>>
  BY <1>1 DEF free_foreign, free_block
<1> QED
  BY <1>2 DEF free_foreign, heapVars

\* The first half of realloc.
LEMMA ReallocKeeps ==
  ASSUME HeapInv, NEW t \in HeapTask, NEW h \in held, NEW n \in Requests, realloc(t, h, n)
  PROVE  HeapInv'
<1>1. n \in Nat /\ call[t] = NoCall /\ HeapOK
  BY MemHAssumption DEF realloc, HeapInv
<1>2. CASE n = 0 /\ free(t, h)
  BY <1>2, FreeTaskKeeps
<1>3. CASE n # 0 /\ Fits(n) = {} /\ malloc(t, n)
  BY <1>3, MallocKeeps
<1>4. CASE /\ n # 0 /\ Fits(n) # {}
           /\ take_block(first_fit(n), aligned(n))
           /\ held' = (held \ {h}) \cup {[ptr |-> first_fit(n) + HEAD, n |-> n]}
           /\ call' = [call EXCEPT ![t] = [op |-> "realloc", old |-> h.ptr, n |-> n]]
  <2> DEFINE p == first_fit(n)
             S == {h}
  <2>1. HeapOK' /\ Taken(p, aligned(n))
    BY <1>1, <1>4, TakeKeeps
  <2>2. /\ p \in Blocks /\ S = {h}
        /\ held' = (held \ S) \cup {[ptr |-> p + HEAD, n |-> n]}
    BY <1>4, <2>1 DEF Taken
  <2> HIDE DEF p, S
  <2>3. \E e \in held : /\ S = {e}
                        /\ call' = [call EXCEPT ![t] = [op |-> "realloc", old |-> e.ptr,
                                                        n |-> n]]
    BY <1>4, <2>2
  <2> QED
    BY <1>1, <2>1, <2>2, <2>3, HeldMore
<1> QED
  BY <1>2, <1>3, <1>4 DEF realloc

\* The second half, after other tasks called malloc and free.
LEMMA ReallocEndKeeps ==
  ASSUME HeapInv, NEW t \in HeapTask, realloc_end(t)
  PROVE  HeapInv'
<1> DEFINE x == call[t].old
<1>1. /\ free_block(x) /\ held' = held /\ call' = [call EXCEPT ![t] = NoCall]
      /\ call[t].op = "realloc"
  BY DEF realloc_end
<1>2. x \in InUse
  BY <1>1, InUseIs
<1>3. /\ \A u \in HeapTask : call[u].op = "realloc" => \A e \in held : e.ptr # call[u].old
      /\ \A v, u \in HeapTask : /\ call[v].op = "realloc" /\ call[u].op = "realloc"
                                /\ call[v].old = call[u].old
                                => v = u
  BY DEF HeapInv, UsedOnce
<1>4. call \in [HeapTask -> [op : {"none", "realloc", "FOREVER"}, old : Int, n : Nat]]
  BY DEF HeapInv, UseTyped
<1>5. /\ call' \in [HeapTask -> [op : {"none", "realloc", "FOREVER"}, old : Int, n : Nat]]
      /\ call'[t].op # "realloc" /\ \A u \in HeapTask : u # t => call'[u] = call[u]
  <2>1. /\ NoCall \in [op : {"none", "realloc", "FOREVER"}, old : Int, n : Nat]
        /\ NoCall.op # "realloc"
    BY HeapConstants DEF NoCall
  <2> QED
    BY <1>1, <1>4, <2>1
<1>6. \A y : y \in InUse' <=> y \in InUse /\ y # x
  <2>1. ASSUME NEW y, y \in InUse' PROVE y \in InUse /\ y # x
    BY <1>1, <1>3, <1>5, <2>1, InUseIs, InUseIsNext
  <2>2. ASSUME NEW y, y \in InUse, y # x PROVE y \in InUse'
    BY <1>1, <1>3, <1>5, <2>2, InUseIs, InUseIsNext
  <2> QED
    BY <2>1, <2>2
<1>7. UseTyped'
  BY <1>1, <1>5 DEF HeapInv, UseTyped
<1>8. UsedOnce'
  BY <1>1, <1>3, <1>5 DEF HeapInv, UsedOnce
<1>9. held' \subseteq held
  BY <1>1
<1> HIDE DEF x
<1> QED
  BY <1>1, <1>2, <1>6, <1>7, <1>8, <1>9, HeldLess

\* Every step keeps the invariant.
LEMMA HeapStepKeeps ==
  ASSUME HeapInv, [heapNext]_heapVars
  PROVE  HeapInv'
<1>1. ASSUME UNCHANGED heapVars PROVE HeapInv'
  <2>1. InUse' = InUse
    BY <1>1 DEF InUse, heapVars
  <2>2. HeapOK'
    BY <1>1 DEF HeapInv, HeapOK, CountersMatch, FreeBlocksMerged, Conserved, Blocks, Alloced,
                Free, bytes, heapVars
  <2>3. UseTyped' /\ UsedOnce'
    BY <1>1 DEF HeapInv, UseTyped, UsedOnce, heapVars
  <2>4. UsedIsAlloced' /\ (NoWrap => Enough')
    BY <1>1, <2>1 DEF HeapInv, UsedIsAlloced, Enough, heapVars
  <2> QED
    BY <2>2, <2>3, <2>4 DEF HeapInv
<1>2. ASSUME NEW t \in HeapTask, NEW n \in Requests, malloc(t, n) PROVE HeapInv'
  BY <1>2, MallocKeeps
<1>3. ASSUME NEW t \in HeapTask, NEW h \in held, free(t, h) PROVE HeapInv'
  BY <1>3, FreeTaskKeeps
<1>4. ASSUME NEW t \in HeapTask, NEW ptr \in Foreign, free_foreign(t, ptr) PROVE HeapInv'
  BY <1>1, <1>4, ForeignKeeps
<1>5. ASSUME NEW t \in HeapTask, NEW h \in held, NEW n \in Requests, realloc(t, h, n)
      PROVE  HeapInv'
  BY <1>5, ReallocKeeps
<1>6. ASSUME NEW t \in HeapTask, realloc_end(t) PROVE HeapInv'
  BY <1>6, ReallocEndKeeps
<1> QED
  BY <1>1, <1>2, <1>3, <1>4, <1>5, <1>6 DEF heapNext

\* The invariant has the chain and the counters.
LEMMA TiledInHeap ==
  ASSUME HeapInv
  PROVE  HeapIsTiled
<1>1. BlocksTile
  BY DEF HeapInv, HeapOK, Chain, Tiles, End, BlocksTile, Blocks
<1> QED
  BY <1>1 DEF HeapInv, HeapOK, HeapIsTiled

\* And it has every block in its user's hands, at its full size.
LEMMA InUseInHeap ==
  ASSUME HeapInv, NoWrap
  PROVE  BlocksInUse
<1>1. /\ \A p \in allocedIn(blk) : /\ p + HEAD \in InUse /\ p \in Nat
                                   /\ p + HEAD \in 0 .. HEAP_SIZE - 1
      /\ \A x \in InUse : x - HEAD \in allocedIn(blk) /\ x \in Int
  BY AllocedTyped, InUseIs DEF HeapInv, UsedIsAlloced, UseTyped
<1>2. Alloced = allocedIn(blk)
  BY DEF Alloced, allocedIn, Blocks
<1>3. \A x \in InUse : x = (x - HEAD) + HEAD
  BY <1>1, HeapConstants
<1>4. {p + HEAD : p \in Alloced} = InUse
  <2> HIDE DEF InUse
  <2> QED
    BY <1>1, <1>2, <1>3
<1>5. InUse \subseteq 0 .. HEAP_SIZE - 1
  BY <1>1, <1>3
<1> QED
  BY <1>4, <1>5 DEF BlocksInUse, HeapInv, Enough

\* The inductive invariant of the heap: chain, counters and users agree after every
\* call of malloc, free and realloc, between the halves of realloc included.
THEOREM HeapInvariance == heapSpec => []HeapInv
<1>1. heapInit => HeapInv
  BY HeapInitHolds
<1>2. HeapInv /\ [heapNext]_heapVars => HeapInv'
  BY HeapStepKeeps
<1> QED
  BY <1>1, <1>2, PTL DEF heapSpec

\* memH.c keeps its blocks tiling the heap, no two free neighbours apart and the
\* counters of _G_sys_heap right, for every size of the heap, of the heads and of the
\* alignment.
THEOREM HeapIsTiledHolds == heapSpec => []HeapIsTiled
<1>1. HeapInv => HeapIsTiled
  BY TiledInHeap
<1> QED
  BY <1>1, HeapInvariance, PTL

\* malloc, free and realloc hand out no block twice, lose none and give each caller the
\* bytes it asked for, when no request is so large that malloc rounds it to 0.
THEOREM BlocksInUseHolds ==
  ASSUME NoWrap
  PROVE  heapSpec => []BlocksInUse
<1>1. HeapInv => BlocksInUse
  BY InUseInHeap
<1> QED
  BY <1>1, HeapInvariance, PTL

-----------------------------------------------------------------------------
(* The linked lists: the pointers of dlist.c make sequences.               *)

Pointers == [head : [List -> Node \cup {NIL}], tail : [List -> Node \cup {NIL}],
             next : [Node -> Node \cup {NIL}], previous : [Node -> Node \cup {NIL}]]

\* The node at position i, NIL in front of and behind the list.
NodeAt(q, i) == IF i \in 1 .. Len(q) THEN q[i] ELSE NIL

Distinct(q) == \A i, j \in 1 .. Len(q) : q[i] = q[j] => i = j

In(q, n) == \E i \in 1 .. Len(q) : q[i] = n

\* The pointers s link the nodes of q, in this order, to the list l.
Links(s, l, q) ==
  /\ s.head[l] = NodeAt(q, 1)
  /\ s.tail[l] = NodeAt(q, Len(q))
  /\ \A i \in 1 .. Len(q) : /\ s.next[q[i]] = NodeAt(q, i + 1)
                            /\ s.previous[q[i]] = NodeAt(q, i - 1)

\* No node is in two lists.
Disjoint(L) == \A l, m \in List : \A n \in Node : In(L[l], n) /\ In(L[m], n) => l = m

\* The pointers s represent the lists L.
Represents(s, L) ==
  /\ s \in Pointers /\ L \in [List -> Seq(Node)]
  /\ \A l \in List : Distinct(L[l]) /\ Links(s, l, L[l])
  /\ Disjoint(L)

\* What dlist_insert leaves in the pointers, x being the node behind the new one.
InsertedPointers(s, l, p, n, x, r) ==
  /\ r \in Pointers
  /\ r.head = IF p = NIL THEN [s.head EXCEPT ![l] = n] ELSE s.head
  /\ r.tail = IF x = NIL THEN [s.tail EXCEPT ![l] = n] ELSE s.tail
  /\ \A y \in Node : r.next[y] = IF y = n THEN x ELSE IF y = p THEN n ELSE s.next[y]
  /\ \A y \in Node : r.previous[y] = IF y = n THEN p ELSE IF y = x THEN n ELSE s.previous[y]

LEMMA PointersAfterInsert ==
  ASSUME NEW s \in Pointers, NEW l \in List, NEW p \in Node \cup {NIL}, NEW n \in Node,
         NEW x, x = IF p = NIL THEN s.head[l] ELSE s.next[p]
  PROVE  InsertedPointers(s, l, p, n, x, insert(s, l, p, n))
<1> DEFINE s1 == IF p = NIL THEN [s EXCEPT !.head[l] = n] ELSE [s EXCEPT !.next[p] = n]
           s2 == IF x = NIL THEN [s1 EXCEPT !.tail[l] = n] ELSE [s1 EXCEPT !.previous[x] = n]
           r  == [s2 EXCEPT !.next[n] = x, !.previous[n] = p]
<1>0. x \in Node \cup {NIL} /\ NIL \notin Node
  BY DListAssumption DEF Pointers
<1>1. /\ s1 \in Pointers
      /\ s1.head = IF p = NIL THEN [s.head EXCEPT ![l] = n] ELSE s.head
      /\ s1.tail = s.tail
      /\ \A y \in Node : s1.next[y] = IF y = p THEN n ELSE s.next[y]
      /\ s1.previous = s.previous
  BY <1>0 DEF Pointers
<1> HIDE DEF s1
<1>2. /\ s2 \in Pointers
      /\ s2.head = s1.head
      /\ s2.tail = IF x = NIL THEN [s1.tail EXCEPT ![l] = n] ELSE s1.tail
      /\ s2.next = s1.next
      /\ \A y \in Node : s2.previous[y] = IF y = x THEN n ELSE s1.previous[y]
  <2>1. CASE x = NIL
    BY <2>1, <1>0, <1>1 DEF Pointers
  <2>2. CASE x # NIL
    BY <2>2, <1>0, <1>1 DEF Pointers
  <2> QED
    BY <2>1, <2>2
<1> HIDE DEF s2
<1>3. /\ r \in Pointers
      /\ r.head = s2.head /\ r.tail = s2.tail
      /\ \A y \in Node : r.next[y] = IF y = n THEN x ELSE s2.next[y]
      /\ \A y \in Node : r.previous[y] = IF y = n THEN p ELSE s2.previous[y]
  BY <1>0, <1>2 DEF Pointers
<1>4. insert(s, l, p, n) = r
  BY DEF insert, r, s2, s1
<1> HIDE DEF r
<1> QED
  BY <1>1, <1>2, <1>3, <1>4 DEF InsertedPointers

\* What dlist_remove leaves in them, p and x being the neighbours of the node.
RemovedPointers(s, l, p, x, r) ==
  /\ r \in Pointers
  /\ r.head = IF p = NIL THEN [s.head EXCEPT ![l] = x] ELSE s.head
  /\ r.tail = IF x = NIL THEN [s.tail EXCEPT ![l] = p] ELSE s.tail
  /\ \A y \in Node : r.next[y] = IF y = p THEN x ELSE s.next[y]
  /\ \A y \in Node : r.previous[y] = IF y = x THEN p ELSE s.previous[y]

LEMMA PointersAfterRemove ==
  ASSUME NEW s \in Pointers, NEW l \in List, NEW n \in Node,
         NEW p, p = s.previous[n], NEW x, x = s.next[n]
  PROVE  RemovedPointers(s, l, p, x, remove(s, l, n))
<1> DEFINE s1 == IF p = NIL THEN [s EXCEPT !.head[l] = x] ELSE [s EXCEPT !.next[p] = x]
           r == IF x = NIL THEN [s1 EXCEPT !.tail[l] = p] ELSE [s1 EXCEPT !.previous[x] = p]
<1>0. p \in Node \cup {NIL} /\ x \in Node \cup {NIL} /\ NIL \notin Node
  BY DListAssumption DEF Pointers
<1>1. /\ s1 \in Pointers
      /\ s1.head = IF p = NIL THEN [s.head EXCEPT ![l] = x] ELSE s.head
      /\ s1.tail = s.tail
      /\ \A y \in Node : s1.next[y] = IF y = p THEN x ELSE s.next[y]
      /\ s1.previous = s.previous
  BY <1>0 DEF Pointers
<1> HIDE DEF s1
<1>2. /\ r \in Pointers
      /\ r.head = s1.head
      /\ r.tail = IF x = NIL THEN [s1.tail EXCEPT ![l] = p] ELSE s1.tail
      /\ r.next = s1.next
      /\ \A y \in Node : r.previous[y] = IF y = x THEN p ELSE s1.previous[y]
  BY <1>0, <1>1 DEF Pointers
<1>3. remove(s, l, n) = r
  BY DEF remove, r, s1
<1> HIDE DEF r
<1> QED
  BY <1>1, <1>2, <1>3 DEF RemovedPointers

\* dlist_get takes the first node as dlist_remove would.
LEMMA GetIsRemove ==
  ASSUME NEW s, NEW l \in List, NEW q \in Seq(Node), Links(s, l, q), s.head[l] # NIL
  PROVE  /\ get(s, l) = remove(s, l, s.head[l])
         /\ q # << >> /\ s.head[l] = q[1]
<1>1. Len(q) \in Nat /\ Len(q) >= 1 /\ s.head[l] = q[1]
  BY DEF Links, NodeAt
<1>2. s.previous[q[1]] = NIL
  BY <1>1 DEF Links, NodeAt
<1>3. q # << >>
  BY <1>1
<1> QED
  BY <1>1, <1>2, <1>3 DEF get, remove

-----------------------------------------------------------------------------
\* The list itself after dlist_insert behind position i.
Inserted(q, i, n, t) ==
  /\ t \in Seq(Node) /\ Len(t) = Len(q) + 1 /\ Distinct(t)
  /\ \A j \in 1 .. Len(t) : t[j] = IF j <= i THEN q[j] ELSE IF j = i + 1 THEN n ELSE q[j - 1]
  /\ \A y : In(t, y) <=> y = n \/ In(q, y)

LEMMA InsertedList ==
  ASSUME NEW q \in Seq(Node), Distinct(q), NEW i \in 0 .. Len(q), NEW n \in Node, ~ In(q, n)
  PROVE  Inserted(q, i, n, Seqs!dlist_insert(q, i, n))
<1> DEFINE t == Seqs!dlist_insert(q, i, n)
<1>0. Len(q) \in Nat /\ i \in Nat /\ i <= Len(q)
  OBVIOUS
<1>1. t = [j \in 1 .. Len(q) + 1 |->
             IF j <= i THEN q[j] ELSE IF j = i + 1 THEN n ELSE q[j - 1]]
  BY DEF Seqs!dlist_insert
<1>2. \A j \in 1 .. Len(q) + 1 :
        (IF j <= i THEN q[j] ELSE IF j = i + 1 THEN n ELSE q[j - 1]) \in Node
  BY <1>0
<1>3. /\ t \in Seq(Node) /\ Len(t) = Len(q) + 1
      /\ \A j \in 1 .. Len(q) + 1 :
           t[j] = IF j <= i THEN q[j] ELSE IF j = i + 1 THEN n ELSE q[j - 1]
  BY <1>0, <1>1, <1>2
<1> HIDE DEF t
<1>4. Distinct(t)
  <2> SUFFICES ASSUME NEW a \in 1 .. Len(q) + 1, NEW b \in 1 .. Len(q) + 1, t[a] = t[b]
               PROVE  a = b
    BY <1>3 DEF Distinct
  <2> DEFINE old(j) == IF j <= i THEN j ELSE j - 1
  <2>1. \A j \in 1 .. Len(q) + 1 :
          j # i + 1 => old(j) \in 1 .. Len(q) /\ t[j] = q[old(j)] /\ t[j] # n
    BY <1>0, <1>3 DEF In
  <2>2. i + 1 \in 1 .. Len(q) + 1 /\ t[i + 1] = n
    BY <1>0, <1>3
  <2>3. CASE a # i + 1 /\ b # i + 1
    <3>1. old(a) = old(b)
      BY <2>1, <2>3 DEF Distinct
    <3> QED
      BY <3>1, <2>3, <1>0
  <2>4. CASE a = i + 1 \/ b = i + 1
    <3> HIDE DEF old
    <3> QED
      BY <2>1, <2>2, <2>4
  <2> QED
    BY <2>3, <2>4
<1>5. ASSUME NEW y
      PROVE  In(t, y) <=> y = n \/ In(q, y)
  <2>1. i + 1 \in 1 .. Len(t) /\ t[i + 1] = n
    BY <1>0, <1>3
  <2>2. ASSUME NEW j \in 1 .. Len(q), q[j] = y
        PROVE  In(t, y)
    <3> DEFINE new == IF j <= i THEN j ELSE j + 1
    <3>1. new \in 1 .. Len(t) /\ t[new] = y
      BY <1>0, <1>3, <2>2
    <3> HIDE DEF new
    <3> QED
      BY <3>1 DEF In
  <2>3. ASSUME NEW j \in 1 .. Len(t), t[j] = y, y # n
        PROVE  In(q, y)
    <3> DEFINE old == IF j <= i THEN j ELSE j - 1
    <3>1. old \in 1 .. Len(q) /\ q[old] = y
      BY <1>0, <1>3, <2>3
    <3> HIDE DEF old
    <3> QED
      BY <3>1 DEF In
  <2> QED
    BY <2>1, <2>2, <2>3 DEF In
<1>6. Inserted(q, i, n, t)
  BY <1>3, <1>4, <1>5 DEF Inserted
<1> QED
  BY <1>6 DEF t

\* dlist_insert links the new node and the two beside it, and leaves the rest.
LEMMA InsertLinks ==
  ASSUME NEW s \in Pointers, NEW l \in List, NEW q \in Seq(Node), Distinct(q), Links(s, l, q),
         NEW i \in 0 .. Len(q), NEW n \in Node, ~ In(q, n),
         NEW x, NEW r, InsertedPointers(s, l, NodeAt(q, i), n, x, r), x = NodeAt(q, i + 1),
         NEW t, Inserted(q, i, n, t)
  PROVE  Links(r, l, t)
<1> DEFINE p == NodeAt(q, i)
<1>0. /\ Len(q) \in Nat /\ i \in Nat /\ i <= Len(q) /\ NIL \notin Node
      /\ \A j \in 1 .. Len(q) : q[j] \in Node
  BY DListAssumption
<1>1. /\ Len(t) = Len(q) + 1
      /\ \A j \in 1 .. Len(q) + 1 :
           t[j] = IF j <= i THEN q[j] ELSE IF j = i + 1 THEN n ELSE q[j - 1]
  BY DEF Inserted
<1>2. /\ p = NIL <=> i = 0
      /\ x = NIL <=> i = Len(q)
      /\ i > 0 => i \in 1 .. Len(q) /\ p = q[i]
      /\ i < Len(q) => i + 1 \in 1 .. Len(q) /\ x = q[i + 1]
  BY <1>0 DEF NodeAt
<1>3. /\ r.head[l] = IF i = 0 THEN n ELSE s.head[l]
      /\ r.tail[l] = IF i = Len(q) THEN n ELSE s.tail[l]
  BY <1>2 DEF InsertedPointers, Pointers
<1>4. \A y \in Node : /\ r.next[y] = IF y = n THEN x ELSE IF y = p THEN n ELSE s.next[y]
                      /\ r.previous[y] = IF y = n THEN p ELSE IF y = x THEN n ELSE s.previous[y]
  BY DEF InsertedPointers
<1> HIDE DEF p
<1>5. r.head[l] = NodeAt(t, 1)
  BY <1>0, <1>1, <1>3 DEF Links, NodeAt
<1>6. r.tail[l] = NodeAt(t, Len(t))
  BY <1>0, <1>1, <1>3 DEF Links, NodeAt
<1>7. \A j \in 1 .. Len(q) : /\ q[j] # n
                             /\ q[j] = p <=> j = i
                             /\ q[j] = x <=> j = i + 1
  BY <1>0, <1>2 DEF In, Distinct
<1>8. \A j \in 1 .. Len(q) : /\ s.next[q[j]] = NodeAt(q, j + 1)
                             /\ s.previous[q[j]] = NodeAt(q, j - 1)
  BY DEF Links
<1>9. ASSUME NEW j \in 1 .. Len(t)
      PROVE  /\ r.next[t[j]] = NodeAt(t, j + 1)
             /\ r.previous[t[j]] = NodeAt(t, j - 1)
  <2>1. CASE j <= i
    <3>1. j \in 1 .. Len(q) /\ t[j] = q[j]
      BY <1>0, <1>1, <1>9, <2>1
    <3>5. /\ q[j] \in Node /\ q[j] # n /\ q[j] # x /\ (q[j] = p <=> j = i)
          /\ s.next[q[j]] = NodeAt(q, j + 1) /\ s.previous[q[j]] = NodeAt(q, j - 1)
      BY <3>1, <1>0, <1>7, <1>8, <2>1
    <3>2. /\ r.next[q[j]] = IF j = i THEN n ELSE NodeAt(q, j + 1)
          /\ r.previous[q[j]] = NodeAt(q, j - 1)
      BY <3>5, <1>4, Zenon
    <3>3. NodeAt(t, j + 1) = IF j = i THEN n ELSE NodeAt(q, j + 1)
      BY <3>1, <1>0, <1>1, <2>1 DEF NodeAt
    <3>4. NodeAt(t, j - 1) = NodeAt(q, j - 1)
      BY <3>1, <1>0, <1>1, <2>1 DEF NodeAt
    <3> QED
      BY <3>1, <3>2, <3>3, <3>4
  <2>2. CASE j = i + 1
    <3>1. t[j] = n /\ r.next[n] = x /\ r.previous[n] = p
      BY <1>0, <1>1, <1>4, <2>2
    <3>2. NodeAt(t, j + 1) = x
      BY <1>0, <1>1, <1>2, <2>2 DEF NodeAt
    <3>3. NodeAt(t, j - 1) = p
      BY <1>0, <1>1, <1>2, <2>2 DEF NodeAt
    <3> QED
      BY <3>1, <3>2, <3>3
  <2>3. CASE j > i + 1
    <3>1. j - 1 \in 1 .. Len(q) /\ t[j] = q[j - 1] /\ j \in Int
      BY <1>0, <1>1, <1>9, <2>3
    <3>5. /\ q[j - 1] \in Node /\ q[j - 1] # n /\ q[j - 1] # p
          /\ q[j - 1] = x <=> j - 1 = i + 1
      BY <3>1, <1>0, <1>7, <2>3
    <3>6. s.next[q[j - 1]] = NodeAt(q, j) /\ s.previous[q[j - 1]] = NodeAt(q, j - 2)
      BY <3>1, <1>8
    <3>2. /\ r.next[q[j - 1]] = NodeAt(q, j)
          /\ r.previous[q[j - 1]] = IF j - 1 = i + 1 THEN n ELSE NodeAt(q, j - 2)
      BY <3>5, <3>6, <1>4, Zenon
    <3>3. NodeAt(t, j + 1) = NodeAt(q, j)
      BY <3>1, <1>0, <1>1, <2>3 DEF NodeAt
    <3>4. NodeAt(t, j - 1) = IF j - 1 = i + 1 THEN n ELSE NodeAt(q, j - 2)
      BY <3>1, <1>0, <1>1, <2>3 DEF NodeAt
    <3> QED
      BY <3>1, <3>2, <3>3, <3>4
  <2> QED
    BY <1>0, <1>1, <1>9, <2>1, <2>2, <2>3
<1> QED
  BY <1>5, <1>6, <1>9 DEF Links

\* The list itself after dlist_remove of its k-th node.
Removed(q, k, t) ==
  /\ t \in Seq(Node) /\ Len(t) = Len(q) - 1 /\ Distinct(t)
  /\ \A j \in 1 .. Len(t) : t[j] = IF j < k THEN q[j] ELSE q[j + 1]
  /\ \A y : In(t, y) <=> In(q, y) /\ y # q[k]

LEMMA RemovedIs ==
  ASSUME NEW q \in Seq(Node), Distinct(q), NEW k \in 1 .. Len(q),
         NEW t \in Seq(Node), Len(t) = Len(q) - 1,
         \A j \in 1 .. Len(q) - 1 : t[j] = IF j < k THEN q[j] ELSE q[j + 1]
  PROVE  Removed(q, k, t)
<1> DEFINE old(j) == IF j < k THEN j ELSE j + 1
<1>0. Len(q) \in Nat /\ k \in Nat /\ k >= 1 /\ k <= Len(q)
  OBVIOUS
<1>1. \A j \in 1 .. Len(t) : old(j) \in 1 .. Len(q) /\ t[j] = q[old(j)] /\ old(j) # k
  BY <1>0
<1>2. Distinct(t)
  <2> SUFFICES ASSUME NEW a \in 1 .. Len(t), NEW b \in 1 .. Len(t), t[a] = t[b]
               PROVE  a = b
    BY DEF Distinct
  <2>1. old(a) = old(b)
    BY <1>1 DEF Distinct
  <2> QED
    BY <2>1, <1>0
<1>3. ASSUME NEW y
      PROVE  In(t, y) <=> In(q, y) /\ y # q[k]
  <2>1. ASSUME NEW j \in 1 .. Len(t), t[j] = y
        PROVE  In(q, y) /\ y # q[k]
    <3>1. old(j) \in 1 .. Len(q) /\ y = q[old(j)] /\ old(j) # k
      BY <1>1, <2>1
    <3> HIDE DEF old
    <3> QED
      BY <3>1 DEF In, Distinct
  <2>2. ASSUME NEW j \in 1 .. Len(q), q[j] = y, j # k
        PROVE  In(t, y)
    <3> DEFINE new == IF j < k THEN j ELSE j - 1
    <3>1. new \in 1 .. Len(t) /\ t[new] = y
      BY <1>0, <2>2
    <3> HIDE DEF new
    <3> QED
      BY <3>1 DEF In
  <2> QED
    BY <2>1, <2>2 DEF In
<1> QED
  BY <1>2, <1>3 DEF Removed

LEMMA RemovedList ==
  ASSUME NEW q \in Seq(Node), Distinct(q), NEW k \in 1 .. Len(q)
  PROVE  Removed(q, k, Seqs!dlist_remove(q, q[k]))
<1> DEFINE t == Seqs!dlist_remove(q, q[k])
           i == CHOOSE i \in 1 .. Len(q) : q[i] = q[k]
<1>0. Len(q) \in Nat /\ k \in Nat /\ k >= 1 /\ k <= Len(q)
  OBVIOUS
<1>1. i = k
  BY DEF Distinct
<1>2. t = [j \in 1 .. Len(q) - 1 |-> IF j < i THEN q[j] ELSE q[j + 1]]
  BY DEF Seqs!dlist_remove
<1> HIDE DEF t, i
<1>3. \A j \in 1 .. Len(q) - 1 : (IF j < k THEN q[j] ELSE q[j + 1]) \in Node
  BY <1>0
<1>4. /\ t \in Seq(Node) /\ Len(t) = Len(q) - 1
      /\ \A j \in 1 .. Len(q) - 1 : t[j] = IF j < k THEN q[j] ELSE q[j + 1]
  BY <1>0, <1>1, <1>2, <1>3
<1>5. Removed(q, k, t)
  BY <1>4, RemovedIs
<1> QED
  BY <1>5 DEF t

LEMMA RestIsRemoved ==
  ASSUME NEW q \in Seq(Node), Distinct(q), q # << >>
  PROVE  Seqs!dlist_rest(q) = Seqs!dlist_remove(q, q[1])
<1> DEFINE t == Seqs!dlist_remove(q, q[1])
<1>0. Len(q) \in Nat /\ Len(q) >= 1 /\ 1 \in 1 .. Len(q)
  OBVIOUS
<1>1. Removed(q, 1, t)
  BY <1>0, RemovedList
<1> HIDE DEF t
<1>2. /\ t \in Seq(Node) /\ Len(t) = Len(q) - 1
      /\ \A j \in 1 .. Len(t) : t[j] = q[j + 1]
  BY <1>0, <1>1 DEF Removed
<1>3. /\ Tail(q) \in Seq(Node) /\ Len(Tail(q)) = Len(q) - 1
      /\ \A j \in 1 .. Len(q) - 1 : Tail(q)[j] = q[j + 1]
  BY <1>0
<1>4. Tail(q) = t
  BY <1>0, <1>2, <1>3, SeqEqual
<1> QED
  BY <1>4 DEF t, Seqs!dlist_rest

LEMMA RemoveLinks ==
  ASSUME NEW s \in Pointers, NEW l \in List, NEW q \in Seq(Node), Distinct(q), Links(s, l, q),
         NEW k \in 1 .. Len(q),
         NEW r, RemovedPointers(s, l, NodeAt(q, k - 1), NodeAt(q, k + 1), r),
         NEW t, Removed(q, k, t)
  PROVE  Links(r, l, t)
<1> DEFINE p == NodeAt(q, k - 1)
           x == NodeAt(q, k + 1)
<1>0. /\ Len(q) \in Nat /\ k \in Nat /\ 1 <= k /\ k <= Len(q) /\ NIL \notin Node
      /\ \A j \in 1 .. Len(q) : q[j] \in Node
  BY DListAssumption
<1>1. /\ Len(t) = Len(q) - 1
      /\ \A j \in 1 .. Len(q) - 1 : t[j] = IF j < k THEN q[j] ELSE q[j + 1]
  BY DEF Removed
<1>2. /\ p = NIL <=> k = 1
      /\ x = NIL <=> k = Len(q)
      /\ k > 1 => k - 1 \in 1 .. Len(q) /\ p = q[k - 1]
      /\ k < Len(q) => k + 1 \in 1 .. Len(q) /\ x = q[k + 1]
  BY <1>0 DEF NodeAt
<1>3. /\ r.head[l] = IF k = 1 THEN x ELSE s.head[l]
      /\ r.tail[l] = IF k = Len(q) THEN p ELSE s.tail[l]
  BY <1>2 DEF RemovedPointers, Pointers
<1>4. \A y \in Node : /\ r.next[y] = IF y = p THEN x ELSE s.next[y]
                      /\ r.previous[y] = IF y = x THEN p ELSE s.previous[y]
  BY DEF RemovedPointers
<1>5. r.head[l] = NodeAt(t, 1)
  BY <1>0, <1>1, <1>3 DEF Links, NodeAt
<1>6. r.tail[l] = NodeAt(t, Len(t))
  BY <1>0, <1>1, <1>3 DEF Links, NodeAt
<1>7. \A j \in 1 .. Len(q) : /\ q[j] = p <=> j = k - 1
                             /\ q[j] = x <=> j = k + 1
  BY <1>0, <1>2 DEF Distinct
<1> HIDE DEF p, x
<1>8. \A j \in 1 .. Len(q) : /\ s.next[q[j]] = NodeAt(q, j + 1)
                             /\ s.previous[q[j]] = NodeAt(q, j - 1)
  BY DEF Links
<1>9. ASSUME NEW j \in 1 .. Len(t)
      PROVE  /\ r.next[t[j]] = NodeAt(t, j + 1)
             /\ r.previous[t[j]] = NodeAt(t, j - 1)
  <2>1. CASE j < k
    <3>1. j \in 1 .. Len(q) /\ t[j] = q[j]
      BY <1>0, <1>1, <1>9, <2>1
    <3>2. /\ q[j] \in Node /\ q[j] # x /\ (q[j] = p <=> j = k - 1)
          /\ s.next[q[j]] = NodeAt(q, j + 1) /\ s.previous[q[j]] = NodeAt(q, j - 1)
      BY <3>1, <1>0, <1>7, <1>8, <2>1
    <3>3. /\ r.next[q[j]] = IF j = k - 1 THEN x ELSE NodeAt(q, j + 1)
          /\ r.previous[q[j]] = NodeAt(q, j - 1)
      BY <3>2, <1>4, Zenon
    <3>4. NodeAt(t, j + 1) = IF j = k - 1 THEN x ELSE NodeAt(q, j + 1)
      BY <3>1, <1>0, <1>1, <1>2, <2>1 DEF NodeAt
    <3>5. NodeAt(t, j - 1) = NodeAt(q, j - 1)
      BY <3>1, <1>0, <1>1, <2>1 DEF NodeAt
    <3> QED
      BY <3>1, <3>3, <3>4, <3>5
  <2>2. CASE j >= k
    <3>1. j + 1 \in 1 .. Len(q) /\ t[j] = q[j + 1] /\ j \in Int
      BY <1>0, <1>1, <1>9, <2>2
    <3>2. /\ q[j + 1] \in Node /\ q[j + 1] # p /\ (q[j + 1] = x <=> j = k)
      BY <3>1, <1>0, <1>7, <2>2
    <3>3. s.next[q[j + 1]] = NodeAt(q, j + 2) /\ s.previous[q[j + 1]] = NodeAt(q, j)
      BY <3>1, <1>8
    <3>4. /\ r.next[q[j + 1]] = NodeAt(q, j + 2)
          /\ r.previous[q[j + 1]] = IF j = k THEN p ELSE NodeAt(q, j)
      BY <3>2, <3>3, <1>4, Zenon
    <3>5. NodeAt(t, j + 1) = NodeAt(q, j + 2)
      BY <3>1, <1>0, <1>1, <2>2 DEF NodeAt
    <3>6. NodeAt(t, j - 1) = IF j = k THEN p ELSE NodeAt(q, j)
      BY <3>1, <1>0, <1>1, <1>2, <2>2 DEF NodeAt
    <3> QED
      BY <3>1, <3>4, <3>5, <3>6
  <2> QED
    BY <1>0, <1>1, <1>9, <2>1, <2>2
<1> QED
  BY <1>5, <1>6, <1>9 DEF Links

-----------------------------------------------------------------------------
\* A list that holds none of the nodes that dlist_insert and dlist_remove write.
LEMMA OthersAfterInsert ==
  ASSUME NEW s \in Pointers, NEW l \in List, NEW m \in List, m # l,
         NEW q \in Seq(Node), Links(s, m, q), NEW p, NEW n, NEW x, NEW r,
         InsertedPointers(s, l, p, n, x, r), ~ In(q, p), ~ In(q, n), ~ In(q, x)
  PROVE  Links(r, m, q)
<1>1. r.head[m] = s.head[m] /\ r.tail[m] = s.tail[m]
  BY DEF InsertedPointers, Pointers
<1>2. \A j \in 1 .. Len(q) : r.next[q[j]] = s.next[q[j]] /\ r.previous[q[j]] = s.previous[q[j]]
  BY DEF InsertedPointers, In
<1> QED
  BY <1>1, <1>2 DEF Links

LEMMA OthersAfterRemove ==
  ASSUME NEW s \in Pointers, NEW l \in List, NEW m \in List, m # l,
         NEW q \in Seq(Node), Links(s, m, q), NEW p, NEW x, NEW r,
         RemovedPointers(s, l, p, x, r), ~ In(q, p), ~ In(q, x)
  PROVE  Links(r, m, q)
<1>1. r.head[m] = s.head[m] /\ r.tail[m] = s.tail[m]
  BY DEF RemovedPointers, Pointers
<1>2. \A j \in 1 .. Len(q) : r.next[q[j]] = s.next[q[j]] /\ r.previous[q[j]] = s.previous[q[j]]
  BY DEF RemovedPointers, In
<1> QED
  BY <1>1, <1>2 DEF Links

\* Neither the nodes of another list nor NIL are in a list.
LEMMA NotInOther ==
  ASSUME NEW L \in [List -> Seq(Node)], Disjoint(L), NEW l \in List, NEW m \in List, m # l,
         NEW i \in Int
  PROVE  ~ In(L[m], NodeAt(L[l], i))
<1>1. NIL \notin Node /\ L[l] \in Seq(Node) /\ L[m] \in Seq(Node)
  BY DListAssumption
<1>2. CASE i \in 1 .. Len(L[l])
  <2>1. NodeAt(L[l], i) \in Node /\ In(L[l], NodeAt(L[l], i))
    BY <1>1, <1>2 DEF NodeAt, In
  <2> QED
    BY <2>1 DEF Disjoint
<1>3. CASE i \notin 1 .. Len(L[l])
  BY <1>1, <1>3 DEF NodeAt, In
<1> QED
  BY <1>2, <1>3

LEMMA InsertRepresents ==
  ASSUME NEW s, NEW L, Represents(s, L), NEW l \in List, NEW i \in 0 .. Len(L[l]),
         NEW n \in Node, \A m \in List : ~ In(L[m], n)
  PROVE  Represents(insert(s, l, NodeAt(L[l], i), n),
                    [L EXCEPT ![l] = Seqs!dlist_insert(L[l], i, n)])
<1> DEFINE q == L[l]
           p == NodeAt(q, i)
           x == NodeAt(q, i + 1)
           r == insert(s, l, p, n)
           t == Seqs!dlist_insert(q, i, n)
           M == [L EXCEPT ![l] = t]
<1>0. /\ s \in Pointers /\ L \in [List -> Seq(Node)] /\ Disjoint(L) /\ NIL \notin Node
      /\ \A m \in List : L[m] \in Seq(Node) /\ Distinct(L[m]) /\ Links(s, m, L[m])
      /\ q \in Seq(Node) /\ Distinct(q) /\ Links(s, l, q) /\ Len(q) \in Nat /\ i \in Int
      /\ ~ In(q, n)
  BY DListAssumption DEF Represents
<1>1. p \in Node \cup {NIL}
  BY <1>0 DEF NodeAt
<1>2. x = IF p = NIL THEN s.head[l] ELSE s.next[p]
  <2>1. CASE i = 0
    BY <1>0, <2>1 DEF NodeAt, Links
  <2>2. CASE i # 0
    <3>1. i \in 1 .. Len(q) /\ p = q[i] /\ p # NIL
      BY <1>0, <2>2 DEF NodeAt
    <3> QED
      BY <3>1, <1>0 DEF Links
  <2> QED
    BY <2>1, <2>2
<1> HIDE DEF x
<1>3. InsertedPointers(s, l, p, n, x, r)
  BY <1>0, <1>1, <1>2, PointersAfterInsert
<1>4. Inserted(q, i, n, t)
  BY <1>0, InsertedList
<1>x. x = NodeAt(q, i + 1)
  BY DEF x
<1> HIDE DEF r, t
<1>5. Links(r, l, t)
  BY <1>0, <1>3, <1>4, <1>x, InsertLinks
<1>6. t \in Seq(Node) /\ Distinct(t) /\ \A y : In(t, y) <=> y = n \/ In(q, y)
  BY <1>4 DEF Inserted
<1>7. /\ M \in [List -> Seq(Node)] /\ M[l] = t
      /\ \A m \in List : m # l => M[m] = L[m]
  BY <1>0, <1>6
<1>8. ASSUME NEW m \in List, m # l
      PROVE  Links(r, m, L[m])
  <2>1. ~ In(L[m], p) /\ ~ In(L[m], x) /\ ~ In(L[m], n)
    BY <1>0, <1>x, <1>8, NotInOther
  <2> HIDE DEF p
  <2> QED
    BY <2>1, <1>0, <1>3, <1>8, OthersAfterInsert
<1> HIDE DEF M, p
<1>9. \A m \in List : Distinct(M[m]) /\ Links(r, m, M[m])
  <2>1. TAKE m \in List
  <2>2. CASE m = l
    BY <2>2, <1>5, <1>6, <1>7
  <2>3. CASE m # l
    BY <2>3, <1>0, <1>7, <1>8
  <2> QED
    BY <2>2, <2>3
<1>10. Disjoint(M)
  <2> SUFFICES ASSUME NEW a \in List, NEW b \in List, NEW y \in Node, In(M[a], y), In(M[b], y)
               PROVE  a = b
    BY DEF Disjoint
  <2>1. ASSUME NEW m \in List, In(M[m], y)
        PROVE  IF y = n THEN m = l ELSE In(L[m], y)
    <3>1. CASE m = l
      BY <3>1, <2>1, <1>6, <1>7
    <3>2. CASE m # l
      BY <3>2, <2>1, <1>7
    <3> QED
      BY <3>1, <3>2
  <2>2. (IF y = n THEN a = l ELSE In(L[a], y)) /\ (IF y = n THEN b = l ELSE In(L[b], y))
    BY <2>1
  <2> QED
    BY <2>2, <1>0 DEF Disjoint
<1>11. r \in Pointers
  BY <1>3 DEF InsertedPointers
<1>12. Represents(r, M)
  BY <1>7, <1>9, <1>10, <1>11 DEF Represents
<1> QED
  BY <1>12 DEF r, p, M, t

LEMMA RemoveRepresents ==
  ASSUME NEW s, NEW L, Represents(s, L), NEW l \in List, NEW k \in 1 .. Len(L[l])
  PROVE  Represents(remove(s, l, L[l][k]), [L EXCEPT ![l] = Seqs!dlist_remove(L[l], L[l][k])])
<1> DEFINE q == L[l]
           p == NodeAt(q, k - 1)
           x == NodeAt(q, k + 1)
           r == remove(s, l, q[k])
           t == Seqs!dlist_remove(q, q[k])
           M == [L EXCEPT ![l] = t]
<1>0. /\ s \in Pointers /\ L \in [List -> Seq(Node)] /\ Disjoint(L) /\ NIL \notin Node
      /\ \A m \in List : L[m] \in Seq(Node) /\ Distinct(L[m]) /\ Links(s, m, L[m])
      /\ q \in Seq(Node) /\ Distinct(q) /\ Links(s, l, q) /\ Len(q) \in Nat
      /\ q[k] \in Node /\ k \in Int
  BY DListAssumption DEF Represents
<1>1. p = s.previous[q[k]] /\ x = s.next[q[k]]
  BY <1>0 DEF Links
<1> HIDE DEF p, x
<1>2. RemovedPointers(s, l, p, x, r)
  BY <1>0, <1>1, PointersAfterRemove
<1>3. Removed(q, k, t)
  BY <1>0, RemovedList
<1>x. p = NodeAt(q, k - 1) /\ x = NodeAt(q, k + 1)
  BY DEF p, x
<1> HIDE DEF r, t
<1>5. Links(r, l, t)
  BY <1>0, <1>2, <1>3, <1>x, RemoveLinks
<1>6. t \in Seq(Node) /\ Distinct(t) /\ \A y : In(t, y) <=> In(q, y) /\ y # q[k]
  BY <1>3 DEF Removed
<1>7. /\ M \in [List -> Seq(Node)] /\ M[l] = t
      /\ \A m \in List : m # l => M[m] = L[m]
  BY <1>0, <1>6
<1>8. ASSUME NEW m \in List, m # l
      PROVE  Links(r, m, L[m])
  <2>0. k - 1 \in Int /\ k + 1 \in Int
    BY <1>0
  <2>1. ~ In(L[m], p) /\ ~ In(L[m], x)
    BY <2>0, <1>0, <1>x, <1>8, NotInOther
  <2> QED
    BY <2>1, <1>0, <1>2, <1>8, OthersAfterRemove
<1> HIDE DEF M
<1>9. \A m \in List : Distinct(M[m]) /\ Links(r, m, M[m])
  <2>1. TAKE m \in List
  <2>2. CASE m = l
    BY <2>2, <1>5, <1>6, <1>7
  <2>3. CASE m # l
    BY <2>3, <1>0, <1>7, <1>8
  <2> QED
    BY <2>2, <2>3
<1>10. Disjoint(M)
  <2> SUFFICES ASSUME NEW a \in List, NEW b \in List, NEW y \in Node, In(M[a], y), In(M[b], y)
               PROVE  a = b
    BY DEF Disjoint
  <2>1. ASSUME NEW m \in List, In(M[m], y)
        PROVE  In(L[m], y)
    <3>1. CASE m = l
      BY <3>1, <2>1, <1>6, <1>7
    <3>2. CASE m # l
      BY <3>2, <2>1, <1>7
    <3> QED
      BY <3>1, <3>2
  <2>2. In(L[a], y) /\ In(L[b], y)
    BY <2>1
  <2> QED
    BY <2>2, <1>0 DEF Disjoint
<1>11. r \in Pointers
  BY <1>2 DEF RemovedPointers
<1>12. Represents(r, M)
  BY <1>7, <1>9, <1>10, <1>11 DEF Represents
<1> QED
  BY <1>12 DEF r, M, t

-----------------------------------------------------------------------------
\* The next pointers lead through the list.
LEMMA ListFits ==
  ASSUME NEW q \in Seq(Node), Distinct(q)
  PROVE  Cardinality(Node) \in Nat /\ Len(q) <= Cardinality(Node)
<1>1. q \in Injection(1 .. Len(q), Node)
  BY DEF Injection, IsInjective, Distinct
<1>2. IsFiniteSet(Node) /\ Len(q) \in Nat /\ 1 \in Int
  BY DListAssumption
<1>3. Cardinality(1 .. Len(q)) = Len(q)
  <2>1. \A n \in Nat : Cardinality(1 .. n) = n
    BY FS_Interval
  <2> QED
    BY <2>1, <1>2
<1>4. Cardinality(1 .. Len(q)) <= Cardinality(Node)
  BY <1>1, <1>2, FS_Injection
<1>5. Cardinality(Node) \in Nat
  BY <1>2, FS_CardinalityType
<1> QED
  BY <1>3, <1>4, <1>5

LEMMA NodesFromIs ==
  ASSUME NEW s \in Pointers, NEW l \in List, NEW q \in Seq(Node), Distinct(q), Links(s, l, q)
  PROVE  NodesFrom(s.head[l], s.next) = q
<1> DEFINE first == s.head[l]
           ptr == s.next
           N == 1 .. Cardinality(Node) + 1
           at[i \in N] == IF i = 1 THEN first ELSE IF at[i - 1] = NIL THEN NIL ELSE ptr[at[i - 1]]
           w == [i \in N |-> NodeAt(q, i)]
<1>0. /\ Len(q) \in Nat /\ NIL \notin Node /\ Cardinality(Node) \in Nat
      /\ Len(q) <= Cardinality(Node)
      /\ \A i \in 1 .. Len(q) : q[i] \in Node
  BY ListFits, DListAssumption
<1>1. NodesFrom(first, ptr) = [i \in {i \in N : at[i] # NIL} |-> at[i]]
  BY DEF NodesFrom
<1>2. first = NodeAt(q, 1)
  BY DEF Links
<1>3. \A i \in N : i # 1 =>
        NodeAt(q, i) = IF NodeAt(q, i - 1) = NIL THEN NIL ELSE ptr[NodeAt(q, i - 1)]
  <2>1. TAKE i \in N
  <2>2. HAVE i # 1
  <2>3. CASE i - 1 \in 1 .. Len(q)
    <3>1. NodeAt(q, i - 1) = q[i - 1] /\ q[i - 1] # NIL
      BY <2>3, <1>0 DEF NodeAt
    <3>2. ptr[q[i - 1]] = NodeAt(q, (i - 1) + 1)
      BY <2>3 DEF Links
    <3>3. (i - 1) + 1 = i
      BY <1>0
    <3> QED
      BY <3>1, <3>2, <3>3
  <2>4. CASE i - 1 \notin 1 .. Len(q)
    BY <2>1, <2>2, <2>4, <1>0 DEF NodeAt
  <2> QED
    BY <2>3, <2>4
<1> HIDE DEF first, ptr
<1>4. w = [i \in N |-> IF i = 1 THEN first ELSE IF w[i - 1] = NIL THEN NIL ELSE ptr[w[i - 1]]]
  <2>1. \A i \in N : i # 1 => i - 1 \in N
    BY <1>0
  <2>2. \A i \in N : w[i] = IF i = 1 THEN first ELSE IF w[i - 1] = NIL THEN NIL ELSE ptr[w[i - 1]]
    BY <2>1, <1>2, <1>3
  <2> QED
    BY <2>2
<1> HIDE DEF w
<1>5. at = [i \in N |-> IF i = 1 THEN first ELSE IF at[i - 1] = NIL THEN NIL ELSE ptr[at[i - 1]]]
  BY <1>4
<1> HIDE DEF at
<1>6. \A i \in Nat : i + 1 \in N => at[i + 1] = NodeAt(q, i + 1)
  <2> DEFINE S == {i \in Nat : i + 1 \in N => at[i + 1] = NodeAt(q, i + 1)}
  <2>1. 0 \in S
    BY <1>0, <1>2, <1>5
  <2>2. ASSUME NEW i \in Nat, i \in S
        PROVE  i + 1 \in S
    <3> SUFFICES ASSUME (i + 1) + 1 \in N PROVE at[(i + 1) + 1] = NodeAt(q, (i + 1) + 1)
      OBVIOUS
    <3> DEFINE j == (i + 1) + 1
    <3>1. i + 1 \in N /\ j # 1 /\ j - 1 = i + 1
      BY <1>0
    <3>2. at[i + 1] = NodeAt(q, i + 1)
      BY <2>2, <3>1
    <3>3. j \in N
      OBVIOUS
    <3> HIDE DEF j
    <3>4. at[j] = IF at[j - 1] = NIL THEN NIL ELSE ptr[at[j - 1]]
      BY <3>1, <3>3, <1>5
    <3>5. at[j] = NodeAt(q, j)
      BY <3>1, <3>2, <3>3, <3>4, <1>3
    <3> QED
      BY <3>5 DEF j
  <2> HIDE DEF S
  <2>3. \A i \in Nat : i \in S
    BY <2>1, <2>2, Induction
  <2> QED
    BY <2>3 DEF S
<1>7. \A i \in N : at[i] = NodeAt(q, i)
  <2>1. TAKE i \in N
  <2>2. i - 1 \in Nat /\ (i - 1) + 1 = i
    BY <1>0
  <2> QED
    BY <2>2, <1>6
<1>8. {i \in N : at[i] # NIL} = 1 .. Len(q)
  BY <1>0, <1>7 DEF NodeAt
<1>9. \A i \in 1 .. Len(q) : at[i] = q[i]
  BY <1>0, <1>7 DEF NodeAt
<1>10. NodesFrom(first, ptr) = [i \in 1 .. Len(q) |-> q[i]]
  <2> HIDE DEF N
  <2> QED
    BY <1>1, <1>8, <1>9
<1>11. q = [i \in 1 .. Len(q) |-> q[i]]
  OBVIOUS
<1> QED
  BY <1>10, <1>11 DEF first, ptr

\* The lists that the pointers s make.
ListsOf(s) == [l \in List |-> NodesFrom(s.head[l], s.next)]

LEMMA ListsAre ==
  ASSUME NEW s, NEW L, Represents(s, L)
  PROVE  ListsOf(s) = L
<1>1. \A l \in List : NodesFrom(s.head[l], s.next) = L[l]
  BY NodesFromIs DEF Represents
<1>2. L = [l \in List |-> L[l]]
  BY DEF Represents
<1> QED
  BY <1>1, <1>2 DEF ListsOf

\* Every list is the sequence that its next pointers lead through, and the
\* previous pointers and the tail are those of this sequence.
Sound(s) == Represents(s, ListsOf(s))

LEMMA SoundIs ==
  ASSUME NEW s, NEW L, Represents(s, L)
  PROVE  Sound(s) /\ ListsOf(s) = L
BY ListsAre DEF Sound

LEMMA InitSound ==
  dlistInit => Sound(ptrs) /\ ListsOf(ptrs) = [l \in List |-> << >>]
<1> SUFFICES ASSUME dlistInit PROVE Represents(ptrs, [l \in List |-> << >>])
  BY SoundIs
<1> DEFINE L == [l \in List |-> << >>]
<1>1. ptrs \in Pointers
  BY DEF dlistInit, Pointers
<1>2. << >> \in Seq(Node) /\ Len(<< >>) = 0 /\ 1 .. 0 = {}
  OBVIOUS
<1>3. L \in [List -> Seq(Node)] /\ \A l \in List : L[l] = << >>
  BY <1>2
<1> HIDE DEF L
<1>4. ASSUME NEW l \in List
      PROVE  Distinct(L[l]) /\ Links(ptrs, l, L[l])
  <2>1. Distinct(<< >>)
    BY <1>2 DEF Distinct
  <2>2. ptrs.head[l] = NIL /\ ptrs.tail[l] = NIL
    BY DEF dlistInit
  <2>3. Links(ptrs, l, << >>)
    BY <1>2, <2>2 DEF Links, NodeAt
  <2> QED
    BY <1>3, <2>1, <2>3
<1>5. Disjoint(L)
  BY <1>2, <1>3 DEF Disjoint, In
<1>6. Represents(ptrs, L)
  BY <1>1, <1>3, <1>4, <1>5 DEF Represents
<1> QED
  BY <1>6 DEF L

\* What Represents says of a list.
LEMMA SoundSays ==
  ASSUME NEW s, Sound(s), NEW l \in List
  PROVE  /\ ListsOf(s)[l] \in Seq(Node) /\ Len(ListsOf(s)[l]) \in Nat
         /\ Distinct(ListsOf(s)[l]) /\ Links(s, l, ListsOf(s)[l])
         /\ ListsOf(s) \in [List -> Seq(Node)]
<1> DEFINE L == ListsOf(s)
<1>1. Represents(s, L)
  BY DEF Sound
<1> HIDE DEF L
<1>2. L[l] \in Seq(Node) /\ Distinct(L[l]) /\ Links(s, l, L[l]) /\ L \in [List -> Seq(Node)]
  BY <1>1 DEF Represents
<1>3. Len(L[l]) \in Nat
  BY <1>2
<1> QED
  BY <1>2, <1>3 DEF L

-----------------------------------------------------------------------------
\* The calls, on the pointers of a state and on the sequences that they make.
\* InsertsAt(s, l, i, n, r): r are sound, and n is behind the i-th node of l.
InsertsAt(s, l, i, n, r) ==
  Sound(r) /\ ListsOf(r) = [ListsOf(s) EXCEPT ![l] = Seqs!dlist_insert(@, i, n)]

Takes(s, l, n, r) ==
  Sound(r) /\ ListsOf(r) = [ListsOf(s) EXCEPT ![l] = Seqs!dlist_remove(@, n)]

LEMMA InsertIs ==
  ASSUME NEW s, Sound(s), NEW l \in List, NEW i \in 0 .. Len(ListsOf(s)[l]), NEW n \in Node,
         \A m \in List : ~ In(ListsOf(s)[m], n)
  PROVE  InsertsAt(s, l, i, n, insert(s, l, NodeAt(ListsOf(s)[l], i), n))
<1> DEFINE L == ListsOf(s)
           r == insert(s, l, NodeAt(L[l], i), n)
<1>1. Represents(s, L)
  BY DEF Sound
<1>2. L = ListsOf(s)
  OBVIOUS
<1> HIDE DEF L
<1>3. Represents(r, [L EXCEPT ![l] = Seqs!dlist_insert(L[l], i, n)])
  BY <1>1, <1>2, InsertRepresents
<1> HIDE DEF r
<1>4. InsertsAt(s, l, i, n, r)
  BY <1>2, <1>3, SoundIs DEF InsertsAt
<1> QED
  BY <1>4 DEF r, L

LEMMA RemoveIs ==
  ASSUME NEW s, Sound(s), NEW l \in List, NEW n, In(ListsOf(s)[l], n)
  PROVE  Takes(s, l, n, remove(s, l, n))
<1> DEFINE L == ListsOf(s)
           r == remove(s, l, n)
<1>1. Represents(s, L)
  BY DEF Sound
<1>2. PICK k \in 1 .. Len(L[l]) : L[l][k] = n
  BY DEF In
<1>3. L = ListsOf(s)
  OBVIOUS
<1> HIDE DEF L
<1>4. Represents(remove(s, l, L[l][k]), [L EXCEPT ![l] = Seqs!dlist_remove(L[l], L[l][k])])
  BY <1>1, <1>2, RemoveRepresents
<1>5. Represents(r, [L EXCEPT ![l] = Seqs!dlist_remove(L[l], n)])
  BY <1>2, <1>4
<1> HIDE DEF r
<1>6. Takes(s, l, n, r)
  BY <1>3, <1>5, SoundIs DEF Takes
<1> QED
  BY <1>6 DEF r

\* dlist_add inserts behind the last node.
LEMMA AppendIs ==
  ASSUME NEW q \in Seq(Node), NEW n \in Node
  PROVE  Seqs!dlist_insert(q, Len(q), n) = Append(q, n)
<1> DEFINE t == Seqs!dlist_insert(q, Len(q), n)
<1>1. Len(q) \in Nat
  OBVIOUS
<1>2. \A j \in 1 .. Len(q) + 1 :
        (IF j <= Len(q) THEN q[j] ELSE IF j = Len(q) + 1 THEN n ELSE q[j - 1])
          = IF j = Len(q) + 1 THEN n ELSE q[j]
  BY <1>1
<1>3. t = [j \in 1 .. Len(q) + 1 |-> IF j = Len(q) + 1 THEN n ELSE q[j]]
  BY <1>2 DEF Seqs!dlist_insert
<1>4. \A j \in 1 .. Len(q) + 1 : (IF j = Len(q) + 1 THEN n ELSE q[j]) \in Node
  BY <1>1
<1> HIDE DEF t
<1>5. /\ t \in Seq(Node) /\ Len(t) = Len(q) + 1
      /\ \A j \in 1 .. Len(q) + 1 : t[j] = IF j = Len(q) + 1 THEN n ELSE q[j]
  BY <1>1, <1>3, <1>4
<1>6. /\ Append(q, n) \in Seq(Node) /\ Len(Append(q, n)) = Len(q) + 1
      /\ \A j \in 1 .. Len(q) + 1 : Append(q, n)[j] = IF j = Len(q) + 1 THEN n ELSE q[j]
  BY <1>1
<1>7. t = Append(q, n)
  BY <1>5, <1>6, SeqEqual
<1> QED
  BY <1>7 DEF t

LEMMA AddIs ==
  ASSUME NEW s, Sound(s), NEW l \in List, NEW n \in Node,
         \A m \in List : ~ In(ListsOf(s)[m], n)
  PROVE  /\ InsertsAt(s, l, Len(ListsOf(s)[l]), n, add(s, l, n))
         /\ ListsOf(add(s, l, n)) = [ListsOf(s) EXCEPT ![l] = Append(@, n)]
<1> DEFINE q == ListsOf(s)[l]
<1>1. q \in Seq(Node) /\ Len(q) \in Nat /\ Links(s, l, q)
  BY SoundSays
<1>2. s.tail[l] = NodeAt(q, Len(q))
  BY <1>1 DEF Links
<1>3. add(s, l, n) = insert(s, l, NodeAt(q, Len(q)), n)
  BY <1>2 DEF add
<1>4. Len(q) \in 0 .. Len(q)
  BY <1>1
<1>5. InsertsAt(s, l, Len(q), n, add(s, l, n))
  BY <1>3, <1>4, InsertIs
<1>6. Seqs!dlist_insert(q, Len(q), n) = Append(q, n)
  BY <1>1, AppendIs
<1> QED
  BY <1>5, <1>6 DEF InsertsAt

\* dlist_get removes the first node.
LEMMA GetIs ==
  ASSUME NEW s, Sound(s), NEW l \in List, s.head[l] # NIL
  PROVE  /\ ~ Seqs!DL_EMPTY(ListsOf(s)[l])
         /\ Sound(get(s, l))
         /\ ListsOf(get(s, l)) = [ListsOf(s) EXCEPT ![l] = Seqs!dlist_rest(@)]
<1> DEFINE q == ListsOf(s)[l]
<1>1. q \in Seq(Node) /\ Len(q) \in Nat /\ Distinct(q) /\ Links(s, l, q)
  BY SoundSays
<1>2. get(s, l) = remove(s, l, s.head[l]) /\ q # << >> /\ s.head[l] = q[1]
  BY <1>1, GetIsRemove
<1>3. Len(q) # 0 /\ 1 \in 1 .. Len(q)
  BY <1>1, <1>2
<1>4. In(q, s.head[l])
  BY <1>2, <1>3 DEF In
<1>5. Takes(s, l, s.head[l], get(s, l))
  BY <1>2, <1>4, RemoveIs
<1>6. Seqs!dlist_rest(q) = Seqs!dlist_remove(q, s.head[l])
  BY <1>1, <1>2, RestIsRemoved
<1> QED
  BY <1>3, <1>5, <1>6 DEF Takes, Seqs!DL_EMPTY

-----------------------------------------------------------------------------
(* The steps.                                                              *)

LEMMA ListsAreForward ==
  /\ [l \in List |-> Forward(l)] = ListsOf(ptrs)
  /\ [l \in List |-> Forward(l)]' = ListsOf(ptrs')
BY DEF Forward, ListsOf

\* A walk that runs: it saw the first k nodes of its list.
Runs(l, first, k) ==
  /\ l \in List /\ first \in Seq(Node) /\ k \in 0 .. Len(first)
  /\ walk.list = l /\ walk.first = first /\ walk.seen = SubSeq(first, 1, k)
  /\ IF walk.moved = NIL
     THEN first = ListsOf(ptrs)[l] /\ walk.at = NodeAt(first, k + 1)
     ELSE walk.at = NIL /\ k > 0 /\ walk.moved = first[k]

Walks == [list : List \cup {NIL}, at : Node \cup {NIL}, seen : Seq(Node), first : Seq(Node),
          moved : Node \cup {NIL}]

\* What the walk is, between two steps.
WalkInv == walk \in Walks /\ (walk # NoWalk => \E l, first, k : Runs(l, first, k))

\* The inductive invariant.
DListInv == Sound(ptrs) /\ WalkInv

\* What the guards of the calls say of the sequences.
LEMMA GuardsSay ==
  ASSUME Sound(ptrs), NEW n
  PROVE  /\ \A l \in List : Linked(l, n) <=> In(ListsOf(ptrs)[l], n)
         /\ Unlinked(n) <=> \A l \in List : ~ In(ListsOf(ptrs)[l], n)
BY DEF Linked, Unlinked, In, ListsOf, Forward

\* What the abstract operations say, with the lists named.
SeqsInsert(L, M, l, i, n) ==
  /\ \A m \in List : ~ In(L[m], n)
  /\ M = [L EXCEPT ![l] = Seqs!dlist_insert(@, i, n)]

SeqsRemove(L, M, l, n) ==
  In(L[l], n) /\ M = [L EXCEPT ![l] = Seqs!dlist_remove(@, n)]

SeqsGet(L, M, l) ==
  ~ Seqs!DL_EMPTY(L[l]) /\ M = [L EXCEPT ![l] = Seqs!dlist_rest(@)]

SeqsMove(L, M, l, m, n) ==
  /\ l # m /\ In(L[l], n)
  /\ M = [L EXCEPT ![l] = Seqs!dlist_remove(@, n), ![m] = Append(@, n)]

LEMMA SeqsSteps ==
  ASSUME NEW l \in List
  PROVE  /\ \A n, i : SeqsInsert(ListsOf(ptrs), ListsOf(ptrs'), l, i, n) => Seqs!Insert(l, i, n)
         /\ \A n : SeqsRemove(ListsOf(ptrs), ListsOf(ptrs'), l, n) => Seqs!Remove(l, n)
         /\ SeqsGet(ListsOf(ptrs), ListsOf(ptrs'), l) => Seqs!Get(l)
         /\ \A m, n : SeqsMove(ListsOf(ptrs), ListsOf(ptrs'), l, m, n) => Seqs!Move(l, m, n)
<1> DEFINE L == [k \in List |-> Forward(k)]
<1>1. L = ListsOf(ptrs) /\ L' = ListsOf(ptrs')
  BY ListsAreForward
<1>2. \A k \in List : \A n : Seqs!dlist_check(L[k], n) <=> In(L[k], n)
  BY DEF Seqs!dlist_check, In
<1>3. ASSUME NEW n, NEW i, SeqsInsert(L, L', l, i, n)
      PROVE  Seqs!Insert(l, i, n)
  <2> HIDE DEF L
  <2>1. /\ \A k \in List : ~ Seqs!dlist_check(L[k], n)
        /\ L' = [L EXCEPT ![l] = Seqs!dlist_insert(@, i, n)]
    BY <1>2, <1>3 DEF SeqsInsert
  <2> QED
    BY <2>1 DEF L, Seqs!Insert, Seqs!Unlinked
<1>4. ASSUME NEW n, SeqsRemove(L, L', l, n)
      PROVE  Seqs!Remove(l, n)
  <2> HIDE DEF L
  <2>1. Seqs!dlist_check(L[l], n) /\ L' = [L EXCEPT ![l] = Seqs!dlist_remove(@, n)]
    BY <1>2, <1>4 DEF SeqsRemove
  <2> QED
    BY <2>1 DEF L, Seqs!Remove
<1>5. ASSUME SeqsGet(L, L', l)
      PROVE  Seqs!Get(l)
  BY <1>5 DEF SeqsGet, Seqs!Get
<1>6. ASSUME NEW m, NEW n, SeqsMove(L, L', l, m, n)
      PROVE  Seqs!Move(l, m, n)
  <2> HIDE DEF L
  <2>1. /\ l # m /\ Seqs!dlist_check(L[l], n)
        /\ L' = [L EXCEPT ![l] = Seqs!dlist_remove(@, n), ![m] = Append(@, n)]
    BY <1>2, <1>6 DEF SeqsMove
  <2> QED
    BY <2>1 DEF L, Seqs!Move, Seqs!dlist_add
<1> HIDE DEF L
<1> QED
  BY <1>1, <1>3, <1>4, <1>5, <1>6

\* The step of a call is a step of SeqLists and keeps the pointers sound.
Implements == Sound(ptrs') /\ Seqs!Next

LEMMA InsertStep ==
  ASSUME Sound(ptrs), NEW l \in List, NEW p \in Node \cup {NIL}, NEW n \in Node, Insert(l, p, n)
  PROVE  Implements
<1> DEFINE q == ListsOf(ptrs)[l]
<1>1. q \in Seq(Node) /\ Len(q) \in Nat /\ NIL \notin Node
  BY SoundSays, DListAssumption
<1>2. \A m \in List : ~ In(ListsOf(ptrs)[m], n)
  BY GuardsSay DEF Insert
<1>3. \E i \in 0 .. Len(q) : p = NodeAt(q, i)
  <2>1. CASE p = NIL
    <3>1. 0 \in 0 .. Len(q) /\ p = NodeAt(q, 0)
      BY <1>1, <2>1 DEF NodeAt
    <3> QED
      BY <3>1
  <2>2. CASE p # NIL
    <3>1. In(q, p)
      BY <2>2, GuardsSay DEF Insert
    <3>2. PICK i \in 1 .. Len(q) : q[i] = p
      BY <3>1 DEF In
    <3>3. i \in 0 .. Len(q) /\ p = NodeAt(q, i)
      BY <3>2, <1>1 DEF NodeAt
    <3> QED
      BY <3>3
  <2> QED
    BY <2>1, <2>2
<1>4. PICK i \in 0 .. Len(q) : p = NodeAt(q, i)
  BY <1>3
<1>5. InsertsAt(ptrs, l, i, n, insert(ptrs, l, NodeAt(q, i), n))
  BY <1>2, InsertIs
<1>6. ptrs' = insert(ptrs, l, NodeAt(q, i), n)
  BY <1>4 DEF Insert
<1>7. Sound(ptrs') /\ SeqsInsert(ListsOf(ptrs), ListsOf(ptrs'), l, i, n)
  BY <1>2, <1>5, <1>6 DEF InsertsAt, SeqsInsert
<1>8. Seqs!Insert(l, i, n)
  BY <1>7, SeqsSteps
<1>9. q = [k \in List |-> Forward(k)][l]
  BY ListsAreForward
<1> HIDE DEF q
<1> QED
  BY <1>7, <1>8, <1>9 DEF Implements, Seqs!Next

LEMMA AddStep ==
  ASSUME Sound(ptrs), NEW l \in List, NEW n \in Node, Add(l, n)
  PROVE  Implements
<1> DEFINE q == ListsOf(ptrs)[l]
<1>1. q \in Seq(Node) /\ Len(q) \in 0 .. Len(q)
  BY SoundSays
<1>2. \A m \in List : ~ In(ListsOf(ptrs)[m], n)
  BY GuardsSay DEF Add
<1>3. InsertsAt(ptrs, l, Len(q), n, add(ptrs, l, n))
  BY <1>2, AddIs
<1>4. Sound(ptrs') /\ SeqsInsert(ListsOf(ptrs), ListsOf(ptrs'), l, Len(q), n)
  BY <1>2, <1>3 DEF Add, InsertsAt, SeqsInsert
<1>5. Seqs!Insert(l, Len(q), n)
  BY <1>4, SeqsSteps
<1>6. q = [k \in List |-> Forward(k)][l]
  BY ListsAreForward
<1> HIDE DEF q
<1> QED
  BY <1>1, <1>4, <1>5, <1>6 DEF Implements, Seqs!Next

LEMMA RemoveStep ==
  ASSUME Sound(ptrs), NEW l \in List, NEW n \in Node, Remove(l, n)
  PROVE  Implements
<1>1. In(ListsOf(ptrs)[l], n)
  BY GuardsSay DEF Remove
<1>2. Takes(ptrs, l, n, ptrs')
  BY <1>1, RemoveIs DEF Remove
<1>3. Sound(ptrs') /\ SeqsRemove(ListsOf(ptrs), ListsOf(ptrs'), l, n)
  BY <1>1, <1>2 DEF Takes, SeqsRemove
<1>4. Seqs!Remove(l, n)
  BY <1>3, SeqsSteps
<1> QED
  BY <1>3, <1>4 DEF Implements, Seqs!Next

LEMMA GetStep ==
  ASSUME Sound(ptrs), NEW l \in List, Get(l)
  PROVE  Implements
<1>1. Sound(ptrs') /\ SeqsGet(ListsOf(ptrs), ListsOf(ptrs'), l)
  BY GetIs DEF Get, SeqsGet
<1>2. Seqs!Get(l)
  BY <1>1, SeqsSteps
<1> QED
  BY <1>1, <1>2 DEF Implements, Seqs!Next

\* wait_to_ready and _delay_to_ready: dlist_remove, then dlist_add to another list.
Moves(s, l, m, n, r) ==
  /\ Sound(r)
  /\ ListsOf(r) = [ListsOf(s) EXCEPT ![l] = Seqs!dlist_remove(@, n), ![m] = Append(@, n)]
  /\ r.next[n] = NIL

LEMMA MoveIs ==
  ASSUME NEW s, Sound(s), NEW l \in List, NEW m \in List, l # m, NEW n \in Node,
         In(ListsOf(s)[l], n)
  PROVE  Moves(s, l, m, n, add(remove(s, l, n), m, n))
<1> DEFINE L == ListsOf(s)
           s1 == remove(s, l, n)
           L1 == ListsOf(s1)
           r == add(s1, m, n)
<1>0. /\ L \in [List -> Seq(Node)] /\ Distinct(L[l]) /\ L[l] \in Seq(Node) /\ Disjoint(L)
      /\ L[m] \in Seq(Node)
  BY SoundSays DEF Sound, Represents
<1>1. Sound(s1) /\ L1 = [L EXCEPT ![l] = Seqs!dlist_remove(@, n)]
  BY RemoveIs DEF Takes
<1>2. PICK k \in 1 .. Len(L[l]) : L[l][k] = n
  BY DEF In
<1> HIDE DEF L
<1>3. Removed(L[l], k, Seqs!dlist_remove(L[l], L[l][k]))
  BY <1>0, RemovedList
<1>4. ~ In(Seqs!dlist_remove(L[l], n), n)
  BY <1>2, <1>3 DEF Removed
<1>12. L1 = ListsOf(s1)
  OBVIOUS
<1> HIDE DEF s1, L1
<1>5. \A j \in List : ~ In(L1[j], n)
  <2>1. TAKE j \in List
  <2>2. CASE j = l
    BY <2>2, <1>0, <1>1, <1>4
  <2>3. CASE j # l
    <3>1. L1[j] = L[j]
      BY <2>3, <1>0, <1>1
    <3>2. In(L[l], n)
      BY DEF L
    <3> QED
      BY <3>1, <3>2, <2>3, <1>0 DEF Disjoint
  <2> QED
    BY <2>2, <2>3
<1>13. \A j \in List : ~ In(ListsOf(s1)[j], n)
  BY <1>5, <1>12
<1>14. /\ InsertsAt(s1, m, Len(ListsOf(s1)[m]), n, r)
       /\ ListsOf(r) = [ListsOf(s1) EXCEPT ![m] = Append(@, n)]
  BY <1>1, <1>13, AddIs
<1>6. InsertsAt(s1, m, Len(L1[m]), n, r) /\ ListsOf(r) = [L1 EXCEPT ![m] = Append(@, n)]
  BY <1>12, <1>14
<1>7. Sound(r)
  BY <1>6 DEF InsertsAt
<1>8. L1[m] = L[m] /\ L1[l] = Seqs!dlist_remove(L[l], n)
  BY <1>0, <1>1
<1>9. ListsOf(r) = [L EXCEPT ![l] = Seqs!dlist_remove(@, n), ![m] = Append(@, n)]
  BY <1>0, <1>1, <1>6
<1>10. r.next[n] = NIL
  <2> DEFINE t == Append(L[m], n)
  <2>1. ListsOf(r)[m] = t
    BY <1>0, <1>9
  <2>2. Links(r, m, t)
    BY <1>7, <2>1, SoundSays
  <2>3. Len(t) \in 1 .. Len(t) /\ t[Len(t)] = n /\ Len(t) + 1 \notin 1 .. Len(t)
    BY <1>0
  <2> HIDE DEF t
  <2> QED
    BY <2>2, <2>3 DEF Links, NodeAt
<1>11. Moves(s, l, m, n, r)
  BY <1>7, <1>9, <1>10 DEF Moves, L
<1> QED
  BY <1>11 DEF r, s1

-----------------------------------------------------------------------------
\* The walk.
LEMMA NoWalkTyped == NoWalk \in Walks
BY DEF NoWalk, Walks

LEMMA StillNoWalk == walk = NoWalk /\ UNCHANGED walk => WalkInv'
BY NoWalkTyped DEF WalkInv

LEMMA EachBeginStep ==
  ASSUME Sound(ptrs), NEW l \in List, EachBegin(l)
  PROVE  WalkInv'
<1>0. PICK q : q = ListsOf(ptrs)[l]
  OBVIOUS
<1>1. q \in Seq(Node) /\ Len(q) \in Nat /\ Links(ptrs, l, q)
  BY <1>0, SoundSays
<1>2. Forward(l) = q
  BY <1>0, ListsAreForward
<1>3. ptrs.head[l] = NodeAt(q, 1) /\ ptrs.head[l] \in Node \cup {NIL}
  BY <1>1 DEF Links, NodeAt
<1>4. << >> = SubSeq(q, 1, 0) /\ << >> \in Seq(Node) /\ 0 \in 0 .. Len(q) /\ 0 + 1 = 1
  BY <1>1
<1>5. ptrs' = ptrs
  BY DEF EachBegin
<1>6. walk' = [list |-> l, at |-> ptrs.head[l], seen |-> << >>, first |-> q, moved |-> NIL]
  BY <1>2 DEF EachBegin
<1>7. walk'.list = l /\ walk'.at = ptrs.head[l] /\ walk'.seen = << >> /\ walk'.first = q
      /\ walk'.moved = NIL
  BY <1>6
<1>8. q = ListsOf(ptrs')[l]
  BY <1>0, <1>5
<1>9. Runs(l, q, 0)'
  BY <1>1, <1>3, <1>4, <1>7, <1>8 DEF Runs
<1> QED
  BY <1>1, <1>3, <1>4, <1>6, <1>9 DEF WalkInv, Walks

LEMMA EachEndStep ==
  ASSUME EachEnd
  PROVE  WalkInv'
BY NoWalkTyped DEF WalkInv, EachEnd

\* The node that a walk calls its routine for.
LEMMA WalkAt ==
  ASSUME WalkInv, walk.at # NIL
  PROVE  \E l \in List, first \in Seq(Node), k \in Nat :
           /\ Runs(l, first, k) /\ k + 1 \in 1 .. Len(first) /\ walk.at = first[k + 1]
           /\ walk.at \in Node /\ walk.moved = NIL /\ first = ListsOf(ptrs)[l]
<1>1. walk # NoWalk
  BY DEF NoWalk
<1>2. PICK l, first, k : Runs(l, first, k)
  BY <1>1 DEF WalkInv
<1>3. /\ l \in List /\ first \in Seq(Node) /\ Len(first) \in Nat /\ k \in Nat
      /\ walk.moved = NIL /\ first = ListsOf(ptrs)[l] /\ walk.at = NodeAt(first, k + 1)
  BY <1>2 DEF Runs
<1>4. k + 1 \in 1 .. Len(first) /\ walk.at = first[k + 1] /\ walk.at \in Node
  BY <1>3 DEF NodeAt
<1> QED
  BY <1>2, <1>3, <1>4

LEMMA EachNodeStep ==
  ASSUME DListInv, NEW m \in List \cup {NIL}, EachNode(m)
  PROVE  Sound(ptrs') /\ WalkInv' /\ (ptrs' = ptrs \/ Seqs!Next)
<1>1. PICK l \in List, first \in Seq(Node), k \in Nat :
        /\ Runs(l, first, k) /\ k + 1 \in 1 .. Len(first) /\ walk.at = first[k + 1]
        /\ walk.at \in Node /\ walk.moved = NIL /\ first = ListsOf(ptrs)[l]
  BY WalkAt DEF DListInv, EachNode
<1> DEFINE n == walk.at
<1>0. NIL \notin Node /\ NIL \notin List
  BY DListAssumption
<1>2. /\ walk.list = l /\ walk.first = first /\ walk.seen = SubSeq(first, 1, k)
  BY <1>1 DEF Runs
<1>9. walk \in Walks
  BY DEF DListInv, WalkInv
<1>3. /\ walk'.list = l /\ walk'.first = first /\ walk'.at = ptrs'.next[n]
      /\ walk'.seen = Append(walk.seen, n) /\ walk'.moved = IF m = NIL THEN NIL ELSE n
      /\ walk' = [list |-> l, at |-> walk'.at, seen |-> walk'.seen, first |-> first,
                  moved |-> walk'.moved]
  BY <1>1, <1>2, <1>9 DEF EachNode, Walks
<1>4. Append(SubSeq(first, 1, k), first[k + 1]) = SubSeq(first, 1, k + 1)
  BY <1>1
<1>5. walk'.seen = SubSeq(first, 1, k + 1) /\ walk'.seen \in Seq(Node)
  BY <1>1, <1>2, <1>3, <1>4
<1>6. Sound(ptrs) /\ Links(ptrs, l, first) /\ In(first, n) /\ k + 1 \in 0 .. Len(first)
  BY <1>1, SoundSays DEF DListInv, In
<1>7. CASE m = NIL
  <2>1. ptrs' = ptrs
    BY <1>7 DEF EachNode
  <2>2. walk'.at = NodeAt(first, k + 2) /\ (k + 1) + 1 = k + 2
    BY <2>1, <1>1, <1>3, <1>6 DEF Links
  <2>3. walk'.at \in Node \cup {NIL}
    BY <2>2 DEF NodeAt
  <2>4. first = ListsOf(ptrs')[l] /\ walk'.moved = NIL
    BY <2>1, <1>1, <1>3, <1>7
  <2>5. Runs(l, first, k + 1)'
    BY <2>2, <2>4, <1>3, <1>5, <1>6 DEF Runs
  <2>6. WalkInv'
    BY <2>3, <2>4, <2>5, <1>3, <1>5 DEF WalkInv, Walks
  <2> QED
    BY <2>1, <2>6, <1>6
<1>8. CASE m # NIL
  <2>1. m \in List /\ l # m /\ ptrs' = add(remove(ptrs, l, n), m, n)
    BY <1>2, <1>8 DEF EachNode
  <2>2. Moves(ptrs, l, m, n, ptrs')
    BY <2>1, <1>1, <1>6, MoveIs
  <2>3. Sound(ptrs') /\ SeqsMove(ListsOf(ptrs), ListsOf(ptrs'), l, m, n)
    BY <2>1, <2>2, <1>1, <1>6 DEF Moves, SeqsMove
  <2>4. Seqs!Move(l, m, n)
    BY <2>3, SeqsSteps
  <2>5. Seqs!Next
    BY <2>1, <2>4, <1>1 DEF Seqs!Next
  <2>6. walk'.at = NIL /\ walk'.moved = first[k + 1] /\ k + 1 > 0 /\ walk'.moved \in Node
    BY <2>2, <1>1, <1>3, <1>8 DEF Moves
  <2>7. Runs(l, first, k + 1)'
    BY <2>6, <1>0, <1>3, <1>5, <1>6 DEF Runs
  <2>8. WalkInv'
    BY <2>6, <2>7, <1>3, <1>5 DEF WalkInv, Walks
  <2> QED
    BY <2>3, <2>5, <2>8
<1> QED
  BY <1>7, <1>8

LEMMA DListStep ==
  DListInv /\ [dlistNext]_dlistVars => DListInv' /\ (UNCHANGED ptrs \/ Seqs!Next)
<1> SUFFICES ASSUME DListInv, [dlistNext]_dlistVars
             PROVE  Sound(ptrs') /\ WalkInv' /\ (ptrs' = ptrs \/ Seqs!Next)
  BY DEF DListInv
<1>0. Sound(ptrs) /\ WalkInv
  BY DEF DListInv
<1>1. ASSUME NEW l \in List, NEW n \in Node, NEW p \in Node \cup {NIL}, Insert(l, p, n)
      PROVE  Sound(ptrs') /\ WalkInv' /\ (ptrs' = ptrs \/ Seqs!Next)
  BY <1>0, <1>1, InsertStep, StillNoWalk DEF Implements, Insert
<1>2. ASSUME NEW l \in List, NEW n \in Node, Add(l, n)
      PROVE  Sound(ptrs') /\ WalkInv' /\ (ptrs' = ptrs \/ Seqs!Next)
  BY <1>0, <1>2, AddStep, StillNoWalk DEF Implements, Add
<1>3. ASSUME NEW l \in List, NEW n \in Node, Remove(l, n)
      PROVE  Sound(ptrs') /\ WalkInv' /\ (ptrs' = ptrs \/ Seqs!Next)
  BY <1>0, <1>3, RemoveStep, StillNoWalk DEF Implements, Remove
<1>4. ASSUME NEW l \in List, Get(l)
      PROVE  Sound(ptrs') /\ WalkInv' /\ (ptrs' = ptrs \/ Seqs!Next)
  BY <1>0, <1>4, GetStep, StillNoWalk DEF Implements, Get
<1>5. ASSUME NEW l \in List, EachBegin(l)
      PROVE  Sound(ptrs') /\ WalkInv' /\ (ptrs' = ptrs \/ Seqs!Next)
  <2>1. ptrs' = ptrs
    BY <1>5 DEF EachBegin
  <2> QED
    BY <1>0, <1>5, <2>1, EachBeginStep
<1>6. ASSUME NEW m \in List \cup {NIL}, EachNode(m)
      PROVE  Sound(ptrs') /\ WalkInv' /\ (ptrs' = ptrs \/ Seqs!Next)
  BY <1>6, EachNodeStep
<1>7. CASE EachEnd
  <2>1. ptrs' = ptrs
    BY <1>7 DEF EachEnd
  <2> QED
    BY <1>0, <1>7, <2>1, EachEndStep
<1>8. CASE UNCHANGED dlistVars
  <2>1. ptrs' = ptrs /\ walk' = walk
    BY <1>8 DEF dlistVars
  <2> QED
    BY <1>0, <2>1 DEF WalkInv, Runs
<1> QED
  BY <1>1, <1>2, <1>3, <1>4, <1>5, <1>6, <1>7, <1>8 DEF dlistNext

LEMMA DListInit == dlistInit => DListInv /\ Seqs!Init
<1> SUFFICES ASSUME dlistInit PROVE DListInv /\ Seqs!Init
  OBVIOUS
<1>1. Sound(ptrs) /\ ListsOf(ptrs) = [l \in List |-> << >>]
  BY InitSound
<1>2. WalkInv
  BY NoWalkTyped DEF dlistInit, WalkInv
<1>3. Seqs!Init
  BY <1>1, ListsAreForward DEF Seqs!Init
<1> QED
  BY <1>1, <1>2, <1>3 DEF DListInv

LEMMA WalkEnds == DListInv => WalkEndsAtFirstMove
<1> SUFFICES ASSUME DListInv, Ended
             PROVE  /\ walk.seen = SubSeq(walk.first, 1, Len(walk.seen))
                    /\ IF walk.moved = NIL
                       THEN Len(walk.seen) = Len(walk.first)
                       ELSE walk.moved = walk.seen[Len(walk.seen)]
  BY DEF WalkEndsAtFirstMove
<1>1. PICK l, first, k : Runs(l, first, k)
  BY DEF DListInv, WalkInv, Ended
<1>2. /\ first \in Seq(Node) /\ Len(first) \in Nat /\ k \in 0 .. Len(first)
      /\ walk.first = first /\ walk.seen = SubSeq(first, 1, k)
  BY <1>1 DEF Runs
<1>3. Len(SubSeq(first, 1, k)) = k
  BY <1>2
<1>4. CASE walk.moved = NIL
  <2>1. NodeAt(first, k + 1) = NIL
    BY <1>1, <1>4 DEF Runs, Ended
  <2>2. k = Len(first)
    BY <2>1, <1>2, DListAssumption DEF NodeAt
  <2> QED
    BY <2>2, <1>2, <1>3, <1>4
<1>5. CASE walk.moved # NIL
  <2>1. k > 0 /\ walk.moved = first[k]
    BY <1>1, <1>5 DEF Runs
  <2>2. SubSeq(first, 1, k)[k] = first[k]
    BY <2>1, <1>2
  <2> QED
    BY <2>1, <2>2, <1>2, <1>3, <1>5
<1> QED
  BY <1>4, <1>5

\* A walk of dlist_each visits a prefix of its list, all of it unless its routine
\* moves a node, and then ends with that node.
THEOREM WalkEndsAtFirstMoveHolds == dlistSpec => []WalkEndsAtFirstMove
<1>1. DListInv /\ [dlistNext]_dlistVars => DListInv'
  BY DListStep
<1> QED
  BY <1>1, DListInit, WalkEnds, PTL DEF dlistSpec

\* The pointers of dlist.c implement the sequences that the kernel takes the lists
\* for: dlist_insert, dlist_add, dlist_remove and dlist_get, and the walk that moves
\* a node, are steps of SeqLists.
THEOREM ListsAreSequences == dlistSpec => ImplementsSeqLists
<1>1. DListInv /\ [dlistNext]_dlistVars => DListInv'
  BY DListStep
<1>2. DListInv /\ [dlistNext]_dlistVars => [UNCHANGED ptrs \/ Seqs!Next]_ptrs
  BY DListStep
<1> QED
  BY <1>1, <1>2, DListInit, PTL DEF dlistSpec, ImplementsSeqLists
=============================================================================
