---------------------------- MODULE MCStructures ----------------------------
(***************************************************************************)
(* The data structures of the kernel for TLC: the ready queue, the heap,   *)
(* the memory of tasks and the linked lists.  They share no state; a       *)
(* behaviour is one of one of them, chosen by part, and the others keep    *)
(* their initial state.                                                    *)
(***************************************************************************)
EXTENDS ReadyQSpec, MemH, TaskMem, DList

VARIABLE part

mcVars == <<k, heapVars, taskMemVars, dlistVars, part>>

mcInit ==
  /\ part \in {"readyQ", "heap", "taskMem", "dlist"}
  /\ Init /\ heapInit /\ taskMemInit /\ dlistInit

ReadyQStep  == part = "readyQ" /\ Next /\ UNCHANGED <<heapVars, taskMemVars, dlistVars>>
HeapStep    == part = "heap" /\ heapNext /\ UNCHANGED <<k, taskMemVars, dlistVars>>
TaskMemStep == part = "taskMem" /\ taskMemNext /\ UNCHANGED <<k, heapVars, dlistVars>>
DListStep   == part = "dlist" /\ dlistNext /\ UNCHANGED <<k, heapVars, taskMemVars>>

mcNext == (ReadyQStep \/ HeapStep \/ TaskMemStep \/ DListStep) /\ UNCHANGED part

mcSpec == mcInit /\ [][mcNext]_mcVars
=============================================================================
