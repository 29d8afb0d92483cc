------------------------------ MODULE SeqLists ------------------------------
(***************************************************************************)
(* What dlist.c promises: lists of nodes, each node in at most one of them.*)
(* The kernel's modules use these lists.                                   *)
(***************************************************************************)
EXTENDS Naturals, Sequences, ListSeq

CONSTANTS Node, List

VARIABLE lists    \* the sequence of every list

Init == lists = [l \in List |-> << >>]

Unlinked(n) == \A l \in List : ~ dlist_check(lists[l], n)

Insert(l, i, n) ==
  /\ Unlinked(n)
  /\ lists' = [lists EXCEPT ![l] = dlist_insert(@, i, n)]

Remove(l, n) ==
  /\ dlist_check(lists[l], n)
  /\ lists' = [lists EXCEPT ![l] = dlist_remove(@, n)]

Get(l) ==
  /\ ~ DL_EMPTY(lists[l])
  /\ lists' = [lists EXCEPT ![l] = dlist_rest(@)]

\* From one list to the end of another one.
Move(l, m, n) ==
  /\ l # m /\ dlist_check(lists[l], n)
  /\ lists' = [lists EXCEPT ![l] = dlist_remove(@, n), ![m] = dlist_add(@, n)]

Next ==
  \E l \in List :
    \/ \E n \in Node, i \in 0 .. Len(lists[l]) : Insert(l, i, n)
    \/ \E n \in Node : Remove(l, n) \/ \E m \in List : Move(l, m, n)
    \/ Get(l)

Spec == Init /\ [][Next]_lists
=============================================================================
