------------------------------ MODULE ListSeq ------------------------------
(***************************************************************************)
(* The doubly linked lists of dlist.c seen as sequences: the first element *)
(* is the node that pList->head points to, the last one pList->tail.       *)
(* DList.tla models the pointers themselves.                               *)
(***************************************************************************)
LOCAL INSTANCE Naturals
LOCAL INSTANCE Sequences
LOCAL INSTANCE FiniteSets

\* dlist_insert after the i-th node (i = 0: pPrev is NULL, the new head).
dlist_insert(s, i, e) ==
  [j \in 1 .. Len(s) + 1 |->
     IF j <= i THEN s[j] ELSE IF j = i + 1 THEN e ELSE s[j - 1]]

dlist_add(s, e) == Append(s, e)

\* The user must be sure that the node is in the list (dlist.c:70).
dlist_remove(s, e) ==
  LET i == CHOOSE i \in 1 .. Len(s) : s[i] = e
  IN  [j \in 1 .. Len(s) - 1 |-> IF j < i THEN s[j] ELSE s[j + 1]]

\* dlist_get returns DL_FIRST and leaves dlist_rest.
DL_FIRST(s) == s[1]
dlist_rest(s) == Tail(s)

DL_EMPTY(s) == Len(s) = 0

\* No node is linked twice.
NoDuplicates(s) == \A i, j \in 1 .. Len(s) : s[i] = s[j] => i = j

dlist_check(s, e) == \E i \in 1 .. Len(s) : s[i] = e

\* The lists of all the nodes of S, in any order.
Listings(S) == {l \in [1 .. Cardinality(S) -> S] : NoDuplicates(l)}
============================================================================
