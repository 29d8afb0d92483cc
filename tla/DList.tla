-------------------------------- MODULE DList --------------------------------
(***************************************************************************)
(* dlist.c: the pointers of the doubly linked lists, and dlist_each with a *)
(* routine that may move the node that it is called for to the end of      *)
(* another list, as wait_to_ready and _delay_to_ready do.  The functions   *)
(* are named without dlist_, which ListSeq uses for those on sequences.    *)
(***************************************************************************)
EXTENDS Integers, Sequences, FiniteSets

CONSTANTS
  Node, List,
  NIL           \* the null pointer

ASSUME DListAssumption == IsFiniteSet(Node) /\ NIL \notin Node \cup List

VARIABLES
  ptrs,  \* head and tail of the lists, next and previous of the nodes
  walk   \* a running dlist_each: its list, its node; seen: the nodes it visited,
         \* first: the list when it began, moved: a node that the routine moved

dlistVars == <<ptrs, walk>>

NoWalk == [list |-> NIL, at |-> NIL, seen |-> << >>, first |-> << >>, moved |-> NIL]

dlistInit ==
  /\ ptrs = [head |-> [l \in List |-> NIL], tail |-> [l \in List |-> NIL],
             next |-> [n \in Node |-> NIL], previous |-> [n \in Node |-> NIL]]
  /\ walk = NoWalk

-----------------------------------------------------------------------------
\* Mutant: a node at the end keeps its old next pointer.
insert_stale(s, l, pPrev, pNode) ==
  LET pNext == IF pPrev = NIL THEN s.head[l] ELSE s.next[pPrev]
      s1 == IF pPrev = NIL THEN [s EXCEPT !.head[l] = pNode]
                            ELSE [s EXCEPT !.next[pPrev] = pNode]
      s2 == IF pNext = NIL THEN [s1 EXCEPT !.tail[l] = pNode]
                            ELSE [s1 EXCEPT !.previous[pNext] = pNode,
                                            !.next[pNode] = pNext]
  IN  [s2 EXCEPT !.previous[pNode] = pPrev]

insert(s, l, pPrev, pNode) ==
  LET pNext == IF pPrev = NIL THEN s.head[l] ELSE s.next[pPrev]
      s1 == IF pPrev = NIL THEN [s EXCEPT !.head[l] = pNode]
                            ELSE [s EXCEPT !.next[pPrev] = pNode]
      s2 == IF pNext = NIL THEN [s1 EXCEPT !.tail[l] = pNode]
                            ELSE [s1 EXCEPT !.previous[pNext] = pNode]
  IN  [s2 EXCEPT !.next[pNode] = pNext, !.previous[pNode] = pPrev]

add(s, l, pNode) == insert(s, l, s.tail[l], pNode)

\* The node keeps its own two pointers.
remove(s, l, pNode) ==
  LET p == s.previous[pNode]
      n == s.next[pNode]
      s1 == IF p = NIL THEN [s EXCEPT !.head[l] = n] ELSE [s EXCEPT !.next[p] = n]
  IN  IF n = NIL THEN [s1 EXCEPT !.tail[l] = p] ELSE [s1 EXCEPT !.previous[n] = p]

\* Mutant: the tail still points to the node that was the only one.
get_tail(s, l) ==
  LET n == s.next[s.head[l]]
      s1 == [s EXCEPT !.head[l] = n]
  IN  IF n = NIL THEN s1 ELSE [s1 EXCEPT !.previous[n] = NIL]

get(s, l) ==
  LET n == s.next[s.head[l]]
      s1 == [s EXCEPT !.head[l] = n]
  IN  IF n = NIL THEN [s1 EXCEPT !.tail[l] = NIL]
                  ELSE [s1 EXCEPT !.previous[n] = NIL]

-----------------------------------------------------------------------------
\* The nodes found from first by the pointers ptr, at most one more than there are.
NodesFrom(first, ptr) ==
  LET N == 1 .. Cardinality(Node) + 1
      at[i \in N] == IF i = 1 THEN first ELSE IF at[i - 1] = NIL THEN NIL ELSE ptr[at[i - 1]]
  IN  [i \in {i \in N : at[i] # NIL} |-> at[i]]

Forward(l) == NodesFrom(ptrs.head[l], ptrs.next)

Linked(l, n) == \E i \in 1 .. Len(Forward(l)) : Forward(l)[i] = n

Unlinked(n) == \A l \in List : ~ Linked(l, n)

\* The kernel's calls, outside a walk.
Insert(l, p, n) ==
  /\ walk = NoWalk
  /\ Unlinked(n) /\ (p = NIL \/ Linked(l, p))
  /\ ptrs' = insert(ptrs, l, p, n)
  /\ UNCHANGED walk

Add(l, n) ==
  /\ walk = NoWalk
  /\ Unlinked(n)
  /\ ptrs' = add(ptrs, l, n)
  /\ UNCHANGED walk

Remove(l, n) ==
  /\ walk = NoWalk
  /\ Linked(l, n)
  /\ ptrs' = remove(ptrs, l, n)
  /\ UNCHANGED walk

Get(l) ==
  /\ walk = NoWalk
  /\ ptrs.head[l] # NIL
  /\ ptrs' = get(ptrs, l)
  /\ UNCHANGED walk

\* dlist_each: pNode = DL_FIRST.
EachBegin(l) ==
  /\ walk = NoWalk
  /\ ptrs.head[l] # NIL
  /\ walk' = [list |-> l, at |-> ptrs.head[l], seen |-> << >>, first |-> Forward(l),
              moved |-> NIL]
  /\ UNCHANGED ptrs

\* The routine leaves the node alone, or moves it to the end of list m; then
\* pNode = DL_NEXT (pNode).
EachNode(m) ==
  /\ walk.at # NIL
  /\ m # NIL => m # walk.list
  /\ ptrs' = IF m = NIL THEN ptrs
             ELSE add(remove(ptrs, walk.list, walk.at), m, walk.at)
  /\ walk' = [walk EXCEPT !.at = ptrs'.next[walk.at],
                          !.seen = Append(@, walk.at),
                          !.moved = IF m = NIL THEN @ ELSE walk.at]

EachEnd ==
  /\ walk # NoWalk /\ walk.at = NIL
  /\ walk' = NoWalk
  /\ UNCHANGED ptrs

dlistNext ==
  \/ \E l \in List, n \in Node : \/ \E p \in Node \cup {NIL} : Insert(l, p, n)
                                 \/ Add(l, n) \/ Remove(l, n)
  \/ \E l \in List : Get(l) \/ EachBegin(l)
  \/ \E m \in List \cup {NIL} : EachNode(m)
  \/ EachEnd

dlistSpec == dlistInit /\ [][dlistNext]_dlistVars

-----------------------------------------------------------------------------
\* The lists as sequences, which the kernel's modules take them for.
Seqs == INSTANCE SeqLists WITH lists <- [l \in List |-> Forward(l)]

\* The pointer operations of dlist.c implement operations on sequences, those that
\* the kernel's modules use.  (UNCHANGED ptrs only spares TLC the rest.)
ImplementsSeqLists == Seqs!Init /\ [][UNCHANGED ptrs \/ Seqs!Next]_ptrs

Ended == walk # NoWalk /\ walk.at = NIL

\* A walk ends at the end of the list or with the first node that the routine
\* moves, though "This routine calls a user-supplied routine once for each node in
\* the linked list" (dlist.c:151): a tick wakes at most one task of a list.
WalkEndsAtFirstMove ==
  Ended => /\ walk.seen = SubSeq(walk.first, 1, Len(walk.seen))
           /\ IF walk.moved = NIL
              THEN Len(walk.seen) = Len(walk.first)
              ELSE walk.moved = walk.seen[Len(walk.seen)]
=============================================================================
