---------------------------- MODULE BoundedQueue ----------------------------
(***************************************************************************)
(* What fifo.c promises: a queue of at most Capacity elements.  A put to a *)
(* full queue and a get from an empty one return an error and do nothing.  *)
(***************************************************************************)
EXTENDS Naturals, Sequences

CONSTANTS Value, Capacity, NULL

VARIABLES
  q,    \* the elements, the oldest first
  ret   \* the status that the last call returned, and the element it fetched

ERROR  == [status |-> "ERROR", element |-> NULL]
OK(v)  == [status |-> "OK", element |-> v]

Init == q = << >> /\ ret = OK(NULL)

Put(v) ==
  \/ Len(q) < Capacity /\ q' = Append(q, v) /\ ret' = OK(NULL)
  \/ Len(q) = Capacity /\ UNCHANGED q /\ ret' = ERROR

Get ==
  \/ q # << >> /\ q' = Tail(q) /\ ret' = OK(Head(q))
  \/ q = << >> /\ UNCHANGED q /\ ret' = ERROR

Peek ==
  /\ UNCHANGED q
  /\ ret' = IF q = << >> THEN ERROR ELSE OK(Head(q))

\* The queue is deleted, or created again.
Clear == q' = << >> /\ ret' = OK(NULL)

Next == (\E v \in Value : Put(v)) \/ Get \/ Peek \/ Clear

Spec == Init /\ [][Next]_<<q, ret>>
=============================================================================
