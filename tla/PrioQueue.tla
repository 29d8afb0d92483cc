----------------------------- MODULE PrioQueue -----------------------------
(***************************************************************************)
(* What the ready queue promises: one queue of tasks, the more important   *)
(* (lower number) before the less important, first come first served among *)
(* equals, and the task to run is the first of it.  The queue is the set   *)
(* of its tasks and the pairs of which the one is to run before the other. *)
(***************************************************************************)
EXTENDS Integers

CONSTANTS Task, NULL, Priority

VARIABLES
  queue,   \* the ready tasks
  before,  \* <<t, u>> when t is to run before u
  pri,     \* the priority of every task
  top      \* the task to run, or NULL

vars == <<queue, before, pri, top>>

\* t after the tasks of q that are at least as important, before the others.
Placed(q, pr, t) == {<<u, t>> : u \in {u \in q : pr[u] <= pr[t]}}
                      \cup {<<t, u>> : u \in {u \in q : pr[u] > pr[t]}}

\* The pairs among the tasks of q.
Among(q, b) == b \cap (q \X q)

TopIsFirst(q, b, t) ==
  IF q = {} THEN t = NULL
            ELSE t \in q /\ \A u \in q \ {t} : <<t, u>> \in b

Init ==
  /\ queue = {} /\ before = {}
  /\ pri \in [Task -> Priority]
  /\ top = NULL

Enter(t, p) ==
  /\ t \notin queue
  /\ pri' = [pri EXCEPT ![t] = p]
  /\ before' = before \cup Placed(queue, pri', t)
  /\ queue' = queue \cup {t}
  /\ TopIsFirst(queue', before', top')

Leave(t) ==
  /\ t \in queue
  /\ queue' = queue \ {t}
  /\ before' = Among(queue', before)
  /\ TopIsFirst(queue', before', top')
  /\ UNCHANGED pri

Move(t, p) ==
  /\ t \in queue
  /\ pri' = [pri EXCEPT ![t] = p]
  /\ before' = Among(queue \ {t}, before) \cup Placed(queue \ {t}, pri', t)
  /\ TopIsFirst(queue', before', top')
  /\ UNCHANGED queue

Next ==
  \E t \in Task : \/ \E p \in Priority : Enter(t, p) \/ Move(t, p)
                  \/ Leave(t)

Spec == Init /\ [][Next]_vars
=============================================================================
