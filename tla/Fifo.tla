-------------------------------- MODULE Fifo --------------------------------
(***************************************************************************)
(* fifo.c: a queue in a ring of slots.  Every call is one critical section.*)
(* fifo_create allocates max_num + 1 slots, and the calls count modulo     *)
(* ele_size, the number of bytes of an element: a ring of max_num + 1      *)
(* slots only where the two are equal, as in the shell's 3 elements of 4   *)
(* bytes.                                                                  *)
(***************************************************************************)
EXTENDS Naturals, Sequences

CONSTANTS
  Value,      \* the elements
  NULL,       \* no element
  max_num,    \* the capacity that fifo_create was asked for
  ele_size    \* the bytes of an element

VARIABLES
  in, out,   \* the slot to store in, the slot to fetch from
  data,      \* the slots; those after max_num are beyond the allocation
  live,      \* the queue is created and not deleted
  ret        \* what the last call returned

fifoVars == <<in, out, data, live, ret>>

Slot == 0 .. ele_size - 1

ERROR == [status |-> "ERROR", element |-> NULL]
OK(v) == [status |-> "OK", element |-> v]

Init ==
  /\ in = 0 /\ out = 0
  /\ data = [s \in Slot |-> NULL]
  /\ live = FALSE
  /\ ret = OK(NULL)

fifo_create ==
  /\ ~ live
  /\ in' = 0 /\ out' = 0
  /\ live' = TRUE
  /\ ret' = OK(NULL)
  /\ UNCHANGED data

fifo_delete ==
  /\ live
  /\ live' = FALSE
  /\ ret' = OK(NULL)
  /\ UNCHANGED <<in, out, data>>

fifo_is_empty == in = out

fifo_is_full == (in + 1) % ele_size = out

fifo_put(v) ==
  \/ /\ live /\ ~ fifo_is_full
     /\ data' = [data EXCEPT ![in] = v]
     /\ in' = (in + 1) % ele_size
     /\ ret' = OK(NULL)
     /\ UNCHANGED <<out, live>>
  \/ /\ live /\ fifo_is_full
     /\ ret' = ERROR
     /\ UNCHANGED <<in, out, data, live>>

fifo_get ==
  \/ /\ live /\ ~ fifo_is_empty
     /\ ret' = OK(data[out])
     /\ out' = (out + 1) % ele_size
     /\ UNCHANGED <<in, data, live>>
  \/ /\ live /\ fifo_is_empty
     /\ ret' = ERROR
     /\ UNCHANGED <<in, out, data, live>>

fifo_head ==
  /\ live
  /\ ret' = IF fifo_is_empty THEN ERROR ELSE OK(data[out])
  /\ UNCHANGED <<in, out, data, live>>

Next ==
  \/ fifo_create \/ fifo_delete
  \/ \E v \in Value : fifo_put(v)
  \/ fifo_get \/ fifo_head

Spec == Init /\ [][Next]_fifoVars

-----------------------------------------------------------------------------
\* The elements from out up to in, around the ring.
contents ==
  IF live THEN [i \in 1 .. (in + ele_size - out) % ele_size |->
                  data[(out + i - 1) % ele_size]]
          ELSE << >>

Abs == INSTANCE BoundedQueue WITH q <- contents, Capacity <- max_num

\* fifo_put, fifo_get and fifo_head behave as a queue that holds max_num
\* elements: "create a FIFO which can max hold <max_num> elemnets" (fifo.c:44).
HoldsMaxNum == Abs!Spec
=============================================================================
