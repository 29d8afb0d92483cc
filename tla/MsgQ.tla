--------------------------------- MODULE MsgQ ---------------------------------
(***************************************************************************)
(* msgQ.c: bounded message queues with a list of waiting senders and a     *)
(* list of waiting receivers.  A task that is woken tries again.           *)
(***************************************************************************)
EXTENDS Sched

CONSTANTS
  MsgQs,    \* the message queues
  Msg,      \* the messages
  MAX_NUM   \* the max_num that msgQ_init gets

ASSUME MsgQAssumption == MAX_NUM \in Nat \ {0}

VARIABLES
  msgQ,      \* cur_num and the three lists of every MSG_QUE
  msgQ_list  \* _G_msgQ_list

msgQVars == <<msgQ, msgQ_list>>

MSG_QUE == [cur_num : 0 .. MAX_NUM, msg_list : Seq(Msg),
            wait_send_list : Seq(Task), wait_recv_list : Seq(Task)]

msgQ_new == [cur_num |-> 0, msg_list |-> << >>, wait_send_list |-> << >>,
             wait_recv_list |-> << >>]

\* The objects in later are initialised while the system runs.
msgQ_start(later) ==
  /\ msgQ = [q \in MsgQs |-> msgQ_new]
  /\ msgQ_list \in Listings(MsgQs \ later)

msgQ_init(q) ==
  /\ MayCall
  /\ ~ dlist_check(msgQ_list, q)
  /\ msgQ' = [msgQ EXCEPT ![q] = msgQ_new]
  /\ msgQ_list' = dlist_add(msgQ_list, q)
  /\ UNCHANGED schedVars

\* A queue with one message more or less, and one waiter less on the other side.
msg_sent(r, m) == [r EXCEPT !.cur_num = @ + 1, !.msg_list = dlist_add(@, m),
                            !.wait_recv_list = rest(@)]
msg_received(r) == [r EXCEPT !.cur_num = @ - 1, !.msg_list = rest(@),
                             !.wait_send_list = rest(@)]

\* msgQ_send from the label "again" on.
msgQ_send_again(q, m, timeout) ==
  /\ \/ /\ msgQ[q].cur_num < MAX_NUM
        /\ k' = wake_first(SetTicks(k, current, 0), msgQ[q].wait_recv_list)
        /\ msgQ' = [msgQ EXCEPT ![q] = msg_sent(@, m)]
        /\ ctx' = [ctx EXCEPT ![current] = Run]
        /\ UNCHANGED current
     \/ /\ msgQ[q].cur_num = MAX_NUM
        /\ timeout = 0
        /\ ctx' = [ctx EXCEPT ![current] = Run]
        /\ UNCHANGED <<k, msgQ, current>>
     \/ /\ msgQ[q].cur_num = MAX_NUM
        /\ timeout # 0
        /\ k' = pend(k, "PEND_MSG_S", q, timeout)
        /\ msgQ' = [msgQ EXCEPT ![q].wait_send_list = dlist_add(@, current)]
        /\ ctx' = [ctx EXCEPT ![current] =
                     [call |-> "msgQ_send", obj |-> q, msg |-> m]]
        /\ SwitchFrom(k')
  /\ UNCHANGED <<delayQ, msgQ_list>>

msgQ_send(q, m, timeout) == MayCall /\ msgQ_send_again(q, m, timeout)

\* Back from CONTEXT_SWITCH: 0 ticks left is a timeout or the deletion.
msgQ_send_wakeup ==
  /\ ctx[current].call = "msgQ_send"
  /\ IF k.tcb[current].delay_ticks # 0
     THEN msgQ_send_again(ctx[current].obj, ctx[current].msg,
                          k.tcb[current].delay_ticks)
     ELSE /\ ctx' = [ctx EXCEPT ![current] = Run]
          /\ UNCHANGED <<k, delayQ, current, msgQ, msgQ_list>>

\* msgQ_receive from the label "again" on.  After msgQ_delete cur_num may count
\* messages that are gone: dlist_get returns NULL and the copy reads nothing of
\* the queue's.
msgQ_receive_again(q, timeout) ==
  /\ \/ /\ msgQ[q].cur_num > 0
        /\ k' = wake_first(SetTicks(k, current, 0), msgQ[q].wait_send_list)
        /\ msgQ' = [msgQ EXCEPT ![q] = msg_received(@)]
        /\ ctx' = [ctx EXCEPT ![current] = Run]
        /\ UNCHANGED current
     \/ /\ msgQ[q].cur_num = 0
        /\ timeout = 0
        /\ ctx' = [ctx EXCEPT ![current] = Run]
        /\ UNCHANGED <<k, msgQ, current>>
     \/ /\ msgQ[q].cur_num = 0
        /\ timeout # 0
        /\ k' = pend(k, "PEND_MSG_R", q, timeout)
        /\ msgQ' = [msgQ EXCEPT ![q].wait_recv_list = dlist_add(@, current)]
        /\ ctx' = [ctx EXCEPT ![current] =
                     [call |-> "msgQ_receive", obj |-> q, msg |-> NULL]]
        /\ SwitchFrom(k')
  /\ UNCHANGED <<delayQ, msgQ_list>>

msgQ_receive(q, timeout) == MayCall /\ msgQ_receive_again(q, timeout)

msgQ_receive_wakeup ==
  /\ ctx[current].call = "msgQ_receive"
  /\ IF k.tcb[current].delay_ticks # 0
     THEN msgQ_receive_again(ctx[current].obj, k.tcb[current].delay_ticks)
     ELSE /\ ctx' = [ctx EXCEPT ![current] = Run]
          /\ UNCHANGED <<k, delayQ, current, msgQ, msgQ_list>>

\* Of each wait list the first task is woken with 0 ticks left and the second
\* one is unlinked: the code tests "if" where it would have to loop.
msgQ_delete(q) ==
  /\ MayCall
  /\ dlist_check(msgQ_list, q)
  /\ LET first(s) == SubSeq(s, 1, IF DL_EMPTY(s) THEN 0 ELSE 1)
         k1 == flushed(k, first(msgQ[q].wait_send_list))
     IN  k' = flushed(k1, first(msgQ[q].wait_recv_list))
  /\ msgQ' = [msgQ EXCEPT ![q].msg_list = << >>,
                          ![q].wait_send_list = rest(rest(@)),
                          ![q].wait_recv_list = rest(rest(@))]
  /\ msgQ_list' = dlist_remove(msgQ_list, q)
  /\ UNCHANGED <<delayQ, current, ctx>>

\* For task_delete.
msgQ_remove(q, t) ==
  IF k.tcb[t].status = "PEND_MSG_S"
  THEN [msgQ EXCEPT ![q].wait_send_list = dlist_remove(@, t)]
  ELSE [msgQ EXCEPT ![q].wait_recv_list = dlist_remove(@, t)]

\* The tick walks the senders and then the receivers of a queue.
queue_tick(a, q) ==
  LET s == each_tick(a.k, a.objs[q].wait_send_list, waits_left(a.k))
      r == each_tick(s.k, a.objs[q].wait_recv_list, waits_left(s.k))
  IN  [k |-> r.k, objs |-> [a.objs EXCEPT ![q].wait_send_list = s.list,
                                          ![q].wait_recv_list = r.list]]

msgQ_decrease(ks) ==
  LET after[i \in 0 .. Len(msgQ_list)] ==
        IF i = 0 THEN [k |-> ks, objs |-> msgQ]
        ELSE queue_tick(after[i - 1], msgQ_list[i])
  IN  after[Len(msgQ_list)]
=============================================================================
