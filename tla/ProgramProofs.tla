---------------------------- MODULE ProgramProofs ----------------------------
(***************************************************************************)
(* Programs on top of the kernel, each on its own: fifo.c implements a     *)
(* bounded queue; a file descriptor of the I/O system has one holder; the  *)
(* steps that auto_task of tetris found are made with their block; the     *)
(* shell runs the line that it shows, and its history is that of the last  *)
(* lines; lianliankan finds a path exactly when there is one, counts its   *)
(* blocks, and its timer miscounts nothing; five in a row counts its lines *)
(* and sees every five; the clock adds the ticks to the time that was set  *)
(* and is never ahead.                                                     *)
(***************************************************************************)
EXTENDS Fifo, Ios, TetrisTasks, Shell, Lian, Wuzi, TimeLib, FiniteSetTheorems, SequenceTheorems,
        WellFoundedInduction, TLAPS

-----------------------------------------------------------------------------
(* fifo.c implements a bounded queue, step by step: of ele_size - 1        *)
(* elements, which is the max_num that fifo_create was asked for where     *)
(* ele_size = max_num + 1.                                                 *)

\* The queue that the ring holds.
Ring == INSTANCE BoundedQueue WITH q <- contents, Capacity <- ele_size - 1

\* The slots that the calls use are allocated.
Allocated == /\ max_num \in Nat \ {0} /\ ele_size \in Nat \ {0}
             /\ ele_size <= max_num + 1

\* What a slot holds.
Elem == Value \cup {NULL}
Slots == [Slot -> Elem]

IInv == /\ in \in Slot /\ out \in Slot
        /\ data \in Slots
        /\ live \in BOOLEAN

\* Counting modulo E below 2 * E.
LEMMA ModIs ==
  ASSUME NEW E \in Nat \ {0}, NEW x \in Nat, x < E + E
  PROVE  x % E = IF x < E THEN x ELSE x - E
<1> DEFINE r == x % E
           d == x \div E
<1>1. r \in 0 .. E - 1 /\ d \in Nat /\ x = E * d + r
  OBVIOUS
<1> HIDE DEF r, d
<1>2. d = 0 \/ d = 1
  <2>1. CASE d > 1
    <3>1. E * d >= E * 2
      BY <1>1, <2>1
    <3> QED
      BY <1>1, <3>1
  <2> QED
    BY <1>1, <2>1
<1>3. E * 0 = 0 /\ E * 1 = E
  OBVIOUS
<1>4. r = IF x < E THEN x ELSE x - E
  BY <1>1, <1>2, <1>3
<1> QED
  BY <1>4 DEF r

LEMMA IndInv ==
  ASSUME Allocated
  PROVE  Spec => []IInv
<1>1. Init => IInv
  <2>1. 0 \in Slot
    BY DEF Slot, Allocated
  <2>2. Init => data \in Slots
    BY DEF Init, Slots, Elem
  <2>3. Init => live \in BOOLEAN
    BY Zenon DEF Init
  <2> QED
    BY <2>1, <2>2, <2>3 DEF Init, IInv
<1>2. IInv /\ [Next]_fifoVars => IInv'
  <2> SUFFICES ASSUME IInv, [Next]_fifoVars PROVE IInv'
    OBVIOUS
  <2>1. (in + 1) % ele_size \in Slot /\ (out + 1) % ele_size \in Slot
    BY DEF IInv, Slot, Allocated
  <2>2. 0 \in Slot
    BY DEF Slot, Allocated
  <2>3. CASE fifo_create
    BY <2>2, <2>3 DEF IInv, fifo_create
  <2>4. CASE fifo_delete
    BY <2>4 DEF IInv, fifo_delete
  <2>5. ASSUME NEW v \in Value, fifo_put(v) PROVE IInv'
    BY <2>1, <2>5 DEF IInv, fifo_put, Slots, Elem
  <2>6. CASE fifo_get
    BY <2>1, <2>6 DEF IInv, fifo_get
  <2>7. CASE fifo_head
    BY <2>7 DEF IInv, fifo_head
  <2>8. CASE UNCHANGED fifoVars
    BY <2>8 DEF IInv, fifoVars
  <2> QED
    BY <2>3, <2>4, <2>5, <2>6, <2>7, <2>8 DEF Next
<1> QED
  BY <1>1, <1>2, PTL DEF Spec

\* The number of elements in the ring, and the slot of the i-th one.
Used(o, n) == (n + ele_size - o) % ele_size
At(o, i) == (o + i - 1) % ele_size

\* The ring between two slots: its length, its ends and one slot more.
LEMMA RingIs ==
  ASSUME Allocated, NEW o \in Slot, NEW n \in Slot
  PROVE  /\ Used(o, n) \in 0 .. ele_size - 1
         /\ Used(o, n) = 0 <=> o = n
         /\ Used(o, n) = ele_size - 1 <=> (n + 1) % ele_size = o
         /\ o = n \/ At(o, 1) = o
         /\ At(o, Used(o, n) + 1) = n
         /\ \A i \in 1 .. Used(o, n) : At(o, i) \in Slot /\ At(o, i) # n
<1> DEFINE E == ele_size
           u == IF n < o THEN n + E - o ELSE n - o
<1>1. E \in Nat \ {0} /\ o \in 0 .. E - 1 /\ n \in 0 .. E - 1
  BY DEF Allocated, Slot
<1>2. Used(o, n) = u
  <2>1. n + E - o \in Nat /\ n + E - o < E + E
    BY <1>1
  <2>2. (n + E - o) % E = IF n + E - o < E THEN n + E - o ELSE (n + E - o) - E
    BY <1>1, <2>1, ModIs
  <2> QED
    BY <1>1, <2>2 DEF Used
<1>3. (n + 1) % E = IF n + 1 < E THEN n + 1 ELSE 0
  <2>1. n + 1 \in Nat /\ n + 1 < E + E
    BY <1>1
  <2>2. (n + 1) % E = IF n + 1 < E THEN n + 1 ELSE (n + 1) - E
    BY <1>1, <2>1, ModIs
  <2> QED
    BY <1>1, <2>2
<1>4. \A i \in 1 .. E : At(o, i) = IF o + i - 1 < E THEN o + i - 1 ELSE o + i - 1 - E
  <2> SUFFICES ASSUME NEW i \in 1 .. E
               PROVE  At(o, i) = IF o + i - 1 < E THEN o + i - 1 ELSE o + i - 1 - E
    OBVIOUS
  <2>1. o + i - 1 \in Nat /\ o + i - 1 < E + E
    BY <1>1
  <2>2. (o + i - 1) % E = IF o + i - 1 < E THEN o + i - 1 ELSE (o + i - 1) - E
    BY <1>1, <2>1, ModIs
  <2> QED
    BY <1>1, <2>2 DEF At
<1>5. /\ u \in 0 .. E - 1 /\ (u = 0 <=> o = n)
      /\ u = E - 1 <=> (n + 1) % E = o
  BY <1>1, <1>3
<1>6. At(o, 1) = o /\ At(o, u + 1) = n
  BY <1>1, <1>4, <1>5
<1>7. \A i \in 1 .. u : At(o, i) \in 0 .. E - 1 /\ At(o, i) # n
  BY <1>1, <1>4, <1>5
<1> QED
  BY <1>2, <1>5, <1>6, <1>7 DEF Slot

\* The ring one slot shorter at its beginning, or longer at its end.
LEMMA RingMoves ==
  ASSUME Allocated, NEW o \in Slot, NEW n \in Slot
  PROVE  /\ (n + 1) % ele_size # o => Used(o, (n + 1) % ele_size) = Used(o, n) + 1
         /\ o # n => /\ Used((o + 1) % ele_size, n) = Used(o, n) - 1
                     /\ \A i \in 1 .. Used(o, n) - 1 :
                          At((o + 1) % ele_size, i) = At(o, i + 1)
<1> DEFINE E == ele_size
           p == (o + 1) % E
           m == (n + 1) % E
<1>1. E \in Nat \ {0} /\ o \in 0 .. E - 1 /\ n \in 0 .. E - 1
  BY DEF Allocated, Slot
<1>2. ASSUME NEW a \in 0 .. E - 1, NEW b \in 0 .. E - 1
      PROVE  Used(a, b) = IF b < a THEN b + E - a ELSE b - a
  <2>1. b + E - a \in Nat /\ b + E - a < E + E
    BY <1>1
  <2>2. (b + E - a) % E = IF b + E - a < E THEN b + E - a ELSE (b + E - a) - E
    BY <1>1, <2>1, ModIs
  <2> QED
    BY <1>1, <2>2 DEF Used
<1>3. ASSUME NEW a \in 0 .. E - 1
      PROVE  (a + 1) % E = IF a + 1 < E THEN a + 1 ELSE 0
  <2>1. a + 1 \in Nat /\ a + 1 < E + E
    BY <1>1
  <2>2. (a + 1) % E = IF a + 1 < E THEN a + 1 ELSE (a + 1) - E
    BY <1>1, <2>1, ModIs
  <2> QED
    BY <1>1, <2>2
<1>4. ASSUME NEW a \in 0 .. E - 1, NEW i \in 1 .. E
      PROVE  At(a, i) = IF a + i - 1 < E THEN a + i - 1 ELSE a + i - 1 - E
  <2>1. a + i - 1 \in Nat /\ a + i - 1 < E + E
    BY <1>1
  <2>2. (a + i - 1) % E = IF a + i - 1 < E THEN a + i - 1 ELSE (a + i - 1) - E
    BY <1>1, <2>1, ModIs
  <2> QED
    BY <1>1, <2>2 DEF At
<1>5. /\ m = IF n + 1 < E THEN n + 1 ELSE 0
      /\ p = IF o + 1 < E THEN o + 1 ELSE 0
  BY <1>1, <1>3
<1>6. m \in 0 .. E - 1 /\ p \in 0 .. E - 1
  BY <1>1, <1>5
<1> HIDE DEF m, p
<1>7. m # o => Used(o, m) = Used(o, n) + 1
  BY <1>1, <1>2, <1>5, <1>6
<1>8. o # n => Used(p, n) = Used(o, n) - 1
  BY <1>1, <1>2, <1>5, <1>6
<1>9. ASSUME o # n, NEW i \in 1 .. Used(o, n) - 1 PROVE At(p, i) = At(o, i + 1)
  <2>1. Used(o, n) \in 0 .. E - 1
    BY <1>1, <1>2
  <2>2. i \in 1 .. E /\ i + 1 \in 1 .. E
    BY <1>1, <1>9, <2>1
  <2>3. /\ At(p, i) = IF p + i - 1 < E THEN p + i - 1 ELSE p + i - 1 - E
        /\ At(o, i + 1) = IF o + i < E THEN o + i ELSE o + i - E
    BY <1>1, <1>4, <1>6, <2>2
  <2> QED
    BY <1>1, <1>5, <2>2, <2>3
<1> QED
  BY <1>7, <1>8, <1>9 DEF m, p

\* The elements from slot o up to slot n of the slots d.
Content(o, n, d) == [i \in 1 .. Used(o, n) |-> d[At(o, i)]]

LEMMA ContentIs ==
  ASSUME Allocated, NEW o \in Slot, NEW n \in Slot, NEW d \in Slots
  PROVE  /\ Content(o, n, d) \in Seq(Elem) /\ Len(Content(o, n, d)) = Used(o, n)
         /\ Content(o, n, d) = << >> <=> o = n
         /\ o # n => Head(Content(o, n, d)) = d[o]
         /\ Len(Content(o, n, d)) <= ele_size - 1
         /\ Len(Content(o, n, d)) = ele_size - 1 <=> (n + 1) % ele_size = o
<1> DEFINE u == Used(o, n)
           c == Content(o, n, d)
<1>1. /\ u \in Nat /\ u <= ele_size - 1 /\ (u = 0 <=> o = n)
      /\ (u = ele_size - 1 <=> (n + 1) % ele_size = o)
      /\ (o = n \/ At(o, 1) = o) /\ \A i \in 1 .. u : At(o, i) \in Slot
  BY RingIs DEF Allocated
<1>2. c = [i \in 1 .. u |-> d[At(o, i)]]
  BY DEF Content
<1> HIDE DEF u, c
<1>3. c \in Seq(Elem) /\ Len(c) = u /\ \A i \in 1 .. u : c[i] = d[At(o, i)]
  BY <1>1, <1>2 DEF Slots
<1>4. c = << >> <=> u = 0
  BY <1>3
<1>5. o # n => Head(c) = d[o]
  BY <1>1, <1>3
<1> QED
  BY <1>1, <1>3, <1>4, <1>5 DEF u, c

LEMMA ContentType ==
  ASSUME Allocated, NEW o \in Slot, NEW n \in Slot, NEW d \in Slots
  PROVE  /\ Content(o, n, d) \in Seq(Elem) /\ Len(Content(o, n, d)) = Used(o, n)
         /\ \A i \in 1 .. Used(o, n) : Content(o, n, d)[i] = d[At(o, i)]
<1> DEFINE c == Content(o, n, d)
<1>1. c = [i \in 1 .. Used(o, n) |-> d[At(o, i)]]
  BY DEF Content
<1> HIDE DEF c
<1>2. c \in Seq(Elem) /\ Len(c) = Used(o, n)
  BY ContentIs DEF c
<1> QED
  BY <1>1, <1>2 DEF c

\* The slots d with v in slot n.
Stored(d, n, v) == [d EXCEPT ![n] = v]

LEMMA ContentPut ==
  ASSUME Allocated, NEW o \in Slot, NEW n \in Slot, NEW d \in Slots,
         NEW v \in Elem, NEW m, m = (n + 1) % ele_size, m # o
  PROVE  Content(o, m, Stored(d, n, v)) = Append(Content(o, n, d), v)
<1> DEFINE u == Used(o, n)
           c == Content(o, n, d)
           e == Stored(d, n, v)
           b == Content(o, m, e)
           a == Append(c, v)
<1>1. /\ u \in Nat /\ \A i \in 1 .. u : At(o, i) \in Slot /\ At(o, i) # n
      /\ At(o, u + 1) = n
  BY RingIs
<1>2. m \in Slot /\ Used(o, m) = u + 1
  BY RingMoves DEF Slot, Allocated
<1>3. e \in Slots /\ e[n] = v /\ \A x \in Slot : x # n => e[x] = d[x]
  BY DEF Slots, Stored
<1> HIDE DEF e
<1>4. /\ c \in Seq(Elem) /\ Len(c) = u
      /\ \A i \in 1 .. u : c[i] = d[At(o, i)]
  BY ContentType
<1>5. /\ b \in Seq(Elem) /\ Len(b) = u + 1
      /\ \A i \in 1 .. u + 1 : b[i] = e[At(o, i)]
  <2>1. \A x \in Slots : /\ Content(o, m, x) \in Seq(Elem)
                                /\ Len(Content(o, m, x)) = Used(o, m)
    BY <1>2, ContentIs
  <2>2. b \in Seq(Elem) /\ Len(b) = Used(o, m)
    BY <1>3, <2>1
  <2> QED
    BY <1>2, <2>2 DEF Content
<1> HIDE DEF u, c, b
<1>6. /\ a \in Seq(Elem) /\ Len(a) = u + 1 /\ a[u + 1] = v
      /\ \A i \in 1 .. u : a[i] = c[i]
  BY <1>1, <1>4, AppendProperties
<1> HIDE DEF a
<1>7. \A i \in 1 .. Len(b) : b[i] = a[i]
  BY <1>1, <1>3, <1>4, <1>5, <1>6
<1>8. b = a
  BY <1>5, <1>6, <1>7, SeqEqual
<1> QED
  BY <1>8 DEF a, b, c, e

LEMMA ContentGet ==
  ASSUME Allocated, NEW o \in Slot, NEW n \in Slot, NEW d \in Slots,
         NEW p, p = (o + 1) % ele_size, o # n
  PROVE  Content(p, n, d) = Tail(Content(o, n, d))
<1> DEFINE u == Used(o, n)
           c == Content(o, n, d)
           b == Content(p, n, d)
           a == Tail(c)
<1>1. u \in Nat \ {0}
  BY RingIs
<1>2. /\ p \in Slot /\ Used(p, n) = u - 1
      /\ \A i \in 1 .. u - 1 : At(p, i) = At(o, i + 1)
  BY RingMoves DEF Slot, Allocated
<1>3. /\ c \in Seq(Elem) /\ Len(c) = u /\ c # << >>
      /\ \A i \in 1 .. u : c[i] = d[At(o, i)]
  <2>1. c \in Seq(Elem) /\ Len(c) = u /\ c # << >>
    <3> HIDE DEF c, u
    <3> QED
      BY ContentIs DEF c, u
  <2> QED
    BY <2>1 DEF Content
<1>4. /\ b \in Seq(Elem) /\ Len(b) = u - 1
      /\ \A i \in 1 .. u - 1 : b[i] = d[At(p, i)]
  <2>1. b \in Seq(Elem) /\ Len(b) = Used(p, n)
    <3> HIDE DEF b
    <3> QED
      BY <1>2, ContentIs DEF b
  <2> QED
    BY <1>2, <2>1 DEF Content
<1> HIDE DEF u, c, b
<1>5. /\ a \in Seq(Elem) /\ Len(a) = u - 1 /\ \A i \in 1 .. u - 1 : a[i] = c[i + 1]
  BY <1>3, HeadTailProperties
<1> HIDE DEF a
<1>6. ASSUME NEW i \in 1 .. Len(b) PROVE b[i] = a[i]
  <2>1. i \in 1 .. u - 1 /\ i + 1 \in 1 .. u
    BY <1>1, <1>4, <1>6
  <2> QED
    BY <1>2, <1>3, <1>4, <1>5, <2>1
<1>7. b = a
  BY <1>4, <1>5, <1>6, SeqEqual
<1> QED
  BY <1>7 DEF a, b, c

-----------------------------------------------------------------------------
(* Every call is a step of the queue.                                      *)

LEMMA ContentsAre ==
  ASSUME Allocated, IInv
  PROVE  contents = IF live THEN Content(out, in, data) ELSE << >>
  BY DEF contents, Content, Used, At

LEMMA InitRefines ==
  ASSUME Allocated, Init
  PROVE  Ring!Init
  BY DEF Init, contents, Ring!Init, OK, Ring!OK

LEMMA StepRefines ==
  ASSUME Allocated, IInv, IInv', [Next]_fifoVars
  PROVE  [Ring!Next]_<<contents, ret>>
<1> DEFINE c == Content(out, in, data)
<1>1. /\ in \in Slot /\ out \in Slot /\ data \in Slots /\ live \in BOOLEAN
      /\ Value \subseteq Elem /\ data' \in Slots
  BY DEF IInv, Elem
<1>2. /\ contents = IF live THEN c ELSE << >>
      /\ contents' = IF live' THEN Content(out', in', data') ELSE << >>
  <2>1. contents = IF live THEN c ELSE << >>
    BY ContentsAre
  <2>2. contents' = IF live' THEN Content(out', in', data') ELSE << >>
    BY DEF contents, Content, Used, At
  <2> QED
    BY <2>1, <2>2
<1>3. /\ c = << >> <=> out = in
      /\ out # in => Head(c) = data[out]
      /\ Len(c) <= ele_size - 1 /\ Len(c) \in Nat
      /\ Len(c) = ele_size - 1 <=> (in + 1) % ele_size = out
  <2> HIDE DEF c
  <2>1. c \in Seq(Elem)
    BY <1>1, ContentType DEF c
  <2>2. /\ c = << >> <=> out = in
        /\ out # in => Head(c) = data[out]
        /\ Len(c) <= ele_size - 1
        /\ Len(c) = ele_size - 1 <=> (in + 1) % ele_size = out
    BY <1>1, ContentIs DEF c
  <2> QED
    BY <2>1, <2>2
<1> HIDE DEF c
<1>4. CASE fifo_create \/ fifo_delete
  <2>1. ret' = OK(NULL)
    BY <1>4 DEF fifo_create, fifo_delete
  <2>2. contents' = << >>
    <3>1. CASE fifo_create
      <4>1. Content(0, 0, data') = << >>
        <5>1. 0 \in Slot /\ data' \in Slots
          BY <1>1 DEF Slot, Allocated
        <5> QED
          BY <5>1, ContentIs
      <4> QED
        BY <1>2, <3>1, <4>1 DEF fifo_create
    <3>2. CASE fifo_delete
      BY <1>2, <3>2 DEF fifo_delete
    <3> QED
      BY <1>4, <3>1, <3>2
  <2> QED
    BY <2>1, <2>2 DEF Ring!Next, Ring!Clear, OK, Ring!OK
<1>5. ASSUME NEW v \in Value, fifo_put(v) PROVE Ring!Put(v)
  <2>1. CASE ~ fifo_is_full
    <3>1. /\ live /\ live' = live /\ out' = out /\ ret' = OK(NULL)
          /\ in' = (in + 1) % ele_size /\ data' = [data EXCEPT ![in] = v]
          /\ (in + 1) % ele_size # out
      BY <1>5, <2>1 DEF fifo_put, fifo_is_full
    <3>2. Content(out, in', Stored(data, in, v)) = Append(c, v)
      BY <1>1, <3>1, ContentPut DEF c
    <3>3. contents = c /\ contents' = Append(c, v)
      BY <1>2, <3>1, <3>2 DEF Stored
    <3>4. Len(c) < ele_size - 1
      BY <1>3, <3>1 DEF Allocated
    <3> QED
      BY <3>1, <3>3, <3>4 DEF Ring!Put, OK, Ring!OK
  <2>2. CASE fifo_is_full
    <3>1. live /\ UNCHANGED <<in, out, data, live>> /\ ret' = ERROR
      BY <1>5, <2>2 DEF fifo_put
    <3>2. contents = c /\ contents' = c
      BY <1>2, <3>1 DEF c
    <3>3. Len(c) = ele_size - 1
      BY <1>3, <2>2 DEF fifo_is_full
    <3> QED
      BY <3>1, <3>2, <3>3 DEF Ring!Put, ERROR, Ring!ERROR
  <2> QED
    BY <2>1, <2>2
<1>6. CASE fifo_get
  <2>1. CASE in # out
    <3>1. /\ live /\ live' = live /\ in' = in /\ data' = data /\ ret' = OK(data[out])
          /\ out' = (out + 1) % ele_size
      BY <1>6, <2>1 DEF fifo_get, fifo_is_empty
    <3>2. Content((out + 1) % ele_size, in, data) = Tail(c)
      BY <1>1, <2>1, ContentGet DEF c
    <3>3. contents = c /\ contents' = Tail(c)
      BY <1>2, <3>1, <3>2
    <3>4. c # << >> /\ ret' = OK(Head(c))
      BY <1>3, <2>1, <3>1
    <3> QED
      BY <3>3, <3>4 DEF Ring!Next, Ring!Get, OK, Ring!OK
  <2>2. CASE in = out
    <3>1. live /\ UNCHANGED <<in, out, data, live>> /\ ret' = ERROR
      BY <1>6, <2>2 DEF fifo_get, fifo_is_empty
    <3>2. contents = c /\ contents' = c
      BY <1>2, <3>1 DEF c
    <3>3. c = << >>
      BY <1>3, <2>2
    <3> QED
      BY <3>1, <3>2, <3>3 DEF Ring!Next, Ring!Get, ERROR, Ring!ERROR
  <2> QED
    BY <2>1, <2>2
<1>7. CASE fifo_head
  <2>1. /\ live /\ UNCHANGED <<in, out, data, live>>
        /\ ret' = IF in = out THEN ERROR ELSE OK(data[out])
    BY <1>7 DEF fifo_head, fifo_is_empty
  <2>2. contents = c /\ contents' = c
    BY <1>2, <2>1 DEF c
  <2>3. ret' = IF c = << >> THEN ERROR ELSE OK(Head(c))
    BY <1>3, <2>1
  <2> QED
    BY <2>2, <2>3 DEF Ring!Next, Ring!Peek, ERROR, Ring!ERROR, OK, Ring!OK
<1>8. CASE UNCHANGED fifoVars
  BY <1>2, <1>8 DEF fifoVars, c
<1> QED
  BY <1>4, <1>5, <1>6, <1>7, <1>8 DEF Next, Ring!Next

\* Where the slots that the calls use are allocated, fifo_put, fifo_get and
\* fifo_head behave as a queue of ele_size - 1 elements: nothing is lost, none
\* comes twice or out of order, and they fail at the two ends only.
THEOREM FifoIsQueue ==
  ASSUME Allocated
  PROVE  Spec => Ring!Spec
<1>1. Init => Ring!Init
  BY InitRefines
<1>2. IInv /\ IInv' /\ [Next]_fifoVars => [Ring!Next]_<<contents, ret>>
  BY StepRefines
<1>3. Spec => []IInv
  BY IndInv
<1> QED
  BY <1>1, <1>2, <1>3, PTL DEF Spec, Ring!Spec

\* What fifo.c:44 says of max_num holds where an element has max_num + 1 bytes,
\* as in the shell's FIFO.
THEOREM FifoHoldsMaxNum ==
  ASSUME max_num \in Nat \ {0}, ele_size = max_num + 1
  PROVE  Spec => HoldsMaxNum
<1>1. Allocated /\ ele_size - 1 = max_num
  BY DEF Allocated
<1>2. Init => Abs!Init
  BY <1>1, InitRefines DEF Ring!Init, Abs!Init, Ring!OK, Abs!OK
<1>3. IInv /\ IInv' /\ [Next]_fifoVars => [Abs!Next]_<<contents, ret>>
  <2> SUFFICES ASSUME IInv, IInv', [Next]_fifoVars PROVE [Abs!Next]_<<contents, ret>>
    OBVIOUS
  <2>1. [Ring!Next]_<<contents, ret>>
    BY <1>1, StepRefines
  <2> QED
    BY <1>1, <2>1 DEF Ring!Next, Abs!Next, Ring!Put, Abs!Put, Ring!Get, Abs!Get, Ring!Peek,
       Abs!Peek, Ring!Clear, Abs!Clear, Ring!OK, Abs!OK, Ring!ERROR, Abs!ERROR
<1>4. Spec => []IInv
  BY <1>1, IndInv
<1> QED
  BY <1>2, <1>3, <1>4, PTL DEF Spec, HoldsMaxNum, Abs!Spec

-----------------------------------------------------------------------------
(* The I/O system: a file descriptor has one holder.                       *)

Fds == 0 .. IOS_MAX_FILE_DES - 1
OpenFds == 3 .. IOS_MAX_FILE_DES - 1

\* The numbers of drivers that an entry may have, and what a driver returns.
DrvNum == {0} \cup {DriverOf(path) : path \in Paths}
OpenData == {pBeepDev} \cup (-1 .. MAX_HANDLES - 1)

Entry == [drv_num : DrvNum, open_data : {0}, inuse : BOOLEAN]

OpenFile == [fd : OpenFds, path : Paths, data : OpenData]

\* What a task may be in.
Call == {Out} \cup [op : {"open"}, fd : OpenFds \cup {-1}, path : Paths]
              \cup [op : {"opened"}, fd : OpenFds \cup {-1}, path : Paths, data : OpenData]
              \cup [op : {"close"}, fd : OpenFds]

IosTyped ==
  /\ fd_table \in [Fds -> Entry]
  /\ call \in [IoTask -> Call]
  /\ files \in [IoTask -> SUBSET OpenFile]

\* The fd that the call of a task is about, none for -1.
InCall(c) == IF c = Out THEN {} ELSE {c.fd} \ {-1}

FdsOf(F) == {f.fd : f \in F}

\* Within a task: one file for an fd, and its call is about none of them.
HeldOnce ==
  \A t \in IoTask : /\ \A f, g \in files[t] : f.fd = g.fd => f = g
                    /\ FdsOf(files[t]) \cap InCall(call[t]) = {}

\* Between tasks.
HeldByOne == \A t, u \in IoTask : t # u => Holds(t) \cap Holds(u) = {}

\* An entry is in use exactly when it is one of the first three or some task holds it.
InUseIsHeld ==
  \A i \in Fds : fd_table[i].inuse <=> i < 3 \/ \E t \in IoTask : i \in Holds(t)

DriverIsSaved ==
  \A t \in IoTask : \A f \in files[t] : fd_table[f.fd].drv_num = DriverOf(f.path)

IosInv == IosTyped /\ HeldOnce /\ HeldByOne /\ InUseIsHeld /\ DriverIsSaved

LEMMA HoldsIs ==
  \A t : Holds(t) = FdsOf(files[t]) \cup InCall(call[t])
  BY DEF Holds, FdsOf, InCall

LEMMA HoldsIsNext ==
  \A t : Holds(t)' = FdsOf(files'[t]) \cup InCall(call'[t])
  BY DEF Holds, FdsOf, InCall

\* Only fds behind the standard files are held.
LEMMA HeldAreOpenFds ==
  ASSUME IosTyped, NEW t \in IoTask
  PROVE  Holds(t) \subseteq OpenFds
<1>1. files[t] \subseteq OpenFile /\ call[t] \in Call
  BY DEF IosTyped
<1>2. FdsOf(files[t]) \subseteq OpenFds
  BY <1>1 DEF FdsOf, OpenFile
<1>3. InCall(call[t]) \subseteq OpenFds
  BY <1>1 DEF InCall, Call, Out
<1> QED
  BY <1>2, <1>3, HoldsIs

\* IosInv is the property that the run checks, and more.
LEMMA IosInvImplies == IosInv => FdHeldByOne
<1> SUFFICES ASSUME IosInv PROVE FdHeldByOne
  OBVIOUS
<1>1. \A t \in IoTask : Holds(t) \subseteq OpenFds
  BY HeldAreOpenFds DEF IosInv
<1>2. DOMAIN fd_table = Fds
  BY DEF IosInv, IosTyped
<1>3. DOMAIN fd_table \ FreeFds = 0 .. 2 \cup UNION {Holds(t) : t \in IoTask}
  <2>1. DOMAIN fd_table \ FreeFds = {i \in Fds : fd_table[i].inuse}
    BY <1>2 DEF FreeFds
  <2>2. \A i \in Fds : i < 3 <=> i \in 0 .. 2
    BY DEF Fds
  <2>3. 0 .. 2 \subseteq Fds /\ OpenFds \subseteq Fds
    BY IosAssumption DEF Fds, OpenFds
  <2>4. UNION {Holds(t) : t \in IoTask} \subseteq Fds
    BY <1>1, <2>3, Zenon
  <2>5. \A i : i \in UNION {Holds(t) : t \in IoTask} <=> \E t \in IoTask : i \in Holds(t)
    BY Zenon
  <2>6. \A i \in Fds : fd_table[i].inuse <=>
          i \in 0 .. 2 \/ i \in UNION {Holds(t) : t \in IoTask}
    BY <2>2, <2>5, Zenon DEF IosInv, InUseIsHeld
  <2> QED
    BY <2>1, <2>3, <2>4, <2>6, Zenon
<1> QED
  BY <1>3, Zenon DEF FdHeldByOne, IosInv, HeldByOne, DriverIsSaved

LEMMA IosInitHolds == iosInit => IosInv
<1> SUFFICES ASSUME iosInit PROVE IosInv
  OBVIOUS
<1>1. IosTyped
  <2>1. fd_table \in [Fds -> Entry]
    <3>1. \A i \in Fds : [drv_num |-> 0, open_data |-> 0, inuse |-> i < 3] \in Entry
      BY DEF Fds, Entry, DrvNum
    <3> QED
      BY <3>1 DEF iosInit, Fds
  <2>2. call \in [IoTask -> Call] /\ files \in [IoTask -> SUBSET OpenFile]
    BY DEF iosInit, Call
  <2> QED
    BY <2>1, <2>2 DEF IosTyped
<1>2. \A t \in IoTask : files[t] = {} /\ call[t] = Out
  BY DEF iosInit
<1>3. \A t \in IoTask : Holds(t) = {}
  BY <1>2 DEF Holds
<1>4. HeldOnce /\ HeldByOne /\ DriverIsSaved
  BY <1>2, <1>3 DEF HeldOnce, HeldByOne, DriverIsSaved, InCall
<1>5. InUseIsHeld
  BY <1>3 DEF InUseIsHeld, iosInit, Fds
<1> QED
  BY <1>1, <1>4, <1>5 DEF IosInv

-----------------------------------------------------------------------------
(* The three things that a step may do to who holds what.                  *)

\* Task t takes fd, which was free, where fd is -1 nothing.
Takes(t, fd) ==
  /\ \A u \in IoTask \ {t} : Holds(u)' = Holds(u)
  /\ Holds(t)' = Holds(t) \cup ({fd} \ {-1})
  /\ \A i \in Fds : fd_table'[i].inuse <=> fd_table[i].inuse \/ i = fd
  /\ fd \in FreeFds \cup {-1}

Gives(t, fd) ==
  /\ \A u \in IoTask \ {t} : Holds(u)' = Holds(u)
  /\ Holds(t)' = Holds(t) \ {fd}
  /\ \A i \in Fds : fd_table'[i].inuse <=> fd_table[i].inuse /\ i # fd
  /\ fd \in Holds(t) \cup {-1}

Keeps ==
  /\ \A u \in IoTask : Holds(u)' = Holds(u)
  /\ \A i \in Fds : fd_table'[i].inuse <=> fd_table[i].inuse

HoldersOK == HeldByOne /\ InUseIsHeld

LEMMA HoldersKept ==
  ASSUME IosInv, Keeps
  PROVE  HoldersOK'
<1>1. HeldByOne'
  BY DEF HeldByOne, IosInv, Keeps
<1>2. InUseIsHeld'
  BY DEF InUseIsHeld, IosInv, Keeps
<1> QED
  BY <1>1, <1>2 DEF HoldersOK

LEMMA HoldersTake ==
  ASSUME IosInv, NEW t \in IoTask, NEW fd, Takes(t, fd)
  PROVE  HoldersOK'
<1>1. fd \in FreeFds => fd \in Fds /\ \A u \in IoTask : fd \notin Holds(u)
  BY DEF FreeFds, IosInv, IosTyped, InUseIsHeld
<1>2. -1 \notin Fds
  BY DEF Fds
<1>3. HeldByOne'
  BY <1>1 DEF HeldByOne, IosInv, Takes
<1>4. InUseIsHeld'
  BY <1>1, <1>2 DEF InUseIsHeld, IosInv, Takes
<1> QED
  BY <1>3, <1>4 DEF HoldersOK

LEMMA HoldersGive ==
  ASSUME IosInv, NEW t \in IoTask, NEW fd, Gives(t, fd)
  PROVE  HoldersOK'
<1>1. fd \in Holds(t) => ~ fd < 3 /\ \A u \in IoTask \ {t} : fd \notin Holds(u)
  BY HeldAreOpenFds DEF OpenFds, IosInv, HeldByOne
<1>2. -1 \notin Fds
  BY DEF Fds
<1>3. HeldByOne'
  BY DEF HeldByOne, IosInv, Gives
<1>4. InUseIsHeld'
  BY <1>1, <1>2 DEF InUseIsHeld, IosInv, Gives
<1> QED
  BY <1>3, <1>4 DEF HoldersOK

\* Every set of natural numbers that is not empty has a least element.
LEMMA LeastExists ==
  ASSUME NEW S \in SUBSET Nat, S # {}
  PROVE  \E x \in S : \A y \in S : x <= y
<1>1. PICK x \in S : \A y \in S : ~ (<<y, x>> \in OpToRel(<, Nat))
  BY NatLessThanWellFounded, WFMin
<1>2. \A y \in S : x <= y
  <2>1. TAKE y \in S
  <2>2. ~ (y < x)
    BY <1>1 DEF OpToRel
  <2> QED
    BY <2>2
<1> QED
  BY <1>1, <1>2

\* The first free entry is free.
LEMMA FirstFreeIsFree ==
  ASSUME IosTyped, FreeFds # {}
  PROVE  FirstFree \in FreeFds
<1>1. FreeFds \in SUBSET Nat
  BY DEF FreeFds, IosTyped, Fds
<1>2. \E i \in FreeFds : \A j \in FreeFds : i <= j
  BY <1>1, LeastExists
<1> QED
  BY <1>2, Zenon DEF FirstFree

\* fd_table with the mark of fd set to m, and with the driver of fd set to d.
Marked(fd, m) == [fd_table EXCEPT ![fd].inuse = m]
Driven(fd, d) == [fd_table EXCEPT ![fd].drv_num = d]

LEMMA MarkedIs ==
  ASSUME IosTyped, NEW fd \in Fds, NEW m \in BOOLEAN
  PROVE  /\ Marked(fd, m) \in [Fds -> Entry]
         /\ \A i \in Fds : Marked(fd, m)[i].inuse = IF i = fd THEN m ELSE fd_table[i].inuse
         /\ \A i \in Fds : Marked(fd, m)[i].drv_num = fd_table[i].drv_num
  BY DEF IosTyped, Marked, Entry

LEMMA DrivenIs ==
  ASSUME IosTyped, NEW fd \in Fds, NEW d \in DrvNum
  PROVE  /\ Driven(fd, d) \in [Fds -> Entry]
         /\ \A i \in Fds : Driven(fd, d)[i].inuse = fd_table[i].inuse
         /\ \A i \in Fds : Driven(fd, d)[i].drv_num = IF i = fd THEN d ELSE fd_table[i].drv_num
  BY DEF IosTyped, Driven, Entry

\* What a step has to show of the task that makes it: what it holds once, and the
\* drivers of its files.
OwnOK(t) ==
  /\ \A f, g \in files[t] : f.fd = g.fd => f = g
  /\ FdsOf(files[t]) \cap InCall(call[t]) = {}
  /\ \A f \in files[t] : fd_table[f.fd].drv_num = DriverOf(f.path)

LEMMA OwnIs ==
  HeldOnce /\ DriverIsSaved <=> \A t \in IoTask : OwnOK(t)
  BY DEF HeldOnce, DriverIsSaved, OwnOK

LEMMA OwnIsNext ==
  (\A t \in IoTask : OwnOK(t)') => HeldOnce' /\ DriverIsSaved'
  BY DEF HeldOnce, DriverIsSaved, OwnOK

\* A step of task t leaves the others alone.
OthersKeep(t) ==
  \A u \in IoTask \ {t} :
    /\ files'[u] = files[u] /\ call'[u] = call[u]
    /\ \A f \in files[u] : fd_table'[f.fd].drv_num = fd_table[f.fd].drv_num

LEMMA OthersAreOK ==
  ASSUME IosInv, NEW t \in IoTask, OthersKeep(t), OwnOK(t)'
  PROVE  HeldOnce' /\ DriverIsSaved'
<1>1. ASSUME NEW u \in IoTask \ {t} PROVE OwnOK(u)'
  BY <1>1 DEF OwnOK, OthersKeep, IosInv, HeldOnce, DriverIsSaved
<1> QED
  BY <1>1, OwnIsNext

\* What a step of task t has to keep.
LEMMA StepIs ==
  ASSUME IosInv, NEW t \in IoTask, IosTyped', HoldersOK', OwnOK(t)', OthersKeep(t)
  PROVE  IosInv'
<1>1. HeldOnce' /\ DriverIsSaved'
  BY OthersAreOK
<1> QED
  BY <1>1 DEF IosInv, HoldersOK

\* Nobody's driver changes where none does.
LEMMA OthersKept ==
  ASSUME IosInv, NEW t \in IoTask,
         \A u \in IoTask \ {t} : files'[u] = files[u] /\ call'[u] = call[u],
         \A i \in Fds : fd_table'[i].drv_num = fd_table[i].drv_num
  PROVE  OthersKeep(t)
<1>1. \A u \in IoTask : \A f \in files[u] : f.fd \in Fds
  BY DEF IosInv, IosTyped, OpenFile, OpenFds, Fds
<1> QED
  BY <1>1 DEF OthersKeep

-----------------------------------------------------------------------------
(* The steps.                                                              *)

LEMMA OpenAllocKeeps ==
  ASSUME IosInv, NEW t \in IoTask, NEW path \in Paths, OpenAlloc(t, path)
  PROVE  IosInv'
<1> DEFINE fd == FirstFree
           c  == [op |-> "open", fd |-> fd, path |-> path]
<1>1. /\ call[t] = Out /\ call' = [call EXCEPT ![t] = c] /\ files' = files
      /\ fd_table' = IF FreeFds = {} THEN fd_table ELSE Marked(fd, TRUE)
  BY DEF OpenAlloc, iosAllocFd, Marked
<1>2. IosTyped /\ call \in [IoTask -> Call] /\ files \in [IoTask -> SUBSET OpenFile]
  BY DEF IosInv, IosTyped
<1>3. FreeFds \subseteq OpenFds /\ FreeFds \subseteq Fds
  BY DEF FreeFds, IosInv, IosTyped, InUseIsHeld, Fds, OpenFds
<1>4. (fd = -1 /\ FreeFds = {}) \/ fd \in FreeFds
  BY <1>2, FirstFreeIsFree DEF FirstFree
<1> HIDE DEF fd
<1>5. fd \in OpenFds \cup {-1}
  BY <1>3, <1>4
<1>6. c \in Call /\ InCall(c) = {fd} \ {-1}
  BY <1>5 DEF Call, InCall, Out
<1>7. /\ fd_table' \in [Fds -> Entry]
      /\ \A i \in Fds : fd_table'[i].inuse <=> fd_table[i].inuse \/ i = fd
      /\ \A i \in Fds : fd_table'[i].drv_num = fd_table[i].drv_num
  <2>1. CASE FreeFds = {}
    <3>1. -1 \notin Fds
      BY DEF Fds
    <3> QED
      BY <1>1, <1>2, <1>4, <2>1, <3>1 DEF IosTyped
  <2>2. CASE FreeFds # {}
    <3>1. fd \in Fds
      BY <1>3, <1>4, <2>2
    <3>2. TRUE \in BOOLEAN
      OBVIOUS
    <3>3. /\ Marked(fd, TRUE) \in [Fds -> Entry]
          /\ \A i \in Fds : Marked(fd, TRUE)[i].inuse = IF i = fd THEN TRUE ELSE fd_table[i].inuse
          /\ \A i \in Fds : Marked(fd, TRUE)[i].drv_num = fd_table[i].drv_num
      <4> DEFINE m == TRUE
      <4>1. m \in BOOLEAN /\ m
        OBVIOUS
      <4> HIDE DEF m
      <4>2. /\ Marked(fd, m) \in [Fds -> Entry]
            /\ \A i \in Fds : Marked(fd, m)[i].inuse = IF i = fd THEN m ELSE fd_table[i].inuse
            /\ \A i \in Fds : Marked(fd, m)[i].drv_num = fd_table[i].drv_num
        BY <1>2, <3>1, <4>1, MarkedIs
      <4> QED
        BY <4>2 DEF m
    <3>4. fd_table' = Marked(fd, TRUE)
      BY <1>1, <2>2
    <3> QED
      BY <3>3, <3>4
  <2> QED
    BY <2>1, <2>2
<1> HIDE DEF c
<1>8. IosTyped'
  BY <1>1, <1>2, <1>6, <1>7 DEF IosTyped
<1>9. Takes(t, fd)
  <2>1. call'[t] = c /\ \A u \in IoTask \ {t} : call'[u] = call[u]
    BY <1>1, <1>2
  <2>2. Holds(t)' = Holds(t) \cup ({fd} \ {-1})
    <3>1. InCall(call[t]) = {}
      BY <1>1 DEF InCall
    <3> QED
      BY <1>1, <1>6, <2>1, <3>1, HoldsIs, HoldsIsNext
  <2>3. \A u \in IoTask \ {t} : Holds(u)' = Holds(u)
    BY <1>1, <2>1, HoldsIs, HoldsIsNext
  <2> QED
    BY <1>4, <1>7, <2>2, <2>3 DEF Takes
<1>10. HoldersOK'
  BY <1>9, HoldersTake
<1>11. OwnOK(t)'
  <2>1. \A f \in files[t] : f.fd \in Fds
    BY <1>2 DEF OpenFile, OpenFds, Fds
  <2>2. \A f \in files[t] : f.fd # fd
    <3>1. \A f \in files[t] : f.fd \in Holds(t)
      BY DEF Holds
    <3>2. \A f \in files[t] : fd_table[f.fd].inuse
      BY <2>1, <3>1 DEF IosInv, InUseIsHeld
    <3>3. fd \in FreeFds => ~ fd_table[fd].inuse
      BY DEF FreeFds
    <3>4. -1 \notin Fds
      BY DEF Fds
    <3> QED
      BY <1>4, <2>1, <3>2, <3>3, <3>4
  <2>3. call'[t] = c
    BY <1>1, <1>2
  <2>4. FdsOf(files[t]) \cap InCall(c) = {}
    BY <1>6, <2>2 DEF FdsOf
  <2> QED
    BY <1>1, <1>7, <2>1, <2>3, <2>4 DEF OwnOK, IosInv, HeldOnce, DriverIsSaved
<1>12. OthersKeep(t)
  <2>1. \A u \in IoTask \ {t} : files'[u] = files[u] /\ call'[u] = call[u]
    BY <1>1, <1>2
  <2> QED
    BY <1>7, <2>1, OthersKept
<1> QED
  BY <1>8, <1>10, <1>11, <1>12, StepIs

LEMMA OpenDriverKeeps ==
  ASSUME IosInv, NEW t \in IoTask, OpenDriver(t)
  PROVE  IosInv'
<1>1. PICK d \in OpenData :
        call' = [call EXCEPT ![t] = [op |-> "opened", fd |-> @.fd, path |-> @.path, data |-> d]]
  BY DEF OpenDriver, OpenData
<1> DEFINE c == [op |-> "opened", fd |-> call[t].fd, path |-> call[t].path, data |-> d]
<1>2. call[t].op = "open" /\ fd_table' = fd_table /\ files' = files
  BY DEF OpenDriver
<1>3. IosTyped /\ call \in [IoTask -> Call] /\ files \in [IoTask -> SUBSET OpenFile]
  BY DEF IosInv, IosTyped
<1>4. call[t] \in [op : {"open"}, fd : OpenFds \cup {-1}, path : Paths]
  <2>1. call[t] \in Call
    BY <1>3
  <2> QED
    BY <1>2, <2>1 DEF Call, Out
<1>5. c \in Call /\ InCall(c) = InCall(call[t])
  BY <1>4 DEF Call, InCall, Out
<1>6. call'[t] = c /\ \A u \in IoTask \ {t} : call'[u] = call[u]
  BY <1>1, <1>3
<1>7. call' \in [IoTask -> Call]
  BY <1>1, <1>3, <1>5
<1> HIDE DEF c
<1>8. IosTyped'
  BY <1>2, <1>3, <1>7 DEF IosTyped
<1>9. \A u \in IoTask : InCall(call'[u]) = InCall(call[u])
  BY <1>5, <1>6
<1>10. Keeps
  BY <1>2, <1>9, HoldsIs, HoldsIsNext DEF Keeps
<1>11. HoldersOK'
  BY <1>10, HoldersKept
<1>12. OwnOK(t)'
  BY <1>2, <1>9 DEF OwnOK, IosInv, HeldOnce, DriverIsSaved
<1>13. OthersKeep(t)
  BY <1>2, <1>6, OthersKept
<1> QED
  BY <1>8, <1>11, <1>12, <1>13, StepIs

LEMMA OpenEndKeeps ==
  ASSUME IosInv, NEW t \in IoTask, OpenEnd(t)
  PROVE  IosInv'
<1> DEFINE c == call[t]
           fd == c.fd
           new == [fd |-> fd, path |-> c.path, data |-> c.data]
<1>1. /\ c.op = "opened" /\ call' = [call EXCEPT ![t] = Out]
      /\ IF c.data = -1
         THEN fd_table' = iosFreeFd(fd) /\ files' = files
         ELSE /\ fd_table' = iosSaveDevNum(fd, DriverOf(c.path))
              /\ files' = IF fd = -1 THEN files ELSE [files EXCEPT ![t] = @ \cup {new}]
  BY DEF OpenEnd
<1>2. /\ IosTyped /\ call \in [IoTask -> Call] /\ files \in [IoTask -> SUBSET OpenFile]
      /\ fd_table \in [Fds -> Entry]
  BY DEF IosInv, IosTyped
<1>3. c \in [op : {"opened"}, fd : OpenFds \cup {-1}, path : Paths, data : OpenData]
  <2>1. c \in Call
    BY <1>2
  <2> QED
    BY <1>1, <2>1 DEF Call, Out
<1>4. /\ fd \in OpenFds \cup {-1} /\ DriverOf(c.path) \in DrvNum
      /\ new \in OpenFile \/ fd = -1
      /\ InCall(c) = {fd} \ {-1}
  BY <1>3 DEF DrvNum, OpenFile, InCall, Out
<1>5. -1 \notin Fds /\ OpenFds \subseteq Fds /\ DOMAIN fd_table = Fds
  BY <1>2, IosAssumption DEF Fds, OpenFds
<1>6. call' \in [IoTask -> Call]
  BY <1>1, <1>2 DEF Call
<1>7. call'[t] = Out /\ \A u \in IoTask \ {t} : call'[u] = call[u]
  BY <1>1, <1>2
<1>8. InCall(Out) = {}
  BY DEF InCall
<1>9. CASE c.data = -1
  <2>1. files' = files /\ fd_table' = IF fd \in Fds THEN Marked(fd, FALSE) ELSE fd_table
    BY <1>1, <1>5, <1>9 DEF iosFreeFd, Marked
  <2>2. /\ fd_table' \in [Fds -> Entry]
        /\ \A i \in Fds : fd_table'[i].inuse <=> fd_table[i].inuse /\ i # fd
        /\ \A i \in Fds : fd_table'[i].drv_num = fd_table[i].drv_num
    <3> HIDE DEF fd, new, c
    <3>1. CASE fd \in Fds
      <4> DEFINE m == FALSE
      <4>1. m \in BOOLEAN /\ ~ m
        OBVIOUS
      <4>2. fd_table' = Marked(fd, m)
        BY <2>1, <3>1
      <4> HIDE DEF m
      <4>3. /\ Marked(fd, m) \in [Fds -> Entry]
            /\ \A i \in Fds : Marked(fd, m)[i].inuse = IF i = fd THEN m ELSE fd_table[i].inuse
            /\ \A i \in Fds : Marked(fd, m)[i].drv_num = fd_table[i].drv_num
        BY <1>2, <3>1, <4>1, MarkedIs
      <4> QED
        BY <4>1, <4>2, <4>3
    <3>2. CASE fd \notin Fds
      BY <1>2, <2>1, <3>2
    <3> QED
      BY <3>1, <3>2
  <2> HIDE DEF fd, new
  <2>3. IosTyped'
    BY <1>2, <1>6, <2>1, <2>2 DEF IosTyped
  <2>4. Gives(t, fd)
    <3>1. fd = -1 \/ fd \in InCall(c)
      BY <1>4
    <3>2. FdsOf(files[t]) \cap InCall(c) = {}
      BY DEF IosInv, HeldOnce
    <3>3. -1 \notin Holds(t)
      BY <1>2, HeldAreOpenFds DEF OpenFds
    <3>4. Holds(t)' = Holds(t) \ {fd}
      BY <1>4, <1>7, <1>8, <2>1, <3>2, <3>3, HoldsIs, HoldsIsNext
    <3>5. \A u \in IoTask \ {t} : Holds(u)' = Holds(u)
      BY <1>7, <2>1, HoldsIs, HoldsIsNext
    <3> QED
      BY <2>2, <3>1, <3>4, <3>5, HoldsIs DEF Gives
  <2>5. HoldersOK'
    BY <2>4, HoldersGive
  <2>6. OwnOK(t)'
    <3>1. \A f \in files[t] : f.fd \in Fds
      BY <1>2, <1>5 DEF OpenFile
    <3> QED
      BY <1>7, <1>8, <2>1, <2>2, <3>1 DEF OwnOK, IosInv, HeldOnce, DriverIsSaved
  <2>7. OthersKeep(t)
    BY <1>7, <2>1, <2>2, OthersKept
  <2> QED
    BY <2>3, <2>5, <2>6, <2>7, StepIs
<1>10. CASE c.data # -1 /\ fd = -1
  <2>1. files' = files /\ fd_table' = fd_table
    BY <1>1, <1>5, <1>10 DEF iosSaveDevNum
  <2> HIDE DEF fd, new
  <2>2. IosTyped'
    BY <1>2, <1>6, <2>1 DEF IosTyped
  <2>3. \A u \in IoTask : InCall(call'[u]) = InCall(call[u])
    BY <1>4, <1>7, <1>8, <1>10
  <2>4. Keeps
    BY <2>1, <2>3, HoldsIs, HoldsIsNext DEF Keeps
  <2>5. HoldersOK'
    BY <2>4, HoldersKept
  <2>6. OwnOK(t)'
    BY <2>1, <2>3 DEF OwnOK, IosInv, HeldOnce, DriverIsSaved
  <2>7. OthersKeep(t)
    BY <1>7, <2>1, OthersKept
  <2> QED
    BY <2>2, <2>5, <2>6, <2>7, StepIs
<1>11. CASE c.data # -1 /\ fd # -1
  <2>1. /\ fd \in OpenFds /\ fd \in Fds /\ new \in OpenFile /\ DriverOf(c.path) \in DrvNum
        /\ InCall(c) = {fd}
    BY <1>4, <1>5, <1>11
  <2>2. /\ files' = [files EXCEPT ![t] = @ \cup {new}]
        /\ fd_table' = Driven(fd, DriverOf(c.path))
    BY <1>1, <1>5, <1>11, <2>1 DEF iosSaveDevNum, Driven
  <2>3. new.fd = fd /\ new.path = c.path
    OBVIOUS
  <2>4. /\ files'[t] = files[t] \cup {new} /\ files' \in [IoTask -> SUBSET OpenFile]
        /\ \A u \in IoTask \ {t} : files'[u] = files[u]
    BY <1>2, <2>1, <2>2
  <2> DEFINE d == DriverOf(c.path)
  <2> HIDE DEF fd, new, d
  <2>5. d \in DrvNum /\ fd_table' = Driven(fd, d)
    BY <2>1, <2>2 DEF d
  <2>6. /\ fd_table' \in [Fds -> Entry]
        /\ \A i \in Fds : fd_table'[i].inuse = fd_table[i].inuse
        /\ \A i \in Fds : fd_table'[i].drv_num = IF i = fd THEN d ELSE fd_table[i].drv_num
    BY <1>2, <2>1, <2>5, DrivenIs
  <2>7. IosTyped'
    BY <1>6, <2>4, <2>6 DEF IosTyped
  <2>8. FdsOf(files'[t]) = FdsOf(files[t]) \cup {fd}
    BY <2>3, <2>4 DEF FdsOf
  <2>9. Keeps
    <3>1. Holds(t)' = Holds(t)
      BY <1>7, <1>8, <2>1, <2>8, HoldsIs, HoldsIsNext
    <3>2. \A u \in IoTask \ {t} : Holds(u)' = Holds(u)
      BY <1>7, <2>4, HoldsIs, HoldsIsNext
    <3> QED
      BY <2>6, <3>1, <3>2 DEF Keeps
  <2>10. HoldersOK'
    BY <2>9, HoldersKept
  <2>11. \A u \in IoTask : \A f \in files[u] : f.fd \in Fds /\ f.fd # fd
    <3>1. \A u \in IoTask : \A f \in files[u] : f.fd \in Fds
      BY <1>2, <1>5 DEF OpenFile
    <3>2. \A f \in files[t] : f.fd # fd
      BY <2>1 DEF IosInv, HeldOnce, FdsOf
    <3>3. fd \in Holds(t)
      BY <2>1, HoldsIs
    <3>4. \A u \in IoTask \ {t} : fd \notin Holds(u)
      BY <3>3 DEF IosInv, HeldByOne
    <3>5. \A u \in IoTask : \A f \in files[u] : f.fd \in Holds(u)
      BY DEF Holds
    <3> QED
      BY <3>1, <3>2, <3>4, <3>5
  <2>12. OwnOK(t)'
    <3>1. \A f, g \in files'[t] : f.fd = g.fd => f = g
      BY <2>3, <2>4, <2>11 DEF IosInv, HeldOnce
    <3>2. \A f \in files'[t] : fd_table'[f.fd].drv_num = DriverOf(f.path)
      BY <2>1, <2>3, <2>4, <2>6, <2>11 DEF IosInv, DriverIsSaved, d
    <3> QED
      BY <1>7, <1>8, <3>1, <3>2 DEF OwnOK
  <2>13. OthersKeep(t)
    <3>1. \A u \in IoTask \ {t} : \A f \in files[u] :
            fd_table'[f.fd].drv_num = fd_table[f.fd].drv_num
      BY <2>6, <2>11
    <3> QED
      BY <1>7, <2>4, <3>1 DEF OthersKeep
  <2> QED
    BY <2>7, <2>10, <2>12, <2>13, StepIs
<1> QED
  BY <1>9, <1>10, <1>11

LEMMA CloseDriverKeeps ==
  ASSUME IosInv, NEW t \in IoTask, NEW f \in files[t], CloseDriver(t, f)
  PROVE  IosInv'
<1> DEFINE c == [op |-> "close", fd |-> f.fd]
<1>1. /\ call[t] = Out /\ call' = [call EXCEPT ![t] = c]
      /\ files' = [files EXCEPT ![t] = @ \ {f}] /\ fd_table' = fd_table
  BY DEF CloseDriver
<1>2. /\ IosTyped /\ call \in [IoTask -> Call] /\ files \in [IoTask -> SUBSET OpenFile]
      /\ fd_table \in [Fds -> Entry]
  BY DEF IosInv, IosTyped
<1>3. f \in OpenFile /\ f.fd \in OpenFds
  BY <1>2 DEF OpenFile
<1>4. c \in Call /\ InCall(c) = {f.fd} /\ InCall(call[t]) = {}
  BY <1>1, <1>3 DEF Call, InCall, Out, OpenFds
<1> HIDE DEF c
<1>5. /\ call'[t] = c /\ files'[t] = files[t] \ {f}
      /\ \A u \in IoTask \ {t} : call'[u] = call[u] /\ files'[u] = files[u]
  BY <1>1, <1>2
<1>6. IosTyped'
  <2>1. call' \in [IoTask -> Call]
    BY <1>1, <1>2, <1>4
  <2>2. files' \in [IoTask -> SUBSET OpenFile]
    BY <1>1, <1>2
  <2> QED
    BY <1>1, <1>2, <2>1, <2>2 DEF IosTyped
<1>7. \A g \in files[t] : g.fd = f.fd => g = f
  BY DEF IosInv, HeldOnce
<1>8. FdsOf(files'[t]) = FdsOf(files[t]) \ {f.fd} /\ f.fd \in FdsOf(files[t])
  BY <1>5, <1>7 DEF FdsOf
<1>9. Keeps
  <2>1. Holds(t)' = Holds(t)
    BY <1>4, <1>5, <1>8, HoldsIs, HoldsIsNext
  <2>2. \A u \in IoTask \ {t} : Holds(u)' = Holds(u)
    BY <1>5, HoldsIs, HoldsIsNext
  <2> QED
    BY <1>1, <2>1, <2>2 DEF Keeps
<1>10. HoldersOK'
  BY <1>9, HoldersKept
<1>11. OwnOK(t)'
  BY <1>1, <1>4, <1>5, <1>8 DEF OwnOK, IosInv, HeldOnce, DriverIsSaved
<1>12. OthersKeep(t)
  BY <1>1, <1>5, OthersKept
<1> QED
  BY <1>6, <1>10, <1>11, <1>12, StepIs

LEMMA CloseEndKeeps ==
  ASSUME IosInv, NEW t \in IoTask, CloseEnd(t)
  PROVE  IosInv'
<1> DEFINE fd == call[t].fd
<1>1. /\ call[t].op = "close" /\ call' = [call EXCEPT ![t] = Out]
      /\ fd_table' = iosFreeFd(fd) /\ files' = files
  BY DEF CloseEnd
<1>2. /\ IosTyped /\ call \in [IoTask -> Call] /\ files \in [IoTask -> SUBSET OpenFile]
      /\ fd_table \in [Fds -> Entry]
  BY DEF IosInv, IosTyped
<1>3. call[t] \in [op : {"close"}, fd : OpenFds]
  <2>1. call[t] \in Call
    BY <1>2
  <2> QED
    BY <1>1, <2>1 DEF Call, Out
<1>4. /\ fd \in OpenFds /\ fd \in Fds /\ InCall(call[t]) = {fd} /\ InCall(Out) = {}
      /\ DOMAIN fd_table = Fds
  BY <1>2, <1>3, IosAssumption DEF InCall, Out, OpenFds, Fds
<1>5. fd_table' = Marked(fd, FALSE)
  BY <1>1, <1>4 DEF iosFreeFd, Marked
<1> HIDE DEF fd
<1>6. /\ fd_table' \in [Fds -> Entry]
      /\ \A i \in Fds : fd_table'[i].inuse <=> fd_table[i].inuse /\ i # fd
      /\ \A i \in Fds : fd_table'[i].drv_num = fd_table[i].drv_num
  <2> DEFINE m == FALSE
  <2>1. m \in BOOLEAN /\ ~ m /\ fd_table' = Marked(fd, m)
    BY <1>5
  <2> HIDE DEF m
  <2>2. /\ Marked(fd, m) \in [Fds -> Entry]
        /\ \A i \in Fds : Marked(fd, m)[i].inuse = IF i = fd THEN m ELSE fd_table[i].inuse
        /\ \A i \in Fds : Marked(fd, m)[i].drv_num = fd_table[i].drv_num
    BY <1>2, <1>4, <2>1, MarkedIs
  <2> QED
    BY <2>1, <2>2
<1>7. call'[t] = Out /\ \A u \in IoTask \ {t} : call'[u] = call[u]
  BY <1>1, <1>2
<1>8. IosTyped'
  <2>1. call' \in [IoTask -> Call]
    BY <1>1, <1>2 DEF Call
  <2> QED
    BY <1>1, <1>2, <1>6, <2>1 DEF IosTyped
<1>9. Gives(t, fd)
  <2>1. FdsOf(files[t]) \cap {fd} = {}
    BY <1>4 DEF IosInv, HeldOnce
  <2>2. Holds(t)' = Holds(t) \ {fd} /\ fd \in Holds(t)
    BY <1>1, <1>4, <1>7, <2>1, HoldsIs, HoldsIsNext
  <2>3. \A u \in IoTask \ {t} : Holds(u)' = Holds(u)
    BY <1>1, <1>7, HoldsIs, HoldsIsNext
  <2> QED
    BY <1>6, <2>2, <2>3 DEF Gives
<1>10. HoldersOK'
  BY <1>9, HoldersGive
<1>11. OwnOK(t)'
  <2>1. \A f \in files[t] : f.fd \in Fds
    BY <1>2 DEF OpenFile, OpenFds, Fds
  <2> QED
    BY <1>1, <1>4, <1>6, <1>7, <2>1 DEF OwnOK, IosInv, HeldOnce, DriverIsSaved
<1>12. OthersKeep(t)
  BY <1>1, <1>6, <1>7, OthersKept
<1> QED
  BY <1>8, <1>10, <1>11, <1>12, StepIs

LEMMA IosStepKeeps == IosInv /\ [iosNext]_iosVars => IosInv'
<1> SUFFICES ASSUME IosInv, [iosNext]_iosVars PROVE IosInv'
  OBVIOUS
<1>1. ASSUME NEW t \in IoTask, NEW path \in Paths, OpenAlloc(t, path) PROVE IosInv'
  BY <1>1, OpenAllocKeeps
<1>2. ASSUME NEW t \in IoTask, OpenDriver(t) PROVE IosInv'
  BY <1>2, OpenDriverKeeps
<1>3. ASSUME NEW t \in IoTask, OpenEnd(t) PROVE IosInv'
  BY <1>3, OpenEndKeeps
<1>4. ASSUME NEW t \in IoTask, NEW f \in files[t], CloseDriver(t, f) PROVE IosInv'
  BY <1>4, CloseDriverKeeps
<1>5. ASSUME NEW t \in IoTask, CloseEnd(t) PROVE IosInv'
  BY <1>5, CloseEndKeeps
<1>6. CASE UNCHANGED iosVars
  <2>1. UNCHANGED <<fd_table, call, files>>
    BY <1>6 DEF iosVars
  <2>2. \A t : Holds(t)' = Holds(t)
    BY <2>1 DEF Holds
  <2>3. IosTyped'
    BY <2>1 DEF IosInv, IosTyped
  <2>4. HeldOnce' /\ DriverIsSaved'
    BY <2>1 DEF IosInv, HeldOnce, DriverIsSaved
  <2>5. HeldByOne' /\ InUseIsHeld'
    BY <2>1, <2>2 DEF IosInv, HeldByOne, InUseIsHeld
  <2> QED
    BY <2>3, <2>4, <2>5 DEF IosInv
<1> QED
  BY <1>1, <1>2, <1>3, <1>4, <1>5, <1>6 DEF iosNext

\* However the opens and closes of several tasks interleave, a file descriptor has one
\* holder from iosAllocFd to iosFreeFd, none is lost, and the entry of an open file has
\* the driver of its path, for every size of _G_fd_table.
THEOREM FdHeldByOneHolds == iosSpec => []FdHeldByOne
<1>1. iosInit => IosInv
  BY IosInitHolds
<1>2. IosInv /\ [iosNext]_iosVars => IosInv'
  BY IosStepKeeps
<1>3. IosInv => FdHeldByOne
  BY IosInvImplies
<1> QED
  BY <1>1, <1>2, <1>3, PTL DEF iosSpec

-----------------------------------------------------------------------------
(* tetris: the steps of auto_task, and the end of the game.                *)

Keys    == {"DOWN", "BOTTOM", "MOVE", "AUTO", "HOLD", "QUIT"}
Message == [msg : Keys, of : {"task", "block", "gone"}]
Autos   == [task : {"none", "new", "posts"}, left : Nat, gone : BOOLEAN]

\* In front of a message of auto_task lie only steps of its own or of the player: a
\* message that lands the block has no step of auto_task behind it.
Fine(q) ==
  /\ q \in Seq(Message)
  /\ \A i, j \in 1 .. Len(q) : (q[i].of # "task" /\ j < i) => q[j].msg = "MOVE"
  /\ \A i \in 1 .. Len(q) : q[i].of = "gone" => off

TasksTyped ==
  /\ auto \in Autos
  /\ in_auto \in BOOLEAN /\ off \in BOOLEAN /\ burst \in BOOLEAN

\* While auto_task keeps the processor, the queue holds nothing but steps.
OnlySteps ==
  burst => /\ auto.task # "new"
           /\ auto.task = "posts" => \A i \in 1 .. Len(queue) : queue[i].msg = "MOVE"

\* An auto_task outlives the auto mode only if the mode was switched off, and its
\* block only then, too.
AutoOutlives ==
  /\ auto.task # "none" /\ ~ in_auto => off
  /\ auto.gone => off

TasksInv == TasksTyped /\ Fine(queue) /\ OnlySteps /\ AutoOutlives

\* A message of a task at the end of the queue.
LEMMA PostedKeeps ==
  ASSUME NEW q, Fine(q), NEW m \in Keys
  PROVE  Fine(Sent(q, Posted(m)))
<1> DEFINE p == Posted(m)
           r == Append(q, p)
<1>1. p \in Message /\ p.of = "task"
  BY DEF Posted, Message
<1> HIDE DEF p
<1>2. /\ r \in Seq(Message) /\ Len(r) = Len(q) + 1 /\ Len(q) \in Nat
      /\ \A i \in 1 .. Len(q) : r[i] = q[i]
      /\ r[Len(q) + 1] = p
  BY <1>1 DEF Fine
<1> HIDE DEF r
<1>3. \A i \in 1 .. Len(r) : i \in 1 .. Len(q) \/ (i = Len(q) + 1 /\ r[i].of = "task")
  BY <1>1, <1>2
<1>4. \A i, j \in 1 .. Len(r) : (r[i].of # "task" /\ j < i) => r[j].msg = "MOVE"
  <2> SUFFICES ASSUME NEW i \in 1 .. Len(r), NEW j \in 1 .. Len(r), r[i].of # "task", j < i
               PROVE  r[j].msg = "MOVE"
    OBVIOUS
  <2>1. i \in 1 .. Len(q) /\ j \in 1 .. Len(q)
    BY <1>2, <1>3
  <2> QED
    BY <1>2, <2>1 DEF Fine
<1>5. \A i \in 1 .. Len(r) : r[i].of = "gone" => off
  BY <1>2, <1>3 DEF Fine
<1>6. Sent(q, Posted(m)) = q \/ Sent(q, Posted(m)) = r
  BY DEF Sent, r, p
<1> QED
  BY <1>2, <1>4, <1>5, <1>6 DEF Fine

\* A message of auto_task behind nothing but steps.
LEMMA StepKeeps ==
  ASSUME NEW q, Fine(q), NEW p \in Message, p.of = "gone" => off,
         \A i \in 1 .. Len(q) : q[i].msg = "MOVE"
  PROVE  /\ Fine(Sent(q, p))
         /\ p.msg = "MOVE" =>
              \A i \in 1 .. Len(Sent(q, p)) : Sent(q, p)[i].msg = "MOVE"
<1> DEFINE r == Append(q, p)
<1>1. /\ r \in Seq(Message) /\ Len(r) = Len(q) + 1 /\ Len(q) \in Nat
      /\ \A i \in 1 .. Len(q) : r[i] = q[i]
      /\ r[Len(q) + 1] = p
  BY DEF Fine
<1>2. Sent(q, p) = q \/ Sent(q, p) = r
  BY DEF Sent
<1> HIDE DEF r
<1>3. \A i \in 1 .. Len(r) : i \in 1 .. Len(q) \/ i = Len(q) + 1
  BY <1>1
<1>4. \A i, j \in 1 .. Len(r) : (r[i].of # "task" /\ j < i) => r[j].msg = "MOVE"
  <2> SUFFICES ASSUME NEW i \in 1 .. Len(r), NEW j \in 1 .. Len(r), j < i
               PROVE  r[j].msg = "MOVE"
    OBVIOUS
  <2>1. j \in 1 .. Len(q)
    BY <1>1
  <2> QED
    BY <1>1, <2>1
<1>5. \A i \in 1 .. Len(r) : r[i].of = "gone" => off
  BY <1>1, <1>3 DEF Fine
<1>6. p.msg = "MOVE" => \A i \in 1 .. Len(r) : r[i].msg = "MOVE"
  BY <1>1, <1>3
<1> QED
  BY <1>1, <1>2, <1>4, <1>5, <1>6 DEF Fine

\* The rest of the queue; behind a message that is no step all are of tasks.
LEMMA TailIs ==
  ASSUME Fine(queue), queue # << >>
  PROVE  /\ Fine(Tail(queue))
         /\ Head(queue).msg # "MOVE" =>
              \A i \in 1 .. Len(Tail(queue)) : Tail(queue)[i].of = "task"
<1>1. queue \in Seq(Message)
  BY DEF Fine
<1> DEFINE q == Tail(queue)
<1>2. /\ q \in Seq(Message) /\ Len(q) = Len(queue) - 1 /\ Len(queue) \in Nat
      /\ \A i \in 1 .. Len(q) : q[i] = queue[i + 1]
      /\ Head(queue) = queue[1] /\ 1 \in 1 .. Len(queue)
  BY <1>1
<1> HIDE DEF q
<1>3. \A i, j \in 1 .. Len(q) : (q[i].of # "task" /\ j < i) => q[j].msg = "MOVE"
  <2> TAKE i, j \in 1 .. Len(q)
  <2>1. /\ i + 1 \in 1 .. Len(queue) /\ j + 1 \in 1 .. Len(queue) /\ (j < i => j + 1 < i + 1)
        /\ q[i] = queue[i + 1] /\ q[j] = queue[j + 1]
    BY <1>2
  <2> QED
    BY <2>1 DEF Fine
<1>4. \A i \in 1 .. Len(q) : (q[i].of = "gone" => off) /\ (Head(queue).msg # "MOVE" => q[i].of = "task")
  <2> TAKE i \in 1 .. Len(q)
  <2>1. i + 1 \in 1 .. Len(queue) /\ 1 < i + 1 /\ q[i] = queue[i + 1]
    BY <1>2
  <2> QED
    BY <1>2, <2>1 DEF Fine
<1> QED
  BY <1>2, <1>3, <1>4 DEF Fine, q

\* A step that leaves auto_task and the mode alone, and takes the processor from it.
LEMMA FineKeeps ==
  ASSUME TasksInv, Fine(queue)', UNCHANGED <<in_auto, auto, off>>, burst' = FALSE
  PROVE  TasksInv'
  BY DEF TasksInv, TasksTyped, OnlySteps, AutoOutlives

\* A landing block keeps the invariant.
LEMMA NewBlockKeeps ==
  ASSUME TasksInv, queue # << >>, Head(queue).msg # "MOVE", new_block(Tail(queue)),
         in_auto' = in_auto, burst' = FALSE
  PROVE  TasksInv'
<1> DEFINE q == Tail(queue)
<1>1. Fine(q) /\ \A i \in 1 .. Len(q) : q[i].of = "task"
  BY TailIs DEF TasksInv
<1>2. /\ queue' = IF in_auto THEN Gone(q) ELSE << >>
      /\ in_auto => auto' \in {NewAuto, NoAuto} /\ off' = FALSE
      /\ ~ in_auto => auto' = [auto EXCEPT !.gone = (auto.task = "posts")] /\ off' = off
  BY DEF new_block
<1> HIDE DEF q
<1>3. TasksTyped
  BY DEF TasksInv
<1>4. CASE in_auto
  <2>1. Gone(q) = [i \in 1 .. Len(q) |-> q[i]]
    <3>1. \A i \in 1 .. Len(q) : q[i].of # "block"
      BY <1>1
    <3> QED
      BY <3>1, Zenon DEF Gone
  <2>2. /\ queue' \in Seq(Message) /\ Len(queue') = Len(q)
        /\ \A i \in 1 .. Len(q) : queue'[i] = q[i]
    <3>1. q \in Seq(Message) /\ Len(q) \in Nat /\ \A i \in 1 .. Len(q) : q[i] \in Message
      BY <1>1 DEF Fine
    <3>2. queue' = [i \in 1 .. Len(q) |-> q[i]]
      BY <1>2, <1>4, <2>1
    <3> QED
      BY <3>1, <3>2
  <2>3. Fine(queue)'
    BY <1>1, <2>2 DEF Fine
  <2>4. auto' \in Autos /\ ~ auto'.gone
    <3>1. NewAuto \in Autos /\ ~ NewAuto.gone
      BY TetrisTasksAssumption DEF NewAuto, Autos
    <3>2. NoAuto \in Autos /\ ~ NoAuto.gone
      BY DEF NoAuto, Autos
    <3> QED
      BY <1>2, <1>4, <3>1, <3>2
  <2> QED
    BY <1>2, <1>3, <1>4, <2>3, <2>4 DEF TasksInv, TasksTyped, OnlySteps, AutoOutlives
<1>5. CASE ~ in_auto
  <2>1. queue' = << >> /\ off' = off
    BY <1>2, <1>5
  <2>2. Fine(queue)'
    BY <2>1 DEF Fine
  <2>3. auto' \in Autos /\ auto'.task = auto.task /\ (auto'.gone => auto.task # "none")
    <3> DEFINE b == auto.task = "posts"
    <3>1. b \in BOOLEAN /\ auto' = [auto EXCEPT !.gone = b] /\ (b => auto.task # "none")
      BY <1>2, <1>5
    <3> HIDE DEF b
    <3>2. auto' \in Autos /\ auto'.task = auto.task /\ auto'.gone = b
      BY <1>3, <3>1 DEF TasksTyped, Autos
    <3> QED
      BY <3>1, <3>2
  <2> QED
    BY <1>3, <1>5, <2>1, <2>2, <2>3 DEF TasksInv, TasksTyped, OnlySteps, AutoOutlives
<1> QED
  BY <1>3, <1>4, <1>5 DEF TasksTyped

\* So does the end of the game.
LEMMA QuitKeeps ==
  ASSUME TasksInv, queue # << >>, quit(Tail(queue)), in_auto' = in_auto, burst' = FALSE
  PROVE  TasksInv'
<1>1. queue' = Tail(queue) /\ auto' = NoAuto /\ off' = off
  BY DEF quit
<1>2. auto' \in Autos /\ auto'.task = "none" /\ ~ auto'.gone
  BY <1>1 DEF NoAuto, Autos
<1>3. Fine(queue)'
  BY <1>1, TailIs DEF TasksInv, Fine
<1> QED
  BY <1>1, <1>2, <1>3 DEF TasksInv, TasksTyped, OnlySteps, AutoOutlives

LEMMA TasksInitHolds == tasksInit => TasksInv
<1> SUFFICES ASSUME tasksInit PROVE TasksInv
  OBVIOUS
<1>1. queue = << >> /\ auto = NoAuto /\ in_auto = FALSE /\ off = FALSE /\ burst = FALSE
  BY DEF tasksInit
<1>2. auto \in Autos /\ auto.task = "none" /\ ~ auto.gone
  BY <1>1 DEF NoAuto, Autos
<1>3. Fine(<< >>)
  BY DEF Fine
<1>4. Fine(queue) /\ in_auto \in BOOLEAN /\ off \in BOOLEAN /\ burst \in BOOLEAN /\ ~ burst
  BY <1>1, <1>3, Zenon
<1> QED
  BY <1>2, <1>4, Zenon DEF TasksInv, TasksTyped, OnlySteps, AutoOutlives

Sends ==
  \/ \E m \in Keys : Key(m)
  \/ KeyOver \/ PlayerAstray \/ Quit \/ down_task \/ DownSends \/ QuitStep \/ Clock

\* What the player and down_task send keeps it, and so does the end of the queue.
LEMMA SendersKeep ==
  ASSUME TasksInv, Sends
  PROVE  TasksInv'
<1>1. Fine(queue) /\ Fine(<< >>)
  BY DEF TasksInv, Fine
<1>2. \A m \in Keys : Fine(Sent(queue, Posted(m)))
  BY <1>1, PostedKeeps
<1>3. \A m \in Keys : Fine(Sent(Sent(queue, Posted(m)), Posted(m)))
  BY <1>2, PostedKeeps
<1>4. UNCHANGED <<in_auto, auto, off>>
  BY DEF Sends, Key, KeyOver, PlayerAstray, Quit, down_task, DownSends, QuitStep, Clock, boardVars
<1>5. CASE UNCHANGED <<queue, burst>>
  BY <1>4, <1>5 DEF TasksInv, TasksTyped, OnlySteps, AutoOutlives, Fine
<1>6. CASE queue' = << >> /\ burst' = burst
  <2>1. Fine(queue)'
    BY <1>6 DEF Fine
  <2>2. \A i \in 1 .. Len(queue') : FALSE
    BY <1>6
  <2> QED
    BY <1>4, <1>6, <2>1, <2>2 DEF TasksInv, TasksTyped, OnlySteps, AutoOutlives
<1>7. ASSUME Fine(queue'), burst' = FALSE PROVE TasksInv'
  BY <1>4, <1>7, FineKeeps DEF Fine
<1>8. ASSUME NEW m \in Keys, Key(m) PROVE TasksInv'
  BY <1>2, <1>3, <1>7, <1>8 DEF Key
<1>9. CASE KeyOver \/ PlayerAstray \/ Clock
  BY <1>5, <1>9 DEF KeyOver, PlayerAstray, Clock
<1>10. CASE Quit
  BY <1>2, <1>5, <1>7, <1>10 DEF Quit, Keys
<1>11. CASE down_task \/ DownSends
  BY <1>1, <1>2, <1>7, <1>11 DEF down_task, DownSends, Keys
<1>12. CASE QuitStep
  BY <1>5, <1>6, <1>12 DEF QuitStep
<1> QED
  BY <1>8, <1>9, <1>10, <1>11, <1>12 DEF Sends

Jobs == JobMove \/ JobHeld \/ JobDown \/ JobAuto \/ JobHold \/ JobQuit

\* What job_task does with a message keeps it.
LEMMA JobKeeps ==
  ASSUME TasksInv, Jobs
  PROVE  TasksInv'
<1>1. queue # << >> /\ burst' = FALSE
  BY DEF Jobs, JobMove, JobHeld, JobDown, JobAuto, JobHold, JobQuit, Receive
<1>2. Fine(Tail(queue))
  BY <1>1, TailIs DEF TasksInv
<1>3. ASSUME queue' = Tail(queue), UNCHANGED <<in_auto, auto, off>> PROVE TasksInv'
  <2>1. Fine(queue)'
    BY <1>2, <1>3 DEF Fine
  <2> QED
    BY <1>1, <1>3, <2>1, FineKeeps
<1>4. CASE JobMove \/ JobHeld \/ JobHold
  BY <1>3, <1>4 DEF JobMove, JobHeld, JobHold, boardVars
<1>5. CASE JobDown
  <2>1. CASE queue' = Tail(queue) /\ UNCHANGED <<in_auto, auto, off>>
    BY <1>3, <2>1
  <2>2. CASE new_block(Tail(queue)) /\ in_auto' = in_auto /\ Head(queue).msg # "MOVE"
    BY <1>1, <2>2, NewBlockKeeps
  <2>3. CASE quit(Tail(queue)) /\ in_auto' = in_auto
    BY <1>1, <2>3, QuitKeeps
  <2> QED
    BY <1>5, <2>1, <2>2, <2>3 DEF JobDown, Receive
<1>6. CASE JobAuto
  <2>1. /\ queue' = Tail(queue) /\ in_auto' = ~ in_auto /\ off' = (off \/ in_auto)
        /\ auto' = auto
    BY <1>6 DEF JobAuto
  <2>2. TasksTyped' /\ AutoOutlives'
    BY <1>1, <2>1 DEF TasksTyped, TasksInv, AutoOutlives
  <2>3. Fine(queue)'
    BY <1>2, <2>1 DEF Fine
  <2> QED
    BY <1>1, <2>2, <2>3 DEF TasksInv, OnlySteps
<1>7. CASE JobQuit
  BY <1>1, <1>7, QuitKeeps DEF JobQuit
<1> QED
  BY <1>4, <1>5, <1>6, <1>7 DEF Jobs

\* What auto_task posts lies behind nothing but steps.
LEMMA AutoKeeps ==
  ASSUME TasksInv, auto_task
  PROVE  TasksInv'
<1>1. TasksTyped /\ Fine(queue) /\ UNCHANGED <<in_auto, off>>
  BY DEF TasksInv, auto_task
<1>2. queue = << >> \/ burst
  BY DEF auto_task, OthersWait
<1>3. CASE auto.task = "new" /\ auto' = [auto EXCEPT !.task = "posts"] /\ UNCHANGED <<queue, burst>>
  <2>1. ~ burst
    BY <1>3 DEF TasksInv, OnlySteps
  <2>2. auto' \in Autos /\ auto'.gone = auto.gone
    BY <1>1, <1>3 DEF TasksTyped, Autos
  <2>3. Fine(queue)'
    BY <1>1, <1>3 DEF Fine
  <2> QED
    BY <1>1, <1>3, <2>1, <2>2, <2>3 DEF TasksInv, TasksTyped, OnlySteps, AutoOutlives
<1>4. CASE auto.task = "posts"
  <2> DEFINE p == [msg |-> IF auto.left > 0 THEN "MOVE" ELSE "BOTTOM",
                   of  |-> IF auto.gone THEN "gone" ELSE "block"]
  <2>1. /\ queue' = Sent(queue, p) /\ burst' = TRUE
        /\ auto' = IF auto.left > 0 THEN [auto EXCEPT !.left = @ - 1] ELSE NoAuto
    BY <1>4 DEF auto_task
  <2>2. /\ p \in Message /\ (p.of = "gone" => off)
        /\ auto.left > 0 => p.msg = "MOVE"
    BY <1>1 DEF Message, Keys, TasksInv, AutoOutlives
  <2> HIDE DEF p
  <2>3. \A i \in 1 .. Len(queue) : queue[i].msg = "MOVE"
    BY <1>2, <1>4 DEF TasksInv, OnlySteps
  <2>4. /\ Fine(Sent(queue, p))
        /\ p.msg = "MOVE" =>
             \A i \in 1 .. Len(Sent(queue, p)) : Sent(queue, p)[i].msg = "MOVE"
    BY <1>1, <2>2, <2>3, StepKeeps
  <2>5. Fine(queue)'
    BY <1>1, <2>1, <2>4 DEF Fine
  <2>6. CASE auto.left > 0
    <3> DEFINE n == auto.left - 1
    <3>1. n \in Nat /\ auto' = [auto EXCEPT !.left = n]
      BY <1>1, <2>1, <2>6 DEF TasksTyped, Autos
    <3> HIDE DEF n
    <3>2. auto' \in Autos /\ auto'.task = auto.task /\ auto'.gone = auto.gone
      BY <1>1, <3>1 DEF TasksTyped, Autos
    <3> QED
      BY <1>1, <1>4, <2>1, <2>2, <2>4, <2>5, <2>6, <3>2
         DEF TasksInv, TasksTyped, OnlySteps, AutoOutlives
  <2>7. CASE ~ auto.left > 0
    <3>1. auto' \in Autos /\ auto'.task = "none" /\ ~ auto'.gone
      BY <2>1, <2>7 DEF NoAuto, Autos
    <3> QED
      BY <1>1, <2>1, <2>5, <3>1 DEF TasksInv, TasksTyped, OnlySteps, AutoOutlives
  <2> QED
    BY <2>6, <2>7
<1> QED
  BY <1>3, <1>4 DEF auto_task

LEMMA TasksStepKeeps == TasksInv /\ [tasksNext]_tasksVars => TasksInv'
<1> SUFFICES ASSUME TasksInv, [tasksNext]_tasksVars PROVE TasksInv'
  OBVIOUS
<1>1. CASE Sends
  BY <1>1, SendersKeep
<1>2. CASE Jobs
  BY <1>2, JobKeeps
<1>3. CASE auto_task
  BY <1>3, AutoKeeps
<1>4. CASE UNCHANGED tasksVars
  BY <1>4 DEF tasksVars, TasksInv, TasksTyped, OnlySteps, AutoOutlives, Fine
<1> QED
  BY <1>1, <1>2, <1>3, <1>4 DEF tasksNext, Sends, Jobs, JobStep, DownStep, Keys

\* The steps that auto_task found are applied to the block it found them for, whatever
\* the sizes of job_queue and of the search and however it comes to post them, unless
\* the player switched the mode off while auto_task ran.
THEOREM StepsAreForThisBlockHolds == tasksSpec => []StepsAreForThisBlock
<1>1. tasksInit => TasksInv
  BY TasksInitHolds
<1>2. TasksInv /\ [tasksNext]_tasksVars => TasksInv'
  BY TasksStepKeeps
<1>3. TasksInv => StepsAreForThisBlock
  BY DEF TasksInv, Fine, StepsAreForThisBlock
<1> QED
  BY <1>1, <1>2, <1>3, PTL DEF tasksSpec

\* Bridge_ID is freed only when job_task has left its loop, whatever messages a full
\* queue or a landing block drops, and however job_queue is read while quit () runs.
THEOREM BridgeOutlivesJobHolds == tasksSpec => []BridgeOutlivesJob
<1>1. tasksInit => BridgeOutlivesJob
  BY DEF tasksInit, BridgeOutlivesJob
<1>2. BridgeOutlivesJob /\ [tasksNext]_tasksVars => BridgeOutlivesJob'
  <2> SUFFICES ASSUME BridgeOutlivesJob, [tasksNext]_tasksVars PROVE BridgeOutlivesJob'
    OBVIOUS
  <2>1. CASE Quit
    BY <2>1 DEF Quit, BridgeOutlivesJob, Alive, Over
  <2>2. CASE Jobs
    BY <2>2 DEF Jobs, JobMove, JobHeld, JobDown, JobAuto, JobHold, JobQuit, Receive, quit,
       BridgeOutlivesJob, Alive
  <2>3. CASE QuitStep
    BY <2>3 DEF QuitStep, BridgeOutlivesJob, Alive
  <2>4. ASSUME NEW m \in Keys, Key(m) PROVE BridgeOutlivesJob'
    BY <2>4 DEF Key, BridgeOutlivesJob, Alive
  <2>5. CASE KeyOver \/ PlayerAstray \/ down_task \/ DownSends \/ auto_task \/ Clock
    BY <2>5 DEF KeyOver, PlayerAstray, down_task, DownSends, auto_task, Clock,
       BridgeOutlivesJob, Alive
  <2>6. CASE UNCHANGED tasksVars
    BY <2>6 DEF tasksVars, BridgeOutlivesJob, Alive
  <2> QED
    BY <2>1, <2>2, <2>3, <2>4, <2>5, <2>6 DEF tasksNext, Jobs, JobStep, DownStep, Keys
<1> QED
  BY <1>1, <1>2, PTL DEF tasksSpec

-----------------------------------------------------------------------------
(* The line that the shell shows is the line that it runs.                 *)

Chars == Letter \cup {Blank}
Strings == Seq(Chars)

\* The strings that fit into usr_cmd_line.
Lines == {s \in Strings : Len(s) < CMD_LEN_MAX}

\* The first n characters, and what follows them.
LEMMA PrefixIs ==
  ASSUME NEW s \in Strings, NEW n \in 0 .. Len(s)
  PROVE  /\ SubSeq(s, 1, n) \in Strings
         /\ Len(SubSeq(s, 1, n)) = n
         /\ \A i \in 1 .. n : SubSeq(s, 1, n)[i] = s[i]
<1>1. Len(s) \in Nat /\ \A i \in 1 .. n : s[i] \in Chars
  BY DEF Strings
<1>2. /\ SubSeq(s, 1, n) \in Seq(Chars)
      /\ Len(SubSeq(s, 1, n)) = IF 1 <= n THEN n - 1 + 1 ELSE 0
      /\ \A i \in 1 .. n - 1 + 1 : SubSeq(s, 1, n)[i] = s[1 + i - 1]
  BY <1>1, SubSeqProperties
<1> QED
  BY <1>1, <1>2 DEF Strings

\* "\b \b" for every character shown empties the line.
LEMMA EraseAll ==
  ASSUME NEW s \in Strings, NEW w \in Strings
  PROVE  Erase(s, Len(s)) \o w = w
<1>1. Len(s) \in Nat /\ Len(s) - Len(s) = 0
  BY DEF Strings
<1>2. SubSeq(s, 1, 0) = << >>
  BY SubSeqEmpty
<1>3. << >> \o w = w
  BY ConcatEmptySeq DEF Strings
<1> QED
  BY <1>1, <1>2, <1>3 DEF Erase

\* What follows the first n characters is erased when the rest is.
LEMMA ErasedPrefix ==
  ASSUME NEW s \in Strings, NEW n \in 0 .. Len(s), NEW w \in Strings
  PROVE  /\ SubSeq(s, 1, n) \o w \in Strings
         /\ Len(SubSeq(s, 1, n) \o w) = n + Len(w)
         /\ SubSeq(SubSeq(s, 1, n) \o w, 1, n) = SubSeq(s, 1, n)
<1> DEFINE a == SubSeq(s, 1, n)
           b == a \o w
<1>1. a \in Strings /\ Len(a) = n /\ n \in Nat /\ Len(w) \in Nat
  BY PrefixIs DEF Strings
<1> HIDE DEF a
<1>2. /\ b \in Strings /\ Len(b) = n + Len(w)
      /\ \A i \in 1 .. n : b[i] = a[i]
  <2>1. /\ a \o w \in Seq(Chars) /\ Len(a \o w) = Len(a) + Len(w)
        /\ \A i \in 1 .. Len(a) + Len(w) :
             (a \o w)[i] = IF i <= Len(a) THEN a[i] ELSE w[i - Len(a)]
    BY <1>1, ConcatProperties, Zenon DEF Strings
  <2>2. \A i \in 1 .. n : i \in 1 .. n + Len(w) /\ i <= n
    BY <1>1
  <2> HIDE DEF b
  <2>3. b = a \o w
    BY DEF b
  <2> QED
    BY <1>1, <2>1, <2>2, <2>3 DEF Strings
<1> HIDE DEF b
<1>3. n \in 0 .. Len(b)
  BY <1>1, <1>2
<1>4. /\ SubSeq(b, 1, n) \in Strings /\ Len(SubSeq(b, 1, n)) = n
      /\ \A i \in 1 .. n : SubSeq(b, 1, n)[i] = b[i]
  BY <1>2, <1>3, PrefixIs
<1>5. SubSeq(b, 1, n) = a
  BY <1>1, <1>2, <1>4, SeqEqual DEF Strings
<1> QED
  BY <1>2, <1>5 DEF a, b

\* The last word begins inside the line.
LEMMA HeadLenIn ==
  ASSUME NEW s \in Strings
  PROVE  HeadLen(s) \in 0 .. Len(s)
<1> DEFINE b == {i \in 1 .. Len(s) : s[i] = Blank}
           N == {Len(s) - i : i \in b}
<1>0. Len(s) \in Nat
  BY DEF Strings
<1>1. CASE b = {}
  BY <1>0, <1>1 DEF HeadLen
<1>2. CASE b # {}
  <2>1. N \in SUBSET Nat /\ N # {}
    BY <1>0, <1>2
  <2>2. PICK x \in N : \A y \in N : x <= y
    BY <2>1, LeastExists
  <2>3. PICK i \in b : x = Len(s) - i
    BY <2>2
  <2>4. \A j \in b : j <= i
    <3> SUFFICES ASSUME NEW j \in b PROVE j <= i
      OBVIOUS
    <3>1. Len(s) - j \in N
      OBVIOUS
    <3>2. i \in Int /\ j \in Int
      BY <1>0
    <3> HIDE DEF b, N
    <3> QED
      BY <1>0, <2>2, <2>3, <3>1, <3>2
  <2>5. HeadLen(s) = CHOOSE m \in b : \A j \in b : j <= m
    BY <1>2 DEF HeadLen
  <2> HIDE DEF b
  <2>6. HeadLen(s) \in b
    BY <2>3, <2>4, <2>5, Zenon
  <2> QED
    BY <1>0, <2>6 DEF b
<1> QED
  BY <1>1, <1>2

-----------------------------------------------------------------------------
\* With the cursor of cmd_tab inside the list of commands, every node of the
\* history fit to be loaded, and a completion that fits into the line.
ShellTyped ==
  /\ line \in Lines /\ screen \in Lines
  /\ tab \in [have : BOOLEAN, word : Strings]
  /\ history \in Seq(Lines) /\ index \in 0 .. Len(history)
  /\ cmdtab \in [prefix : Strings, last : 0 .. Len(Commands)]
  /\ log \in Seq([line : Lines, screen : Strings, ran : {Run(s) : s \in Lines}])

ShellInv == ShellTyped /\ ShownIsEntered

\* The line with the completion is one that the buffer holds: the screen.
LEMMA TakenIsShown ==
  ASSUME ShellInv
  PROVE  /\ tab_taken(line, tab) = screen /\ screen \in Lines /\ screen \in Strings
         /\ Len(screen) \in Nat
  BY DEF ShellInv, ShellTyped, ShownIsEntered, Lines, Strings

\* A state of the editor without a completion, where nothing was entered.
LEMMA EditKeeps ==
  ASSUME ShellInv, line' \in Lines, screen' = line', tab' = NoTab,
         index' \in 0 .. Len(history), UNCHANGED <<cmdtab, history, log>>
  PROVE  ShellInv'
<1>1. << >> \in Strings
  BY EmptySeq DEF Strings
<1>2. NoTab \in [have : BOOLEAN, word : Strings] /\ ~ NoTab.have
  BY <1>1 DEF NoTab
<1>3. ShellTyped'
  BY <1>2 DEF ShellInv, ShellTyped
<1>4. ShownIsEntered'
  BY <1>2 DEF ShellInv, ShownIsEntered, tab_taken
<1> QED
  BY <1>3, <1>4 DEF ShellInv

\* _load_history, and it stops at the ends of the list.
LEMMA LoadKeeps ==
  ASSUME ShellInv, NEW i \in 0 .. Len(history), Load(tab_taken(line, tab), i)
  PROVE  ShellInv'
<1>0. /\ tab_taken(line, tab) = screen /\ screen \in Lines /\ screen \in Strings
      /\ history \in Seq(Lines)
  BY TakenIsShown DEF ShellInv, ShellTyped
<1>1. /\ line' = (IF i = 0 THEN screen ELSE history[i])
      /\ screen' = (IF i = 0 THEN screen ELSE Erase(screen, Len(screen)) \o history[i])
      /\ tab' = NoTab /\ index' = i /\ UNCHANGED <<cmdtab, history, log>>
  BY <1>0 DEF Load
<1>2. line' \in Lines /\ screen' = line'
  <2>1. CASE i = 0
    BY <2>1, <1>0, <1>1
  <2>2. CASE i # 0
    <3>1. history[i] \in Lines
      BY <1>0, <2>2, ElementOfSeq
    <3>2. history[i] \in Strings
      BY <3>1 DEF Lines
    <3>3. Erase(screen, Len(screen)) \o history[i] = history[i]
      BY <1>0, <3>2, EraseAll
    <3> QED
      BY <1>1, <2>2, <3>1, <3>3
  <2> QED
    BY <2>1, <2>2
<1> QED
  BY <1>1, <1>2, EditKeeps

\* got_it: the line goes into the history and to cmd_do.
LEMMA EntersKeeps ==
  ASSUME ShellInv, NEW s \in Lines, NEW scr \in Strings,
         s = SubSeq(scr, 1, Len(s)),
         Len(s) = IF Len(scr) < CMD_LEN_MAX THEN Len(scr) ELSE CMD_LEN_MAX - 1,
         Enters(s, scr), UNCHANGED cmdtab
  PROVE  ShellInv'
<1> DEFINE Logged == [line : Lines, screen : Strings, ran : {Run(x) : x \in Lines}]
           e == [line |-> s, screen |-> scr, ran |-> Run(s)]
<1>0. /\ history \in Seq(Lines) /\ log \in Seq(Logged)
      /\ CMD_LEN_MAX \in Nat /\ CMD_LEN_MAX > 0 /\ HISTORY_MAX \in Nat /\ HISTORY_MAX > 0
  BY ShellAssumption DEF ShellInv, ShellTyped
<1>1. << >> \in Lines /\ << >> \in Strings
  BY <1>0, EmptySeq DEF Lines, Strings
<1>2. NoTab \in [have : BOOLEAN, word : Strings] /\ ~ NoTab.have
  BY <1>1 DEF NoTab
<1>3. /\ line' = << >> /\ screen' = << >> /\ tab' = NoTab /\ index' = 0
      /\ log' = Append(log, e) /\ Remember(s)
  BY DEF Enters, NewLine
<1>4. history' \in Seq(Lines) /\ index' \in 0 .. Len(history')
  <2>1. Len(history) < HISTORY_MAX \/ history # << >>
    BY <1>0, EmptySeq
  <2>2. history # << >> => Tail(history) \in Seq(Lines)
    BY <1>0, HeadTailProperties
  <2>3. history' \in Seq(Lines)
    BY <1>0, <1>3, <2>1, <2>2 DEF Remember
  <2> QED
    BY <1>3, <2>3
<1>5. e \in Logged
  OBVIOUS
<1>6. e.line = s /\ e.screen = scr
  OBVIOUS
<1> HIDE DEF Logged, e
<1>7. /\ log' \in Seq(Logged) /\ Len(log') = Len(log) + 1 /\ log'[Len(log) + 1] = e
      /\ \A i \in 1 .. Len(log) : log'[i] = log[i]
      /\ Len(log) \in Nat
  BY <1>0, <1>3, <1>5
<1>8. ShellTyped'
  BY <1>1, <1>2, <1>3, <1>4, <1>7 DEF ShellInv, ShellTyped, Logged
<1>9. ShownIsEntered'
  <2>1. screen' = tab_taken(line', tab')
    BY <1>2, <1>3 DEF tab_taken
  <2>2. ASSUME NEW i \in 1 .. Len(log')
        PROVE  log'[i].line = SubSeq(log'[i].screen, 1, Len(log'[i].line))
                 /\ Len(log'[i].line) = IF Len(log'[i].screen) < CMD_LEN_MAX
                                        THEN Len(log'[i].screen) ELSE CMD_LEN_MAX - 1
    <3>1. CASE i \in 1 .. Len(log)
      BY <3>1, <1>7 DEF ShellInv, ShownIsEntered
    <3>2. CASE i = Len(log) + 1
      BY <3>2, <1>6, <1>7
    <3> QED
      BY <1>7, <3>1, <3>2
  <2> QED
    BY <2>1, <2>2 DEF ShownIsEntered
<1> QED
  BY <1>8, <1>9 DEF ShellInv

\* "check Tab key" and the rest of the loop, key by key.
LEMMA EnterKeeps == ASSUME ShellInv, Enter PROVE ShellInv'
<1>1. /\ Enters(screen, screen) /\ UNCHANGED cmdtab
      /\ screen \in Lines /\ screen \in Strings /\ Len(screen) < CMD_LEN_MAX
  BY TakenIsShown DEF Enter, Lines
<1>2. screen = SubSeq(screen, 1, Len(screen))
  BY <1>1, SubSeqFull DEF Strings
<1> QED
  BY <1>1, <1>2, EntersKeeps

LEMMA CharKeeps == ASSUME ShellInv, NEW c \in Chars, Char(c) PROVE ShellInv'
<1> DEFINE s == Append(screen, c)
<1>0. /\ tab_taken(line, tab) = screen /\ screen \in Strings /\ Len(screen) \in Nat
      /\ Len(screen) < CMD_LEN_MAX /\ index \in 0 .. Len(history)
  BY TakenIsShown DEF Lines, ShellInv, ShellTyped
<1>1. s \in Strings /\ Len(s) = Len(screen) + 1
  BY <1>0 DEF Strings
<1>2. IF Len(s) < CMD_LEN_MAX
      THEN line' = s /\ screen' = s /\ tab' = NoTab /\ UNCHANGED <<index, history, log>>
      ELSE Enters(SubSeq(s, 1, CMD_LEN_MAX - 1), s)
  BY <1>0 DEF Char
<1>3. UNCHANGED cmdtab
  BY DEF Char
<1> HIDE DEF s
<1>4. CASE Len(s) < CMD_LEN_MAX
  <2>1. s \in Lines
    BY <1>1, <1>4 DEF Lines
  <2> QED
    BY <1>0, <1>2, <1>3, <1>4, <2>1, EditKeeps
<1>5. CASE ~ (Len(s) < CMD_LEN_MAX)
  <2>1. /\ CMD_LEN_MAX \in Nat /\ CMD_LEN_MAX > 0 /\ Len(s) = CMD_LEN_MAX
        /\ CMD_LEN_MAX - 1 \in 0 .. Len(s)
    BY <1>0, <1>1, <1>5, ShellAssumption
  <2> DEFINE w == SubSeq(s, 1, CMD_LEN_MAX - 1)
  <2>2. w \in Strings /\ Len(w) = CMD_LEN_MAX - 1
    BY <1>1, <2>1, PrefixIs
  <2>3. w = SubSeq(s, 1, Len(w))
    BY <2>2
  <2>4. w \in Lines
    BY <2>1, <2>2 DEF Lines
  <2>5. Enters(w, s)
    BY <1>2, <1>5
  <2> HIDE DEF w
  <2> QED
    BY <1>1, <1>3, <1>5, <2>2, <2>3, <2>4, <2>5, EntersKeeps
<1> QED
  BY <1>4, <1>5

LEMMA BackspaceKeeps == ASSUME ShellInv, Backspace PROVE ShellInv'
<1> DEFINE n == IF screen = << >> THEN 0 ELSE 1
<1>0. /\ tab_taken(line, tab) = screen /\ screen \in Strings /\ Len(screen) \in Nat
      /\ Len(screen) < CMD_LEN_MAX /\ index \in 0 .. Len(history)
  BY TakenIsShown DEF Lines, ShellInv, ShellTyped
<1>1. /\ line' = Erase(screen, n) /\ screen' = Erase(screen, n) /\ tab' = NoTab
      /\ UNCHANGED <<cmdtab, index, history, log>>
  BY <1>0 DEF Backspace
<1>2. Len(screen) - n \in 0 .. Len(screen)
  BY <1>0, EmptySeq DEF Strings
<1>3. Erase(screen, n) \in Strings /\ Len(Erase(screen, n)) = Len(screen) - n
  BY <1>0, <1>2, PrefixIs DEF Erase
<1>4. CMD_LEN_MAX \in Nat
  BY ShellAssumption
<1> HIDE DEF n
<1>5. Erase(screen, n) \in Lines
  BY <1>0, <1>2, <1>3, <1>4 DEF Lines
<1> QED
  BY <1>0, <1>1, <1>5, EditKeeps

\* The word that Tab shows is the one that tab_taken will store: both replace
\* what stands behind the last blank.
LEMMA TabKeeps == ASSUME ShellInv, Tab PROVE ShellInv'
<1> DEFINE h == HeadLen(line)
           prefix == LastWord(line)
           found == cmd_tab_last(prefix)
<1>0. /\ tab_taken(line, tab) = screen /\ screen \in Strings /\ Len(screen) \in Nat
      /\ line \in Strings /\ Len(line) \in Nat
      /\ tab \in [have : BOOLEAN, word : Strings]
      /\ cmdtab \in [prefix : Strings, last : 0 .. Len(Commands)]
  BY TakenIsShown DEF Lines, Strings, ShellInv, ShellTyped
<1>1. h \in 0 .. Len(line)
  BY <1>0, HeadLenIn
<1>2. PICK w \in IF h # 0 THEN yaffs_tab(prefix)
                 ELSE {IF found = 0 THEN prefix ELSE Commands[found]} :
        /\ h + Len(w) < CMD_LEN_MAX
        /\ tab' = [have |-> TRUE, word |-> w]
        /\ screen' = Erase(screen, Typed - h) \o w
        /\ cmdtab' = IF h = 0 THEN [prefix |-> prefix, last |-> found] ELSE cmdtab
  BY DEF Tab
<1>3. UNCHANGED <<line, index, history, log>>
  BY DEF Tab
<1>4. prefix \in Strings
  <2>1. \A i \in h + 1 .. Len(line) : line[i] \in Chars
    BY <1>0, <1>1 DEF Strings
  <2>2. h + 1 \in Int /\ Len(line) \in Int
    BY <1>0, <1>1
  <2> QED
    BY <2>1, <2>2, SubSeqProperties DEF LastWord, Strings
<1>5. /\ Commands \in Seq(Seq(Letter)) /\ Files \subseteq Seq(Letter)
      /\ CMD_LEN_MAX \in Nat /\ Seq(Letter) \subseteq Strings
  BY ShellAssumption, SeqMonotonic DEF Strings, Chars
<1> HIDE DEF h, prefix
<1>6. found \in 0 .. Len(Commands)
  <2> DEFINE from == IF cmdtab.prefix # prefix \/ cmdtab.last = 0 THEN 1
                     ELSE cmdtab.last + 1
             m == Matches(prefix, from)
  <2>1. from \in Nat /\ from > 0 /\ Len(Commands) \in Nat
    BY <1>0, <1>5
  <2>2. found = IF m = {} THEN 0 ELSE CHOOSE i \in m : \A j \in m : i <= j
    BY DEF cmd_tab_last
  <2> HIDE DEF from
  <2>3. m \subseteq 1 .. Len(Commands) /\ m \in SUBSET Nat
    BY <2>1 DEF Matches
  <2> HIDE DEF m, found
  <2>4. CASE m = {}
    BY <2>1, <2>2, <2>4
  <2>5. CASE m # {}
    <3>1. \E i \in m : \A j \in m : i <= j
      BY <2>3, <2>5, LeastExists
    <3>2. found \in m
      BY <3>1, <2>2, <2>5, Zenon
    <3> QED
      BY <3>2, <2>1, <2>3
  <2> QED
    BY <2>4, <2>5
<1> HIDE DEF found
<1>7. w \in Strings
  <2>1. CASE h # 0
    <3>1. yaffs_tab(prefix) \subseteq Files \cup {prefix}
      BY DEF yaffs_tab
    <3> QED
      BY <1>2, <1>4, <1>5, <2>1, <3>1
  <2>2. CASE h = 0
    <3>1. found # 0 => Commands[found] \in Seq(Letter)
      BY <1>5, <1>6, ElementOfSeq
    <3> QED
      BY <1>2, <1>4, <1>5, <2>2, <3>1
  <2> QED
    BY <2>1, <2>2
<1>8. Erase(screen, Typed - h) = SubSeq(line, 1, h)
  <2>1. CASE tab.have
    <3>1. screen = SubSeq(line, 1, h) \o tab.word
      BY <1>0, <2>1 DEF tab_taken, h
    <3>2. /\ Len(screen) = h + Len(tab.word)
          /\ SubSeq(screen, 1, h) = SubSeq(line, 1, h)
      BY <1>0, <1>1, <3>1, ErasedPrefix
    <3>3. Typed = h + Len(tab.word)
      BY <2>1 DEF Typed, h
    <3>4. Len(tab.word) \in Nat /\ h \in Nat
      BY <1>0, <1>1 DEF Strings
    <3>5. Len(screen) - (Typed - h) = h
      BY <3>2, <3>3, <3>4
    <3> QED
      BY <3>2, <3>5 DEF Erase
  <2>2. CASE ~ tab.have
    <3>1. screen = line /\ Typed = Len(line)
      BY <1>0, <2>2 DEF tab_taken, Typed
    <3>2. Len(screen) - (Typed - h) = h
      BY <1>0, <1>1, <3>1
    <3> QED
      BY <3>1, <3>2 DEF Erase
  <2> QED
    BY <2>1, <2>2
<1>9. /\ screen' = SubSeq(line, 1, h) \o w
      /\ screen' \in Strings /\ Len(screen') = h + Len(w)
  <2>1. /\ SubSeq(line, 1, h) \o w \in Strings
        /\ Len(SubSeq(line, 1, h) \o w) = h + Len(w)
    BY <1>0, <1>1, <1>7, ErasedPrefix
  <2> QED
    BY <1>2, <1>8, <2>1
<1>10. ShellTyped'
  <2>1. screen' \in Lines
    BY <1>2, <1>9 DEF Lines
  <2>2. tab' \in [have : BOOLEAN, word : Strings]
    BY <1>2, <1>7
  <2>3. cmdtab' \in [prefix : Strings, last : 0 .. Len(Commands)]
    BY <1>0, <1>2, <1>4, <1>6
  <2> QED
    BY <1>3, <2>1, <2>2, <2>3 DEF ShellInv, ShellTyped
<1>11. ShownIsEntered'
  <2>1. tab'.have /\ tab'.word = w
    BY <1>2
  <2>2. tab_taken(line', tab') = SubSeq(line, 1, h) \o w
    BY <1>3, <2>1 DEF tab_taken, h
  <2> QED
    BY <1>3, <1>9, <2>2 DEF ShellInv, ShownIsEntered
<1> QED
  BY <1>10, <1>11 DEF ShellInv

LEMMA ArrowsKeep == ASSUME ShellInv, Up \/ Down \/ Esc PROVE ShellInv'
<1>0. /\ tab_taken(line, tab) = screen /\ screen \in Lines
      /\ index \in 0 .. Len(history) /\ Len(history) \in Nat
  BY TakenIsShown DEF ShellInv, ShellTyped
<1>1. CASE Up
  <2> DEFINE i == IF index = 0 THEN Len(history) ELSE index - 1
  <2>1. i \in 0 .. Len(history) /\ Load(tab_taken(line, tab), i)
    BY <1>0, <1>1 DEF Up
  <2> HIDE DEF i
  <2> QED
    BY <2>1, LoadKeeps
<1>2. CASE Down
  <2> DEFINE i == IF index = 0 \/ index = Len(history) THEN 0 ELSE index + 1
  <2>1. i \in 0 .. Len(history) /\ Load(tab_taken(line, tab), i)
    BY <1>0, <1>2 DEF Down
  <2> HIDE DEF i
  <2> QED
    BY <2>1, LoadKeeps
<1>3. CASE Esc
  BY <1>0, <1>3, EditKeeps DEF Esc
<1> QED
  BY <1>1, <1>2, <1>3

LEMMA ShellStarts == shellInit => ShellInv
<1> SUFFICES ASSUME shellInit PROVE ShellInv
  OBVIOUS
<1>1. /\ CMD_LEN_MAX \in Nat /\ CMD_LEN_MAX > 0 /\ Len(Commands) \in Nat
  BY ShellAssumption
<1>2. \A S : << >> \in Seq(S) /\ Len(<< >>) = 0
  BY EmptySeq
<1>3. << >> \in Lines /\ << >> \in Strings
  BY <1>1, <1>2 DEF Lines, Strings
<1>4. ShellTyped
  BY <1>1, <1>2, <1>3 DEF shellInit, ShellTyped, NoTab
<1>5. ShownIsEntered
  BY <1>2 DEF shellInit, ShownIsEntered, tab_taken, NoTab
<1> QED
  BY <1>4, <1>5 DEF ShellInv

LEMMA ShellStepKeeps == ShellInv /\ [shellNext]_shellVars => ShellInv'
<1> SUFFICES ASSUME ShellInv, [shellNext]_shellVars PROVE ShellInv'
  OBVIOUS
<1>1. CASE UNCHANGED shellVars
  BY <1>1 DEF shellVars, ShellInv, ShellTyped, ShownIsEntered
<1>2. ASSUME NEW c \in Letter \cup {Blank}, Char(c) PROVE ShellInv'
  BY <1>2, CharKeeps DEF Chars
<1> QED
  BY <1>1, <1>2, EnterKeeps, BackspaceKeeps, TabKeeps, ArrowsKeep DEF shellNext

\* For every set of letters, every list of commands and every size of the line
\* buffer and of the history: after any sequence of characters, backspaces,
\* completions and history keys the shell runs the line that it shows.
THEOREM ShownIsEnteredHolds == shellSpec => []ShownIsEntered
<1>1. ShellInv => ShownIsEntered
  BY DEF ShellInv
<1> QED
  BY <1>1, ShellStarts, ShellStepKeeps, PTL DEF shellSpec

-----------------------------------------------------------------------------
(* The history of the shell.                                               *)

\* The last node is the newest of the lines that were entered.
NewestIsLast ==
  IF Entered = {} THEN history = << >>
  ELSE \E i \in Entered : /\ \A k \in Entered : k <= i
                          /\ history # << >> /\ history[Len(history)] = log[i].line

HistoryInv == ShellInv /\ HistoryIsRecent /\ NewestIsLast

\* How many lines are fresh from line i on.
FreshFrom(i) == Cardinality({j \in Fresh : j >= i})

LEMMA LeastOfTwo == ASSUME NEW a \in Nat, NEW b \in Nat
                    PROVE  Min({a, b}) = IF a <= b THEN a ELSE b
<1> DEFINE m == IF a <= b THEN a ELSE b
<1>1. m \in {a, b} /\ m <= a /\ m <= b
  OBVIOUS
<1>2. \A x \in {a, b} : (\A y \in {a, b} : x <= y) => x = m
  OBVIOUS
<1> HIDE DEF m
<1>3. Min({a, b}) = CHOOSE x \in {a, b} : \A y \in {a, b} : x <= y
  BY DEF Min
<1>4. Min({a, b}) = m
  BY <1>1, <1>2, <1>3
<1> QED
  BY <1>4 DEF m

LEMMA FreshFinite ==
  ASSUME ShellInv
  PROVE  /\ IsFiniteSet(Fresh) /\ Cardinality(Fresh) \in Nat
         /\ \A i \in Fresh : FreshFrom(i) \in 1 .. Cardinality(Fresh)
<1>0. Len(log) \in Nat
  BY DEF ShellInv, ShellTyped
<1>1. IsFiniteSet(1 .. Len(log))
  BY <1>0, FS_Interval
<1>2. Fresh \subseteq 1 .. Len(log)
  BY DEF Fresh, Entered
<1>3. IsFiniteSet(Fresh) /\ Cardinality(Fresh) \in Nat
  BY <1>1, <1>2, FS_Subset, FS_CardinalityType
<1>4. ASSUME NEW i \in Fresh PROVE FreshFrom(i) \in 1 .. Cardinality(Fresh)
  <2> DEFINE S == {j \in Fresh : j >= i}
  <2>1. S \subseteq Fresh /\ i \in S
    BY <1>0, <1>2
  <2> HIDE DEF S
  <2>2. IsFiniteSet(S) /\ Cardinality(S) \in Nat /\ Cardinality(S) <= Cardinality(Fresh)
    BY <1>3, <2>1, FS_Subset, FS_CardinalityType
  <2>3. Cardinality(S) # 0
    BY <2>1, <2>2, FS_EmptySet
  <2>4. Cardinality(S) \in 1 .. Cardinality(Fresh)
    BY <1>3, <2>2, <2>3
  <2> QED
    BY <2>4 DEF FreshFrom, S
<1> QED
  BY <1>3, <1>4

\* A line is entered: what is left of the history is that of before, with it.
LEMMA EntersHistory ==
  ASSUME HistoryInv, ShellInv', NEW s, NEW scr, Enters(s, scr)
  PROVE  HistoryIsRecent' /\ NewestIsLast'
<1> DEFINE e == [line |-> s, screen |-> scr, ran |-> Run(s)]
<1>n. PICK N \in Nat : N = Len(log)
  BY DEF HistoryInv, ShellInv, ShellTyped
<1>0. /\ history \in Seq(Lines) /\ N \in Nat /\ HISTORY_MAX \in Nat /\ HISTORY_MAX > 0
      /\ Len(history) \in Nat /\ history' \in Seq(Lines)
  BY ShellAssumption DEF HistoryInv, ShellInv, ShellTyped
<1>1. /\ Len(log') = N + 1 /\ log'[N + 1].line = s
      /\ \A i \in 1 .. N : log'[i] = log[i]
  <2>1. log' = Append(log, e) /\ e.line = s
    BY DEF Enters
  <2>2. PICK T : log \in Seq(T)
    BY DEF HistoryInv, ShellInv, ShellTyped
  <2>3. PICK U : log' \in Seq(U)
    BY DEF ShellInv, ShellTyped
  <2> HIDE DEF e
  <2> QED
    BY <1>n, <2>1, <2>2
<1>2. Remember(s)
  BY DEF Enters
<1> HIDE DEF e
<1>3. /\ Entered \subseteq 1 .. N /\ Fresh \subseteq Entered
      /\ Entered' = Entered \cup (IF s = << >> THEN {} ELSE {N + 1})
      /\ Fresh' \subseteq Entered'
  <2>1. Fresh \subseteq Entered
    BY DEF Fresh
  <2>2. Fresh' \subseteq Entered'
    BY DEF Fresh
  <2> QED
    BY <1>n, <1>0, <1>1, <2>1, <2>2 DEF Entered
<1>4. ASSUME NEW i \in 1 .. N PROVE i \in Fresh' <=> i \in Fresh
  <2>1. i \in Entered' <=> i \in Entered
    BY <1>0, <1>3
  <2>2. \A j : j < i /\ j \in Entered' <=> j < i /\ j \in Entered
    BY <1>0, <1>3
  <2>3. \A j \in Entered : log'[j].line = log[j].line
    BY <1>1, <1>3
  <2>4. i \in Fresh' <=> /\ i \in Entered
                        /\ \A j \in Entered : j < i /\ (\A k \in Entered : k < i => k <= j)
                             => log'[j].line # log'[i].line
    BY <2>1, <2>2, Zenon DEF Fresh
  <2>5. log'[i].line = log[i].line
    BY <1>1
  <2> QED
    BY <2>3, <2>4, <2>5, Zenon DEF Fresh
<1>5. /\ Len(history) = (IF HISTORY_MAX <= Cardinality(Fresh) THEN HISTORY_MAX
                         ELSE Cardinality(Fresh))
      /\ \A i \in Fresh : FreshFrom(i) <= HISTORY_MAX
           => history[Len(history) + 1 - FreshFrom(i)] = log[i].line
      /\ IsFiniteSet(Fresh) /\ Cardinality(Fresh) \in Nat
      /\ \A i \in Fresh : FreshFrom(i) \in 1 .. Cardinality(Fresh)
  <2>1. ShellInv /\ HistoryIsRecent
    BY DEF HistoryInv
  <2>2. Cardinality(Fresh) \in Nat
    BY <2>1, FreshFinite
  <2> QED
    BY <1>0, <2>1, <2>2, FreshFinite, LeastOfTwo DEF HistoryIsRecent, FreshFrom
<1>6. history' = history /\ Fresh' = Fresh => HistoryIsRecent'
  <2>1. \A i \in Fresh : log'[i] = log[i]
    BY <1>1, <1>3
  <2> QED
    BY <2>1 DEF HistoryInv, HistoryIsRecent
\* Nothing was typed.
<1>7. CASE s = << >>
  <2>1. Entered' = Entered /\ history' = history
    BY <1>2, <1>3, <1>7 DEF Remember
  <2>2. Fresh' = Fresh
    BY <1>3, <1>4, <2>1 DEF Fresh
  <2>3. \A i \in Entered : log'[i] = log[i]
    BY <1>1, <1>3
  <2>4. NewestIsLast'
    BY <2>1, <2>3 DEF HistoryInv, NewestIsLast
  <2> QED
    BY <1>6, <2>1, <2>2, <2>4
<1>8. s # << >> => N + 1 \in Entered' /\ (\A k \in Entered' : k <= N + 1)
  BY <1>0, <1>3
\* The same as the last one.
<1>9. CASE s # << >> /\ history # << >> /\ history[Len(history)] = s
  <2>1. history' = history
    BY <1>2, <1>9 DEF Remember
  <2>2. PICK m \in Entered : /\ \A k \in Entered : k <= m
                             /\ history[Len(history)] = log[m].line
    BY <1>9 DEF HistoryInv, NewestIsLast
  <2>3. N + 1 \notin Fresh'
    <3>1. m \in Entered' /\ m < N + 1 /\ log'[m].line = s
      BY <1>0, <1>1, <1>3, <1>9, <2>2
    <3>2. \A k \in Entered' : k < N + 1 => k <= m
      <4>1. \A k \in Entered' : k \in Entered \/ k = N + 1
        BY <1>3
      <4>2. ~ (N + 1 < N + 1)
        BY <1>0
      <4> QED
        BY <2>2, <4>1, <4>2, Zenon
    <3>3. log'[N + 1].line = s
      BY <1>1
    <3>4. N + 1 \in Fresh'
            => \A j \in Entered' : j < N + 1 /\ (\A k \in Entered' : k < N + 1 => k <= j)
                 => log'[j].line # log'[N + 1].line
      BY Zenon DEF Fresh
    <3> QED
      BY <3>1, <3>2, <3>3, <3>4, Zenon
  <2>4. Fresh' = Fresh
    <3>1. \A i \in Fresh' : i \in 1 .. N \/ i = N + 1
      BY <1>3
    <3>2. \A i \in Fresh : i \in 1 .. N /\ i # N + 1
      BY <1>0, <1>3
    <3> QED
      BY <1>4, <2>3, <3>1, <3>2
  <2>5. NewestIsLast'
    BY <1>1, <1>8, <1>9, <2>1 DEF NewestIsLast
  <2> QED
    BY <1>6, <2>1, <2>4, <2>5
\* A new node, or the oldest one, at the end.
<1>10. CASE s # << >> /\ ~ (history # << >> /\ history[Len(history)] = s)
  <2> DEFINE kept == IF Len(history) < HISTORY_MAX THEN history ELSE Tail(history)
             L == Len(history)
             M == Len(history')
  <2>1. history' = Append(kept, s)
    BY <1>2, <1>10 DEF Remember
  <2>2. /\ kept \in Seq(Lines)
        /\ L < HISTORY_MAX => Len(kept) = L /\ \A i \in 1 .. L : kept[i] = history[i]
        /\ L >= HISTORY_MAX => Len(kept) = L - 1 /\ \A i \in 1 .. L - 1 : kept[i] = history[i + 1]
    <3>1. L >= HISTORY_MAX => history # << >>
      BY <1>0, EmptySeq
    <3>2. L >= HISTORY_MAX => /\ Tail(history) \in Seq(Lines) /\ Len(Tail(history)) = L - 1
                              /\ \A i \in 1 .. L - 1 : Tail(history)[i] = history[i + 1]
      BY <1>0, <3>1, HeadTailProperties
    <3> QED
      BY <1>0, <3>2
  <2> HIDE DEF kept
  <2>3. M = Len(kept) + 1 /\ history'[M] = s /\ \A i \in 1 .. Len(kept) : history'[i] = kept[i]
    BY <2>1, <2>2
  <2>4. /\ M = (IF L < HISTORY_MAX THEN L + 1 ELSE L)
        /\ \A i \in 1 .. M - 1 : history'[i] = history[i + L + 1 - M]
    BY <1>0, <2>2, <2>3
  <2>5. NewestIsLast'
    <3>1. history' # << >>
      BY <1>0, <2>2, <2>3, EmptySeq
    <3> QED
      BY <1>1, <1>8, <1>10, <2>3, <3>1 DEF NewestIsLast
  <2>6. N + 1 \in Fresh'
    <3> SUFFICES ASSUME NEW j \in Entered', j < N + 1,
                        \A k \in Entered' : k < N + 1 => k <= j
                 PROVE  log'[j].line # log'[N + 1].line
      BY <1>8, <1>10 DEF Fresh
    <3>1. j \in Entered /\ \A k \in Entered : k <= j
      BY <1>0, <1>3
    <3>2. PICK m \in Entered : /\ \A k \in Entered : k <= m
                               /\ history # << >> /\ history[Len(history)] = log[m].line
      BY <3>1 DEF HistoryInv, NewestIsLast
    <3>3. j = m
      BY <1>0, <1>3, <3>1, <3>2
    <3> QED
      BY <1>1, <1>3, <1>10, <3>2, <3>3
  <2>7. Fresh' = Fresh \cup {N + 1} /\ N + 1 \notin Fresh
    <3>1. \A i \in Fresh' : i \in 1 .. N \/ i = N + 1
      BY <1>3
    <3>2. \A i \in Fresh : i \in 1 .. N /\ i # N + 1
      BY <1>0, <1>3
    <3> QED
      BY <1>4, <2>6, <3>1, <3>2
  <2>8. Cardinality(Fresh') = Cardinality(Fresh) + 1
    BY <1>5, <2>7, FS_AddElement
  <2>9. /\ FreshFrom(N + 1)' = 1
        /\ \A i \in Fresh : FreshFrom(i)' = FreshFrom(i) + 1
    <3>1. {j \in Fresh' : j >= N + 1} = {N + 1}
      <4>1. \A j \in Fresh : j \in Nat /\ ~ j >= N + 1
        BY <1>0, <1>3
      <4> QED
        BY <1>0, <2>7, <4>1
    <3>2. ASSUME NEW i \in Fresh
          PROVE  Cardinality({j \in Fresh' : j >= i}) = Cardinality({j \in Fresh : j >= i}) + 1
      <4> DEFINE S == {j \in Fresh : j >= i}
      <4>1. {j \in Fresh' : j >= i} = S \cup {N + 1} /\ N + 1 \notin S
        BY <1>0, <1>3, <2>7
      <4>2. IsFiniteSet(S)
        BY <1>5, FS_Subset
      <4> HIDE DEF S
      <4>3. Cardinality(S \cup {N + 1}) = Cardinality(S) + 1
        BY <4>1, <4>2, FS_AddElement
      <4> QED
        BY <4>1, <4>3 DEF S
    <3>3. FreshFrom(N + 1)' = Cardinality({j \in Fresh' : j >= N + 1})
      BY DEF FreshFrom
    <3>4. \A i : FreshFrom(i)' = Cardinality({j \in Fresh' : j >= i})
      BY DEF FreshFrom
    <3>5. Cardinality({N + 1}) = 1
      BY FS_Singleton
    <3>6. ASSUME NEW i \in Fresh PROVE FreshFrom(i)' = FreshFrom(i) + 1
      BY <3>2, <3>4 DEF FreshFrom
    <3> QED
      BY <3>1, <3>3, <3>5, <3>6
  <2> HIDE DEF M, L
  <2>10. M \in Nat /\ L \in Nat
    BY <1>0 DEF M, L
  <2>11. M = Min({HISTORY_MAX, Cardinality(Fresh')})
    <3>1. Min({HISTORY_MAX, Cardinality(Fresh) + 1})
            = IF HISTORY_MAX <= Cardinality(Fresh) + 1 THEN HISTORY_MAX ELSE Cardinality(Fresh) + 1
      BY <1>0, <1>5, LeastOfTwo
    <3>2. L = IF HISTORY_MAX <= Cardinality(Fresh) THEN HISTORY_MAX ELSE Cardinality(Fresh)
      BY <1>5 DEF L
    <3> QED
      BY <1>0, <1>5, <2>4, <2>8, <2>10, <3>1, <3>2
  <2>12. ASSUME NEW i \in Fresh', FreshFrom(i)' <= HISTORY_MAX
         PROVE  history'[M + 1 - FreshFrom(i)'] = log'[i].line
    <3>1. CASE i = N + 1
      <4>1. M + 1 - FreshFrom(i)' = M
        <5>1. FreshFrom(i)' = 1
          BY <2>9, <3>1
        <5> QED
          BY <2>10, <5>1
      <4> QED
        BY <1>1, <2>3, <3>1, <4>1 DEF M
    <3>2. CASE i \in Fresh
      <4> DEFINE n == FreshFrom(i)
      <4>1. n \in 1 .. Cardinality(Fresh) /\ FreshFrom(i)' = n + 1
        BY <1>5, <2>9, <3>2
      <4>2. history[L + 1 - n] = log[i].line /\ log'[i].line = log[i].line
        <5>1. n <= HISTORY_MAX
          <6>1. n + 1 <= HISTORY_MAX
            BY <2>12, <4>1
          <6> HIDE DEF n
          <6> QED
            BY <1>0, <4>1, <6>1
        <5>2. history[L + 1 - n] = log[i].line
          BY <1>5, <3>2, <5>1 DEF L
        <5>3. log'[i] = log[i]
          BY <1>1, <1>3, <3>2
        <5> QED
          BY <5>2, <5>3
      <4>3. L = IF HISTORY_MAX <= Cardinality(Fresh) THEN HISTORY_MAX ELSE Cardinality(Fresh)
        BY <1>5 DEF L
      <4> HIDE DEF n
      <4>a. n + 1 <= HISTORY_MAX
        BY <2>12, <4>1
      <4>b. M = IF L < HISTORY_MAX THEN L + 1 ELSE L
        BY <2>4
      <4>4. M - n \in 1 .. M - 1 /\ M + 1 - (n + 1) = M - n /\ M - n + L + 1 - M = L + 1 - n
        BY <1>0, <1>5, <2>10, <4>1, <4>3, <4>a, <4>b
      <4>5. history'[M - n] = history[L + 1 - n]
        BY <2>4, <4>4
      <4> QED
        BY <4>1, <4>2, <4>4, <4>5
    <3> QED
      BY <2>7, <3>1, <3>2
  <2> QED
    BY <2>5, <2>11, <2>12 DEF HistoryIsRecent, FreshFrom, M
<1> QED
  BY <1>7, <1>9, <1>10

LEMMA HistoryStarts == shellInit => HistoryInv
<1> SUFFICES ASSUME shellInit PROVE HistoryInv
  OBVIOUS
<1>1. ShellInv /\ HISTORY_MAX \in Nat
  BY ShellStarts, ShellAssumption
<1>2. log = << >> /\ history = << >> /\ Len(log) = 0 /\ Len(history) = 0
  BY EmptySeq DEF shellInit
<1>3. Entered = {} /\ Fresh = {}
  BY <1>2 DEF Entered, Fresh
<1>4. Cardinality(Fresh) = 0
  BY <1>3, FS_EmptySet
<1>5. Min({HISTORY_MAX, 0}) = 0
  BY <1>1, LeastOfTwo
<1> QED
  BY <1>1, <1>2, <1>3, <1>4, <1>5 DEF HistoryInv, HistoryIsRecent, NewestIsLast

LEMMA HistoryStepKeeps == HistoryInv /\ [shellNext]_shellVars => HistoryInv'
<1> SUFFICES ASSUME HistoryInv, [shellNext]_shellVars PROVE HistoryInv'
  OBVIOUS
<1>1. ShellInv'
  BY ShellStepKeeps DEF HistoryInv
<1>2. CASE UNCHANGED <<history, log>>
  <2>1. Entered' = Entered /\ Fresh' = Fresh
    BY <1>2 DEF Fresh, Entered
  <2>2. HistoryIsRecent'
    BY <1>2, <2>1 DEF HistoryInv, HistoryIsRecent
  <2>3. NewestIsLast'
    BY <1>2, <2>1 DEF HistoryInv, NewestIsLast
  <2> QED
    BY <1>1, <2>2, <2>3 DEF HistoryInv
<1>3. CASE \E s, scr : Enters(s, scr)
  BY <1>1, <1>3, EntersHistory DEF HistoryInv
<1>4. (\E s, scr : Enters(s, scr)) \/ UNCHANGED <<history, log>>
  <2>1. CASE Enter
    BY <2>1 DEF Enter
  <2>2. ASSUME NEW c \in Letter \cup {Blank}, Char(c)
        PROVE  (\E s, scr : Enters(s, scr)) \/ UNCHANGED <<history, log>>
    BY <2>2 DEF Char
  <2>3. CASE Backspace \/ Tab \/ Esc \/ UNCHANGED shellVars
    BY <2>3 DEF Backspace, Tab, Esc, shellVars
  <2>4. CASE Up \/ Down
    BY <2>4 DEF Up, Down, Load
  <2> QED
    BY <2>1, <2>2, <2>3, <2>4 DEF shellNext
<1> QED
  BY <1>2, <1>3, <1>4

\* Up finds the last lines, each after the one that was entered after it, for every
\* number of lines and every size of the history.
THEOREM HistoryIsRecentHolds == shellSpec => []HistoryIsRecent
<1>1. HistoryInv => HistoryIsRecent
  BY DEF HistoryInv
<1> QED
  BY <1>1, HistoryStarts, HistoryStepKeeps, PTL DEF shellSpec

-----------------------------------------------------------------------------
(* Lian: the task that counts the time.  What it has loaded, and what it   *)
(* stores, is the time of some levels without the seconds it counted.      *)

LEMMA LevelsAre == LEVEL_NUM \in Nat \ {0} /\ ONE_LEVEL_TIME \in Nat
<1>1. \A i, j \in Nat \ {0} : i * j \in Nat \ {0}
  OBVIOUS
<1> QED
  BY <1>1, LianAssumption DEF LEVEL_NUM
\* The time of some of l + 1 levels, without the n seconds that were counted.
Left(l, t, n) == \E i \in 1 .. l + 1 : t = i * ONE_LEVEL_TIME - n

Timers == [set : BOOLEAN, task : {"runs", "over", "deleted"}, reg : Int, ticks : Nat,
           twice : BOOLEAN]

TimerTypes ==
  level \in 0 .. LEVEL_NUM /\ time \in Int /\ playing \in BOOLEAN /\ timer \in Timers

\* _G_time_taskid is not NULL until the task returned; before the last level is won
\* or the player leaves, nothing deletes the task, and then the player can win no more.
TaskKnown ==
  /\ timer.set <=> timer.task # "over"
  /\ playing /\ timer.task = "deleted" => level = LEVEL_NUM
  /\ level = LEVEL_NUM => left = 0 /\ time <= 0 /\ timer.task # "runs"

\* What the task has loaded is the time of whole levels, too.
TimeIsWhole ==
  timer.task = "runs" =>
    /\ time >= 0 /\ timer.reg >= None
    /\ IF timer.reg = None THEN Left(level, time, timer.ticks) ELSE Left(level, timer.reg, timer.ticks - 1)

TimerInv == TimerTypes /\ TaskKnown /\ TimeIsWhole /\ GoneTimerDeletedOnlyAfterWin

LEMMA TimerInit == lianInit => TimerInv
<1> SUFFICES ASSUME lianInit PROVE TimerInv
  OBVIOUS
<1>0. LEVEL_NUM \in Nat /\ LEVEL_NUM > 0 /\ ONE_LEVEL_TIME \in Nat
  BY LevelsAre
<1>1. /\ level = 0 /\ time = ONE_LEVEL_TIME /\ playing = TRUE
      /\ timer.set = TRUE /\ timer.task = "runs" /\ timer.reg = None /\ timer.ticks = 0
      /\ timer.twice = FALSE
      /\ timer = [set |-> TRUE, task |-> "runs", reg |-> None, ticks |-> 0, twice |-> FALSE]
  BY DEF lianInit
<1>2. TimerTypes
  BY <1>0, <1>1 DEF TimerTypes, Timers, None
<1>3. Left(level, time, timer.ticks)
  <2>1. 1 \in 1 .. level + 1 /\ time = 1 * ONE_LEVEL_TIME - timer.ticks
    BY <1>0, <1>1
  <2> QED
    BY <2>1 DEF Left
<1>4. time >= 0 /\ timer.reg >= None
  BY <1>0, <1>1 DEF None
<1>5. TaskKnown /\ GoneTimerDeletedOnlyAfterWin
  BY <1>0, <1>1 DEF TaskKnown, GoneTimerDeletedOnlyAfterWin
<1> QED
  BY <1>1, <1>2, <1>3, <1>4, <1>5 DEF TimerInv, TimeIsWhole

\* What a step of the player does to the time.
TimeSame == /\ level' = level /\ time' = time /\ timer' = timer
            /\ left' = left \/ time > 0

NewLevel == /\ time > 0 /\ level + 1 < LEVEL_NUM
            /\ level' = level + 1 /\ time' = time + ONE_LEVEL_TIME /\ timer' = timer

LastLevel == /\ time > 0 /\ ~ (level + 1 < LEVEL_NUM)
             /\ level' = level + 1 /\ left' = 0 /\ time' = 0 /\ timer' = delete_timer(timer)

LEMMA MarkMeans ==
  ASSUME NEW a, NEW c, Mark(a, c), time > 0
  PROVE  TimeSame \/ NewLevel \/ LastLevel
BY DEF Mark, Joined, level_time, TimeSame, NewLevel, LastLevel

LEMMA PlayerMeans ==
  ASSUME lianNext
  PROVE  \/ playing' = playing /\ (TimeSame \/ NewLevel \/ LastLevel)
         \/ bridge_exit \/ TimeLoad \/ TimeStore
<1>1. CASE \E i \in 1 .. 4 : bridge_move(Dirs[i])
  BY <1>1 DEF bridge_move, TimeSame
<1>2. CASE bridge_next
  BY <1>2 DEF bridge_next, TimeSame
<1>3. CASE bridge_mark
  BY <1>3, MarkMeans DEF bridge_mark
<1>4. CASE bridge_help
  <2>1. MarkBoth(help_op(board)) /\ playing' = playing
    BY <1>4 DEF bridge_help
  <2>2. CASE time > 0
    BY <2>1, <2>2, MarkMeans DEF MarkBoth
  <2>3. CASE ~ (time > 0)
    BY <2>1, <2>3 DEF MarkBoth, TimeSame
  <2> QED
    BY <2>2, <2>3
<1> QED
  BY <1>1, <1>2, <1>3, <1>4 DEF lianNext

LEMMA LevelsAdd ==
  ASSUME NEW i \in Nat
  PROVE  i * ONE_LEVEL_TIME \in Nat
         /\ (i + 1) * ONE_LEVEL_TIME = i * ONE_LEVEL_TIME + ONE_LEVEL_TIME
BY LevelsAre

\* OS_DELETE_TIME_TASK.
DeletedTimer(t, u) ==
  /\ u.set = t.set /\ u.reg = t.reg /\ u.ticks = t.ticks
  /\ u.task = IF t.set THEN "deleted" ELSE t.task
  /\ u.twice = (t.twice \/ (t.set /\ t.task # "runs"))
  /\ u \in Timers

LEMMA DeletedIs ==
  ASSUME TimerTypes
  PROVE  DeletedTimer(timer, delete_timer(timer))
BY DEF TimerTypes, Timers, DeletedTimer, delete_timer

LEMMA TimerStep == TimerInv /\ [lianNext]_lianVars => TimerInv'
<1> SUFFICES ASSUME TimerInv, [lianNext]_lianVars PROVE TimerInv'
  OBVIOUS
<1> USE DEF TimerInv, GoneTimerDeletedOnlyAfterWin
<1>0. LEVEL_NUM \in Nat /\ LEVEL_NUM > 0 /\ ONE_LEVEL_TIME \in Nat
  BY LevelsAre
<1>1. CASE playing' = playing /\ TimeSame
  <2>1. TimerTypes' /\ TaskKnown'
    BY <1>1, <1>0 DEF TimeSame, TimerTypes, TaskKnown
  <2>2. TimeIsWhole'
    BY <1>1 DEF TimeSame, TimeIsWhole, Left
  <2>3. GoneTimerDeletedOnlyAfterWin'
    BY <1>1 DEF TimeSame
  <2> QED
    BY <2>1, <2>2, <2>3
<1>2. CASE playing' = playing /\ NewLevel
  <2>1. TimerTypes' /\ TaskKnown'
    BY <1>2, <1>0 DEF NewLevel, TimerTypes, TaskKnown
  <2>2. ASSUME NEW t, NEW n \in Int, Left(level, t, n)
        PROVE  Left(level', t, n) /\ Left(level', t + ONE_LEVEL_TIME, n)
    <3>1. PICK i \in 1 .. level + 1 : t = i * ONE_LEVEL_TIME - n
      BY <2>2 DEF Left
    <3>2. i \in Nat /\ i \in 1 .. level' + 1 /\ i + 1 \in 1 .. level' + 1
      BY <1>2 DEF NewLevel, TimerTypes
    <3>3. t + ONE_LEVEL_TIME = (i + 1) * ONE_LEVEL_TIME - n
      BY <3>1, <3>2, <1>0, LevelsAdd
    <3> QED
      BY <3>1, <3>2, <3>3 DEF Left
  <2>3. TimeIsWhole'
    <3> SUFFICES ASSUME timer.task = "runs"
                 PROVE  /\ time' >= 0 /\ timer.reg >= None
                        /\ IF timer.reg = None THEN Left(level', time', timer.ticks)
                           ELSE Left(level', timer.reg, timer.ticks - 1)
      BY <1>2 DEF NewLevel, TimeIsWhole, Left
    <3>1. timer.ticks \in Int /\ timer.ticks - 1 \in Int /\ time' = time + ONE_LEVEL_TIME
          /\ time >= 0 /\ time \in Int
      BY <1>2 DEF NewLevel, TimerTypes, Timers, TimeIsWhole
    <3>2. time' >= 0 /\ timer.reg >= None
      BY <3>1, <1>0 DEF TimeIsWhole
    <3> QED
      BY <3>1, <3>2, <2>2 DEF TimeIsWhole
  <2>4. GoneTimerDeletedOnlyAfterWin'
    BY <1>2, <1>0 DEF NewLevel, TimerTypes
  <2> QED
    BY <2>1, <2>3, <2>4
<1>3. CASE playing' = playing /\ LastLevel
  <2>1. DeletedTimer(timer, timer') /\ level' = LEVEL_NUM /\ left' = 0 /\ time' = 0
    BY <1>3, <1>0, DeletedIs DEF LastLevel, TimerTypes, TaskKnown
  <2>2. timer'.task # "runs"
    BY <2>1 DEF DeletedTimer, TaskKnown, TimerTypes, Timers
  <2>3. TimerTypes'
    BY <2>1, <1>0, <1>3 DEF DeletedTimer, TimerTypes
  <2>4. timer'.set <=> timer'.task # "over"
    BY <2>1 DEF DeletedTimer, TaskKnown, TimerTypes, Timers
  <2>5. TaskKnown'
    BY <2>1, <2>2, <2>4 DEF TaskKnown
  <2> QED
    BY <2>1, <2>2, <2>3, <2>5 DEF TimeIsWhole
<1>4. CASE bridge_exit
  <2>1. /\ DeletedTimer(timer, timer') /\ level' = level /\ left' = left /\ time' = 0
        /\ playing /\ playing' = FALSE
    BY <1>4, DeletedIs DEF bridge_exit
  <2>2. timer'.task # "runs"
    BY <2>1 DEF DeletedTimer, TaskKnown, TimerTypes, Timers
  <2>3. TimerTypes'
    <3>1. timer' \in Timers
      BY <2>1 DEF DeletedTimer
    <3>2. level \in 0 .. LEVEL_NUM
      BY DEF TimerTypes
    <3>3. playing' \in BOOLEAN
      BY <2>1, Zenon
    <3>4. level' \in 0 .. LEVEL_NUM /\ time' \in Int
      BY <2>1, <3>2
    <3> QED
      BY <3>1, <3>3, <3>4, Zenon DEF TimerTypes
  <2>5. timer'.set <=> timer'.task # "over"
    BY <2>1 DEF DeletedTimer, TaskKnown, TimerTypes, Timers
  <2>6. TaskKnown'
    <3>1. level = LEVEL_NUM => left = 0
      BY DEF TaskKnown
    <3> QED
      BY <2>1, <2>2, <2>5, <3>1 DEF TaskKnown
  <2>4. GoneTimerDeletedOnlyAfterWin'
    BY <2>1 DEF DeletedTimer, TaskKnown, TimerTypes, Timers
  <2> QED
    BY <2>2, <2>3, <2>4, <2>6 DEF TimeIsWhole
<1>5. CASE TimeLoad
  <2>1. /\ timer.task = "runs" /\ timer.reg = None
        /\ timer'.set = timer.set /\ timer'.task = timer.task /\ timer'.reg = time
        /\ timer'.ticks = timer.ticks + 1 /\ timer'.twice = timer.twice
        /\ level' = level /\ left' = left /\ time' = time /\ playing' = playing
        /\ timer' \in Timers
    <3>1. timer \in Timers /\ time \in Int
      BY DEF TimerTypes
    <3>2. timer' = [timer EXCEPT !.reg = time, !.ticks = @ + 1]
      BY <1>5 DEF TimeLoad
    <3>3. timer' \in Timers
      <4>1. /\ timer.set \in BOOLEAN /\ timer.task \in {"runs", "over", "deleted"}
            /\ timer.ticks + 1 \in Nat /\ timer.twice \in BOOLEAN
        BY <3>1 DEF Timers
      <4>2. timer' = [set |-> timer.set, task |-> timer.task, reg |-> time,
                      ticks |-> timer.ticks + 1, twice |-> timer.twice]
        BY <3>1, <3>2 DEF Timers
      <4> QED
        BY <3>1, <4>1, <4>2 DEF Timers
    <3> QED
      BY <1>5, <3>1, <3>2, <3>3 DEF TimeLoad, Timers
  <2>2. TimerTypes' /\ TaskKnown'
    BY <2>1 DEF TimerTypes, TaskKnown
  <2>3. time >= 0 /\ Left(level, time, timer.ticks) /\ timer'.ticks - 1 = timer.ticks
    BY <2>1 DEF TimeIsWhole, TimerTypes, Timers
  <2>4. Left(level', timer'.reg, timer'.ticks - 1)
    BY <2>1, <2>3 DEF Left
  <2>5. time' >= 0 /\ timer'.reg >= None /\ timer'.reg # None
    BY <2>1, <2>3 DEF None, TimerTypes, Timers
  <2> QED
    BY <2>1, <2>2, <2>4, <2>5 DEF TimeIsWhole
<1>6. CASE TimeStore
  <2>1. /\ timer.task = "runs" /\ timer.reg # None /\ time' = timer.reg - 1
        /\ timer'.set = (timer.set /\ time' >= 0)
        /\ timer'.task = (IF time' >= 0 THEN "runs" ELSE "over") /\ timer'.reg = None
        /\ timer'.ticks = timer.ticks /\ timer'.twice = timer.twice
        /\ level' = level /\ left' = left /\ playing' = playing
        /\ timer' \in Timers
    <3>1. timer \in Timers
      BY DEF TimerTypes
    <3>2. timer' = IF time' >= 0 THEN [timer EXCEPT !.reg = None]
                   ELSE [timer EXCEPT !.reg = None, !.task = "over", !.set = FALSE]
      BY <1>6 DEF TimeStore
    <3>3. CASE time' >= 0
      BY <1>6, <3>1, <3>2, <3>3 DEF TimeStore, Timers, None
    <3>4. CASE ~ (time' >= 0)
      <4>1. timer' = [timer EXCEPT !.reg = None, !.task = "over", !.set = FALSE]
        BY <3>2, <3>4
      <4>2. timer' = [set |-> FALSE, task |-> "over", reg |-> None,
                      ticks |-> timer.ticks, twice |-> timer.twice]
        BY <3>1, <4>1 DEF Timers
      <4>3. timer.ticks \in Nat /\ timer.twice \in BOOLEAN
        BY <3>1 DEF Timers
      <4>4. timer' \in Timers
        BY <4>2, <4>3 DEF Timers, None
      <4>5. /\ timer.task = "runs" /\ timer.reg # None /\ time' = timer.reg - 1
            /\ level' = level /\ left' = left /\ playing' = playing
        BY <1>6 DEF TimeStore
      <4> QED
        BY <3>4, <4>2, <4>4, <4>5
    <3> QED
      BY <3>3, <3>4
  <2>2. time' \in Int /\ Left(level, timer.reg, timer.ticks - 1)
    BY <2>1 DEF TimeIsWhole, TimerTypes, Timers
  <2>3. TimerTypes' /\ TaskKnown'
    BY <2>1, <2>2 DEF TimerTypes, TaskKnown
  <2>4. Left(level', time', timer'.ticks)
    <3>1. PICK i \in 1 .. level + 1 : timer.reg = i * ONE_LEVEL_TIME - (timer.ticks - 1)
      BY <2>2 DEF Left
    <3>2. i \in Nat /\ i * ONE_LEVEL_TIME \in Nat /\ timer.ticks \in Nat
      BY LevelsAdd DEF TimerTypes, Timers
    <3>3. time' = i * ONE_LEVEL_TIME - timer'.ticks
      BY <3>1, <3>2, <2>1
    <3> QED
      BY <3>3, <2>1 DEF Left
  <2>5. timer'.task = "runs" => time' >= 0 /\ timer'.reg >= None
    BY <2>1 DEF None
  <2> QED
    BY <2>1, <2>3, <2>4, <2>5 DEF TimeIsWhole
<1>7. CASE UNCHANGED lianVars
  BY <1>7 DEF lianVars, TimerTypes, TaskKnown, TimeIsWhole, Left
<1> QED
  BY <1>1, <1>2, <1>3, <1>4, <1>5, <1>6, <1>7, PlayerMeans

\* OS_DELETE_TIME_TASK deletes a task that is gone only when the player leaves after
\* the last level.
THEOREM TimerDeletedOnce == lianSpec => []GoneTimerDeletedOnlyAfterWin
<1>1. TimerInv => GoneTimerDeletedOnlyAfterWin
  BY DEF TimerInv
<1> QED
  BY <1>1, TimerInit, TimerStep, PTL DEF lianSpec

\* The load and the store of _G_time-- lose the time of whole levels and nothing else.
THEOREM RaceLosesWholeLevelsHolds == lianSpec => []RaceLosesWholeLevels
<1>1. TimerInv => RaceLosesWholeLevels
  BY DEF TimerInv, TimeIsWhole, Left, RaceLosesWholeLevels
<1> QED
  BY <1>1, TimerInit, TimerStep, PTL DEF lianSpec
-----------------------------------------------------------------------------
(* Lian: the board.  Every type of blocks comes and goes in pairs, and the *)
(* loops over the map end at a block as long as there is one.              *)

Boards == [Cell -> Nat]

LEMMA MinIs ==
  ASSUME NEW S \in SUBSET Nat, S # {}
  PROVE  Min(S) \in S /\ \A y \in S : Min(S) <= y
<1>1. \E x \in S : \A y \in S : x <= y
  BY LeastExists
<1> QED
  BY <1>1 DEF Min

\* Every set of numbers up to n that is not empty has a greatest element.
LEMMA GreatestExists ==
  ASSUME NEW n \in Nat, NEW S \in SUBSET (0 .. n), S # {}
  PROVE  \E x \in S : \A y \in S : x >= y
<1> DEFINE T == {n - x : x \in S}
<1>1. T \in SUBSET Nat /\ T # {}
  <2>1. \A x \in S : n - x \in Nat
    OBVIOUS
  <2> QED
    BY <2>1
<1>2. PICK t \in T : \A u \in T : t <= u
  <2> HIDE DEF T
  <2> QED
    BY <1>1, LeastExists
<1>3. PICK x \in S : t = n - x
  BY <1>2
<1>4. ASSUME NEW y \in S PROVE x >= y
  <2>1. n - y \in T
    OBVIOUS
  <2>2. n - x <= n - y /\ x \in 0 .. n /\ y \in 0 .. n
    BY <1>2, <1>3, <2>1
  <2> QED
    BY <2>2
<1> QED
  BY <1>4

LEMMA MaxIs ==
  ASSUME NEW n \in Nat, NEW S \in SUBSET (0 .. n), S # {}
  PROVE  Max(S) \in S /\ \A y \in S : Max(S) >= y
<1>1. \E x \in S : \A y \in S : x >= y
  BY GreatestExists
<1> QED
  BY <1>1 DEF Max

LEMMA CellsAre ==
  /\ COL_NUM \in Nat /\ ROW_NUM \in Nat /\ IsFiniteSet(Cell)
  /\ \A c \in Cell : c = <<c[1], c[2]>> /\ c[1] \in 1 .. COL_NUM /\ c[2] \in 1 .. ROW_NUM
  /\ \A x \in 1 .. COL_NUM, y \in 1 .. ROW_NUM : <<x, y>> \in Cell
<1>1. COL_NUM \in Nat /\ ROW_NUM \in Nat
  BY LianAssumption
<1>2. IsFiniteSet(1 .. COL_NUM) /\ IsFiniteSet(1 .. ROW_NUM)
  BY <1>1, FS_Interval
<1>3. IsFiniteSet((1 .. COL_NUM) \X (1 .. ROW_NUM))
  BY <1>2, FS_Product
<1> QED
  BY <1>1, <1>3 DEF Cell

\* The loops over the rows and columns come to the cells of a set one after another.
LEMMA FirstCell ==
  ASSUME NEW S \in SUBSET Cell, S # {}
  PROVE  \E c \in S : \A e \in S \ {c} : Before(c, e)
<1> DEFINE Y == {c[2] : c \in S}
<1>1. Y \in SUBSET Nat /\ Y # {}
  BY CellsAre
<1>2. PICK y \in Y : \A z \in Y : y <= z
  <2> HIDE DEF Y
  <2> QED
    BY <1>1, LeastExists
<1> DEFINE X == {c[1] : c \in {c \in S : c[2] = y}}
<1>3. X \in SUBSET Nat /\ X # {}
  BY <1>2, CellsAre
<1>4. PICK x \in X : \A z \in X : x <= z
  <2> HIDE DEF X
  <2> QED
    BY <1>3, LeastExists
<1>5. PICK c \in S : c[2] = y /\ c[1] = x
  BY <1>4
<1>6. ASSUME NEW e \in S \ {c} PROVE Before(c, e)
  <2>1. /\ c = <<c[1], c[2]>> /\ e = <<e[1], e[2]>>
        /\ c[1] \in Nat /\ c[2] \in Nat /\ e[1] \in Nat /\ e[2] \in Nat
    BY CellsAre
  <2>2. e[2] \in Y /\ (e[2] = y => e[1] \in X)
    OBVIOUS
  <2>3. c[2] <= e[2] /\ (e[2] = y => c[1] <= e[1])
    BY <1>2, <1>4, <1>5, <2>2
  <2>4. c[1] # e[1] \/ c[2] # e[2]
    BY <2>1
  <2> QED
    BY <2>1, <2>3, <2>4, <1>5 DEF Before
<1> QED
  BY <1>6

LEMMA LastCell ==
  ASSUME NEW S \in SUBSET Cell, S # {}
  PROVE  \E c \in S : \A e \in S \ {c} : Before(e, c)
<1> DEFINE Y == {c[2] : c \in S}
<1>1. ROW_NUM \in Nat /\ Y \in SUBSET (0 .. ROW_NUM) /\ Y # {}
  BY CellsAre
<1>2. PICK y \in Y : \A z \in Y : y >= z
  <2> HIDE DEF Y
  <2> QED
    BY <1>1, GreatestExists
<1> DEFINE X == {c[1] : c \in {c \in S : c[2] = y}}
<1>3. COL_NUM \in Nat /\ X \in SUBSET (0 .. COL_NUM) /\ X # {}
  BY <1>2, CellsAre
<1>4. PICK x \in X : \A z \in X : x >= z
  <2> HIDE DEF X
  <2> QED
    BY <1>3, GreatestExists
<1>5. PICK c \in S : c[2] = y /\ c[1] = x
  BY <1>4
<1>6. ASSUME NEW e \in S \ {c} PROVE Before(e, c)
  <2>1. /\ c = <<c[1], c[2]>> /\ e = <<e[1], e[2]>>
        /\ c[1] \in Nat /\ c[2] \in Nat /\ e[1] \in Nat /\ e[2] \in Nat
    BY CellsAre
  <2>2. e[2] \in Y /\ (e[2] = y => e[1] \in X)
    OBVIOUS
  <2>3. c[2] >= e[2] /\ (e[2] = y => c[1] >= e[1])
    BY <1>2, <1>4, <1>5, <2>2
  <2>4. c[1] # e[1] \/ c[2] # e[2]
    BY <2>1
  <2> QED
    BY <2>1, <2>3, <2>4, <1>5 DEF Before
<1> QED
  BY <1>6

LEMMA FirstOfIn ==
  ASSUME NEW S \in SUBSET Cell, S # {}
  PROVE  FirstOf(S) \in S
BY FirstCell DEF FirstOf

\* The first and the last pair of cells, in the order of the loops.
LEMMA PairsHaveEnds ==
  ASSUME NEW P \in SUBSET (Cell \X Cell), P # {}
  PROVE  FirstPair(P) \in P /\ LastPair(P) \in P
<1> DEFINE A == {p[1] : p \in P}
<1>1. A \in SUBSET Cell /\ A # {}
  OBVIOUS
<1>2. \E p \in P : \A q \in P \ {p} : EarlierPair(p, q)
  <2>1. PICK a \in A : \A e \in A \ {a} : Before(a, e)
    <3> HIDE DEF A
    <3> QED
      BY <1>1, FirstCell
  <2> DEFINE B == {p[2] : p \in {p \in P : p[1] = a}}
  <2>2. B \in SUBSET Cell /\ B # {}
    BY <2>1
  <2>3. PICK b \in B : \A e \in B \ {b} : Before(b, e)
    <3> HIDE DEF B
    <3> QED
      BY <2>2, FirstCell
  <2>4. PICK p \in P : p[1] = a /\ p[2] = b
    BY <2>3
  <2>5. ASSUME NEW q \in P \ {p} PROVE EarlierPair(p, q)
    <3>1. q[1] \in A /\ (q[1] = a => q[2] \in B)
      OBVIOUS
    <3>2. q = <<q[1], q[2]>> /\ p = <<p[1], p[2]>>
      OBVIOUS
    <3> QED
      BY <2>1, <2>3, <2>4, <3>1, <3>2 DEF EarlierPair
  <2> QED
    BY <2>5
<1>3. \E p \in P : \A q \in P \ {p} : EarlierPair(q, p)
  <2>1. PICK a \in A : \A e \in A \ {a} : Before(e, a)
    <3> HIDE DEF A
    <3> QED
      BY <1>1, LastCell
  <2> DEFINE B == {p[2] : p \in {p \in P : p[1] = a}}
  <2>2. B \in SUBSET Cell /\ B # {}
    BY <2>1
  <2>3. PICK b \in B : \A e \in B \ {b} : Before(e, b)
    <3> HIDE DEF B
    <3> QED
      BY <2>2, LastCell
  <2>4. PICK p \in P : p[1] = a /\ p[2] = b
    BY <2>3
  <2>5. ASSUME NEW q \in P \ {p} PROVE EarlierPair(q, p)
    <3>1. q[1] \in A /\ (q[1] = a => q[2] \in B)
      OBVIOUS
    <3>2. q = <<q[1], q[2]>> /\ p = <<p[1], p[2]>>
      OBVIOUS
    <3> QED
      BY <2>1, <2>3, <2>4, <3>1, <3>2 DEF EarlierPair
  <2> QED
    BY <2>5
<1> QED
  BY <1>2, <1>3 DEF FirstPair, LastPair

\* A cell next to another one, and the empty cells in a line.
AllEmpty(m, a, d, n) == \A i \in 1 .. n : MapAt(m, Step(a, d, i)) = 0
Far == IF ROW_NUM >= COL_NUM THEN ROW_NUM ELSE COL_NUM
Lens(m, a, d) == {n \in 0 .. Far : AllEmpty(m, a, d, n)}

LEMMA FarIs == Far \in Nat /\ Far >= ROW_NUM /\ Far >= COL_NUM /\ Max({ROW_NUM, COL_NUM}) = Far
<1>1. ROW_NUM \in Nat /\ COL_NUM \in Nat
  BY LianAssumption
<1>2. Far \in Nat /\ Far >= ROW_NUM /\ Far >= COL_NUM
  BY <1>1 DEF Far
<1>3. {ROW_NUM, COL_NUM} \in SUBSET (0 .. Far) /\ {ROW_NUM, COL_NUM} # {}
  BY <1>1, <1>2
<1>4. /\ Max({ROW_NUM, COL_NUM}) \in {ROW_NUM, COL_NUM}
      /\ \A y \in {ROW_NUM, COL_NUM} : Max({ROW_NUM, COL_NUM}) >= y
  BY <1>2, <1>3, MaxIs
<1> QED
  BY <1>1, <1>2, <1>4 DEF Far

IsRay(m, a, d, s) ==
  /\ Len(s) \in Lens(m, a, d)
  /\ \A n \in Lens(m, a, d) : n <= Len(s)
  /\ s = [i \in 1 .. Len(s) |-> Step(a, d, i)]
  /\ s \in Seq({Step(a, d, i) : i \in 1 .. Far})

LEMMA RayIs ==
  ASSUME NEW m, NEW a, NEW d
  PROVE  IsRay(m, a, d, Ray(m, a, d))
<1> DEFINE len == Max(Lens(m, a, d))
<1>1. Far \in Nat
  BY FarIs
<1>2. Lens(m, a, d) \in SUBSET (0 .. Far) /\ Lens(m, a, d) # {}
  <2>1. 0 \in Lens(m, a, d)
    BY <1>1 DEF Lens, AllEmpty
  <2> QED
    BY <2>1 DEF Lens
<1>3. len \in Lens(m, a, d) /\ \A n \in Lens(m, a, d) : n <= len
  BY <1>1, <1>2, MaxIs
<1>4. len \in Nat /\ len <= Far
  BY <1>2, <1>3
<1>5. Ray(m, a, d) = [i \in 1 .. len |-> Step(a, d, i)]
  BY FarIs DEF Ray, Lens, AllEmpty
<1>6. Len(Ray(m, a, d)) = len
  <2> HIDE DEF len
  <2> QED
    BY <1>4, <1>5
<1>7. Ray(m, a, d) \in Seq({Step(a, d, i) : i \in 1 .. Far})
  <2> DEFINE S == {Step(a, d, i) : i \in 1 .. Far}
  <2>1. \A i \in 1 .. len : Step(a, d, i) \in S
    BY <1>1, <1>4
  <2> HIDE DEF S, len
  <2>2. [i \in 1 .. len |-> Step(a, d, i)] \in Seq(S)
    BY <1>4, <2>1
  <2>3. Ray(m, a, d) \in Seq(S)
    BY <1>5, <2>2
  <2> QED
    BY <2>3, Zenon DEF S
<1> QED
  BY <1>3, <1>5, <1>6, <1>7 DEF IsRay

LEMMA DirsAre ==
  /\ Dirs[1] = <<-1, 0>> /\ Dirs[2] = <<1, 0>> /\ Dirs[3] = <<0, -1>> /\ Dirs[4] = <<0, 1>>
BY DEF Dirs

\* A line that is as long as the board leaves it.
LEMMA FarStepOut ==
  ASSUME NEW c \in Cell, NEW i \in 1 .. 4, NEW n \in Nat, n > Far
  PROVE  Step(c, Dirs[i], n) \notin Cell
<1>1. c[1] \in 1 .. COL_NUM /\ c[2] \in 1 .. ROW_NUM /\ COL_NUM \in Nat /\ ROW_NUM \in Nat
  BY CellsAre
<1>2. n > ROW_NUM /\ n > COL_NUM
  BY <1>1, FarIs
<1>3. Step(c, Dirs[i], n) = <<c[1] + n * Dirs[i][1], c[2] + n * Dirs[i][2]>>
  BY DEF Step
<1>4. \/ Step(c, Dirs[i], n)[1] = c[1] - n \/ Step(c, Dirs[i], n)[1] = c[1] + n
      \/ Step(c, Dirs[i], n)[2] = c[2] - n \/ Step(c, Dirs[i], n)[2] = c[2] + n
  <2>1. CASE i = 1
    BY <1>1, <1>3, <2>1, DirsAre
  <2>2. CASE i = 2
    BY <1>1, <1>3, <2>2, DirsAre
  <2>3. CASE i = 3
    BY <1>1, <1>3, <2>3, DirsAre
  <2>4. CASE i = 4
    BY <1>1, <1>3, <2>4, DirsAre
  <2> QED
    BY <2>1, <2>2, <2>3, <2>4
<1>5. Step(c, Dirs[i], n) \in Cell =>
        Step(c, Dirs[i], n)[1] \in 1 .. COL_NUM /\ Step(c, Dirs[i], n)[2] \in 1 .. ROW_NUM
  BY CellsAre
<1> QED
  BY <1>1, <1>2, <1>4, <1>5

\* The cell behind the empty cells is a block, or not on the board.
LEMMA RayEnds ==
  ASSUME NEW m \in Boards, NEW c \in Cell, NEW i \in 1 .. 4,
         Step(c, Dirs[i], Len(Ray(m, c, Dirs[i])) + 1) \in Cell
  PROVE  Step(c, Dirs[i], Len(Ray(m, c, Dirs[i])) + 1) \in Blocks(m)
<1> DEFINE len == Len(Ray(m, c, Dirs[i]))
           p == Step(c, Dirs[i], len + 1)
<1>1. /\ len \in Lens(m, c, Dirs[i]) /\ \A n \in Lens(m, c, Dirs[i]) : n <= len
  <2>1. IsRay(m, c, Dirs[i], Ray(m, c, Dirs[i]))
    BY RayIs
  <2> QED
    BY <2>1 DEF IsRay
<1>2. Far \in Nat /\ len \in Nat /\ len <= Far /\ AllEmpty(m, c, Dirs[i], len)
  <2>1. Far \in Nat
    BY FarIs
  <2> QED
    BY <1>1, <2>1 DEF Lens
<1>3. len + 1 <= Far
  <2>1. ~ (len + 1 > Far)
    <3> HIDE DEF len
    <3> QED
      BY <1>2, FarStepOut DEF len
  <2> QED
    BY <1>2, <2>1
<1>4. ASSUME m[p] = 0 PROVE FALSE
  <2>1. MapAt(m, p) = 0
    BY <1>4 DEF MapAt
  <2>2. AllEmpty(m, c, Dirs[i], len + 1)
    <3> SUFFICES ASSUME NEW j \in 1 .. len + 1 PROVE MapAt(m, Step(c, Dirs[i], j)) = 0
      BY DEF AllEmpty
    <3>1. j = len + 1 \/ j \in 1 .. len
      BY <1>2
    <3> HIDE DEF len
    <3> QED
      BY <1>2, <2>1, <3>1 DEF AllEmpty
  <2>3. len + 1 \in Lens(m, c, Dirs[i])
    BY <1>2, <1>3, <2>2 DEF Lens
  <2>4. len + 1 <= len
    BY <1>1, <2>3
  <2> HIDE DEF len
  <2> QED
    BY <1>2, <2>4
<1> QED
  BY <1>4 DEF Blocks

LEMMA MovedIs ==
  ASSUME NEW m \in Boards, NEW c \in Cell, NEW i \in 1 .. 4
  PROVE  moved(m, c, Dirs[i]) = c \/ moved(m, c, Dirs[i]) \in Blocks(m)
BY RayEnds DEF moved

LEMMA MakeCurIs ==
  ASSUME NEW m \in Boards, NEW c, NEW x, NEW y, Blocks(m) # {}
  PROVE  make_cur(m, c, x, y) \in Blocks(m)
<1> DEFINE from == {b \in Blocks(m) : ~ Before(b, <<x, y>>)}
           S == IF from = {} THEN Blocks(m) ELSE from
<1>1. S \in SUBSET Cell /\ S # {} /\ S \subseteq Blocks(m)
  BY DEF Blocks
<1>2. FirstOf(S) \in S
  <2> HIDE DEF S
  <2> QED
    BY <1>1, FirstOfIn
<1>3. make_cur(m, c, x, y) = FirstOf(S)
  BY Zenon DEF make_cur
<1> QED
  BY <1>1, <1>2, <1>3

LEMMA CursorOnIs ==
  ASSUME NEW m \in Boards, NEW c \in Cell, Blocks(m) # {}
  PROVE  cursor_on(m, c) \in Blocks(m)
<1> DEFINE M == [i \in 1 .. 4 |-> moved(m, c, Dirs[i])]
           ok == {i \in 1 .. 4 : M[i] # c}
<1>1. cursor_on(m, c) = IF ok # {} THEN M[Min(ok)] ELSE make_cur(m, c, 1, 1)
  BY Zenon DEF cursor_on
<1>2. CASE ok # {}
  <2>1. ok \in SUBSET Nat
    OBVIOUS
  <2>2. Min(ok) \in ok
    <3> HIDE DEF ok
    <3> QED
      BY <1>2, <2>1, MinIs
  <2>3. Min(ok) \in 1 .. 4 /\ M[Min(ok)] # c
    BY <2>2
  <2>4. M[Min(ok)] = moved(m, c, Dirs[Min(ok)])
    BY <2>3
  <2>5. moved(m, c, Dirs[Min(ok)]) \in Blocks(m)
    <3> HIDE DEF ok
    <3> QED
      BY <2>3, <2>4, MovedIs
  <2> QED
    BY <1>1, <1>2, <2>4, <2>5
<1>3. CASE ok = {}
  BY <1>1, <1>3, MakeCurIs
<1> QED
  BY <1>2, <1>3

\* Every type has an even number of blocks.
EvenTypes(m) == \A t \in Nat \ {0} : NumberOf(m, t) \in Nat /\ NumberOf(m, t) % 2 = 0

GoodBoard(m) == m \in Boards /\ EvenTypes(m)

LEMMA BlocksFinite ==
  ASSUME NEW m
  PROVE  IsFiniteSet(Blocks(m)) /\ Cardinality(Blocks(m)) \in Nat
<1>1. Blocks(m) \in SUBSET Cell
  BY DEF Blocks
<1>2. IsFiniteSet(Blocks(m))
  BY <1>1, CellsAre, FS_Subset
<1> QED
  BY <1>2, FS_CardinalityType

\* Without two elements.
LEMMA TwoLess ==
  ASSUME NEW S, IsFiniteSet(S), NEW a \in S, NEW b \in S, a # b
  PROVE  /\ Cardinality(S) \in Nat /\ Cardinality(S) >= 2
         /\ Cardinality(S \ {a, b}) = Cardinality(S) - 2
<1>1. IsFiniteSet(S \ {a}) /\ Cardinality(S \ {a}) = Cardinality(S) - 1 /\ Cardinality(S) \in Nat
  BY FS_RemoveElement, FS_CardinalityType
<1>2. b \in S \ {a} /\ (S \ {a}) \ {b} = S \ {a, b}
  OBVIOUS
<1>3. /\ IsFiniteSet(S \ {a, b}) /\ Cardinality(S \ {a, b}) = Cardinality(S \ {a}) - 1
  BY <1>1, <1>2, FS_RemoveElement
<1>4. Cardinality(S \ {a, b}) \in Nat
  BY <1>3, FS_CardinalityType
<1> QED
  BY <1>1, <1>3, <1>4

IsCleared(m, a, b, n) ==
  /\ GoodBoard(n)
  /\ Blocks(n) = Blocks(m) \ {a, b}
  /\ Cardinality(Blocks(n)) = Cardinality(Blocks(m)) - 2
  /\ Cardinality(Blocks(m)) >= 2

LEMMA ClearedIs ==
  ASSUME NEW m, GoodBoard(m), NEW a \in Blocks(m), NEW b \in Blocks(m), a # b, m[a] = m[b]
  PROVE  IsCleared(m, a, b, Clear2(m, a, b))
<1> DEFINE n == Clear2(m, a, b)
<1>1. m \in Boards /\ a \in Cell /\ b \in Cell /\ m[a] # 0
  BY DEF GoodBoard, Blocks
<1>2. n \in Boards /\ \A c \in Cell : n[c] = IF c \in {a, b} THEN 0 ELSE m[c]
  BY <1>1 DEF Clear2, Boards
<1>3. Blocks(n) = Blocks(m) \ {a, b}
  <2> HIDE DEF n
  <2> QED
    BY <1>2 DEF Blocks
<1>4. Cardinality(Blocks(n)) = Cardinality(Blocks(m)) - 2 /\ Cardinality(Blocks(m)) >= 2
  BY <1>3, BlocksFinite, TwoLess
<1>5. ASSUME NEW t \in Nat \ {0}
      PROVE  NumberOf(n, t) \in Nat /\ NumberOf(n, t) % 2 = 0
  <2> DEFINE T == {c \in Cell : m[c] = t}
             U == {c \in Cell : n[c] = t}
  <2>1. NumberOf(m, t) = Cardinality(T) /\ NumberOf(n, t) = Cardinality(U)
    BY DEF NumberOf
  <2>2. Cardinality(T) \in Nat /\ Cardinality(T) % 2 = 0
    BY <2>1, Zenon DEF GoodBoard, EvenTypes
  <2>3. IsFiniteSet(T)
    <3>1. T \in SUBSET Cell
      OBVIOUS
    <3> QED
      BY <3>1, CellsAre, FS_Subset
  <2>4. CASE m[a] = t
    <3>1. U = T \ {a, b} /\ a \in T /\ b \in T
      <4> HIDE DEF n
      <4> QED
        BY <1>1, <1>2, <2>4
    <3>2. Cardinality(U) = Cardinality(T) - 2 /\ Cardinality(T) >= 2
      <4> HIDE DEF T, U
      <4> QED
        BY <2>3, <3>1, TwoLess
    <3> HIDE DEF T, U
    <3> QED
      BY <2>1, <2>2, <3>2
  <2>5. CASE m[a] # t
    <3>1. U = T
      <4> HIDE DEF n
      <4> QED
        BY <1>1, <1>2, <2>5
    <3> QED
      BY <2>1, <2>2, <3>1
  <2> QED
    BY <2>4, <2>5
<1> QED
  BY <1>2, <1>3, <1>4, <1>5 DEF IsCleared, GoodBoard, EvenTypes

\* lian_init.
LEMMA LevelIn ==
  ASSUME NEW l \in 0 .. LEVEL_NUM - 1
  PROVE  /\ (l % Len(LevelMaps)) + 1 \in 1 .. Len(LevelMaps)
         /\ (l \div Len(LevelMaps)) + 1 \in 1 .. Len(TYPE_NUM)
<1> DEFINE a == Len(LevelMaps)
           b == Len(TYPE_NUM)
           q == l \div a
<1>1. a \in Nat /\ a > 0 /\ b \in Nat /\ b > 0 /\ LEVEL_NUM = a * b
  BY LianAssumption DEF LEVEL_NUM
<1>2. LEVEL_NUM \in Nat /\ l \in Nat /\ l < LEVEL_NUM
  BY LevelsAre
<1> HIDE DEF a, b
<1>3. l % a \in 0 .. a - 1 /\ q \in Int /\ l = q * a + (l % a)
  BY <1>1, <1>2
<1>4. q < b
  <2> HIDE DEF q
  <2>1. q * a <= l
    BY <1>1, <1>2, <1>3
  <2>2. q >= b => q * a >= a * b
    BY <1>1, <1>3
  <2> QED
    BY <1>1, <1>2, <1>3, <2>1, <2>2
<1>5. (l % a) + 1 \in 1 .. a /\ q + 1 \in 1 .. b
  <2> HIDE DEF q
  <2> QED
    BY <1>1, <1>3, <1>4
<1> QED
  BY <1>5 DEF a, b

LEMMA StartBoard ==
  ASSUME NEW l \in 0 .. LEVEL_NUM - 1, NEW m \in lian_init(l)
  PROVE  GoodBoard(m) /\ Blocks(m) # {}
<1> DEFINE cells == LevelMaps[(l % Len(LevelMaps)) + 1]
           types == TYPE_NUM[(l \div Len(LevelMaps)) + 1]
           pairs(t) == Cardinality({i \in 0 .. (Cardinality(cells) \div 2) - 1 : i % types = t - 1})
           blocks == {f \in [cells -> 1 .. types] :
                        \A t \in 1 .. types : Cardinality({c \in cells : f[c] = t}) = 2 * pairs(t)}
<1>1. cells \in SUBSET Cell /\ cells # {} /\ types \in Nat \ {0}
  BY LevelIn, LianAssumption
<1>2. ASSUME NEW t \in 1 .. types PROVE pairs(t) \in Nat
  <2> DEFINE n == Cardinality(cells) \div 2
             I == {i \in 0 .. n - 1 : i % types = t - 1}
  <2>1. Cardinality(cells) \in Nat
    <3> HIDE DEF cells
    <3> QED
      BY <1>1, CellsAre, FS_Subset, FS_CardinalityType
  <2>2. n \in Int
    <3> HIDE DEF cells
    <3> QED
      BY <2>1
  <2>3. IsFiniteSet(0 .. n - 1)
    <3>1. n - 1 \in Int
      <4> HIDE DEF n
      <4> QED
        BY <2>2
    <3> HIDE DEF n
    <3> QED
      BY <3>1, FS_Interval
  <2>4. I \in SUBSET (0 .. n - 1)
    OBVIOUS
  <2>5. Cardinality(I) \in Nat
    <3> HIDE DEF I, n
    <3> QED
      BY <2>3, <2>4, FS_Subset, FS_CardinalityType
  <2> QED
    BY <2>5
<1>3. PICK f \in blocks : m = [c \in Cell |-> IF c \in cells THEN f[c] ELSE 0]
  BY Zenon DEF lian_init
<1>4. f \in [cells -> 1 .. types]
  OBVIOUS
<1>5. \A t \in 1 .. types : Cardinality({c \in cells : f[c] = t}) = 2 * pairs(t)
  OBVIOUS
<1> HIDE DEF cells, types, pairs, blocks
<1>6. m \in Boards
  <2>1. \A c \in cells : f[c] \in Nat
    BY <1>1, <1>4
  <2> QED
    BY <1>3, <2>1 DEF Boards
<1>7. ASSUME NEW c \in Cell PROVE m[c] = IF c \in cells THEN f[c] ELSE 0
  BY <1>3
<1>8. Blocks(m) # {}
  <2>1. PICK c \in cells : TRUE
    BY <1>1
  <2>2. c \in Cell /\ f[c] \in 1 .. types
    BY <1>1, <1>4
  <2>3. m[c] # 0
    BY <1>1, <1>7, <2>2
  <2> QED
    BY <2>2, <2>3 DEF Blocks
<1>9. ASSUME NEW t \in Nat \ {0}
      PROVE  NumberOf(m, t) \in Nat /\ NumberOf(m, t) % 2 = 0
  <2>1. {c \in Cell : m[c] = t} = {c \in cells : f[c] = t}
    BY <1>1, <1>7
  <2>2. CASE t \in 1 .. types
    <3>1. NumberOf(m, t) = 2 * pairs(t)
      BY <1>5, <2>1, <2>2 DEF NumberOf
    <3>2. pairs(t) \in Nat
      BY <1>2, <2>2
    <3> QED
      BY <3>1, <3>2
  <2>3. CASE t \notin 1 .. types
    <3>1. {c \in cells : f[c] = t} = {}
      BY <1>4, <2>3
    <3>2. NumberOf(m, t) = 0
      BY <2>1, <3>1, FS_EmptySet DEF NumberOf
    <3> QED
      BY <3>2
  <2> QED
    BY <2>2, <2>3
<1> QED
  BY <1>6, <1>8, <1>9 DEF GoodBoard, EvenTypes

LEMMA CheckMeans ==
  ASSUME NEW m, NEW a, NEW b, lian_check(m, a, b) # << >>
  PROVE  a # b /\ m[a] # 0 /\ m[a] = m[b]
BY DEF lian_check

LEMMA HelpIsPair ==
  ASSUME NEW m, PairSet(m) # {}
  PROVE  help_op(m) \in Blocks(m) \X Blocks(m)
<1> DEFINE good == {p \in PairSet(m) : lian_left_0[Clear2(m, p[1], p[2])]}
<1>1. PairSet(m) \in SUBSET (Blocks(m) \X Blocks(m))
  BY DEF PairSet, Blocks
<1>2. PairSet(m) \in SUBSET (Cell \X Cell)
  BY <1>1 DEF Blocks
<1>3. good \in SUBSET (Cell \X Cell) /\ good \subseteq PairSet(m)
  BY <1>2
<1>4. help_op(m) = IF good = {} THEN LastPair(PairSet(m)) ELSE FirstPair(good)
  BY Zenon DEF help_op
<1> HIDE DEF good
<1>5. LastPair(PairSet(m)) \in PairSet(m)
  BY <1>2, PairsHaveEnds
<1>6. good # {} => FirstPair(good) \in good
  BY <1>3, PairsHaveEnds
<1> QED
  BY <1>1, <1>3, <1>4, <1>5, <1>6

OnBlock(c) == c \in Blocks(board)

\* The cursor and the mark are on blocks, as long as there is one.
OnBlocks == left > 0 => OnBlock(cur) /\ (marked[1] = 0 \/ OnBlock(marked))

BoardOK ==
  /\ GoodBoard(board)
  /\ left = Cardinality(Blocks(board))
  /\ left = 0 => level = LEVEL_NUM
  /\ OnBlocks

BoardInv == TimerInv /\ BoardOK

LEMMA StartKeeps ==
  ASSUME NEW l \in 0 .. LEVEL_NUM - 1, NEW m \in lian_init(l)
  PROVE  /\ GoodBoard(m) /\ Cardinality(Blocks(m)) \in Nat \ {0}
         /\ FirstOf(Blocks(m)) \in Blocks(m)
<1>1. GoodBoard(m) /\ Blocks(m) # {}
  BY StartBoard
<1>2. Cardinality(Blocks(m)) \in Nat /\ IsFiniteSet(Blocks(m))
  BY BlocksFinite
<1>3. Cardinality(Blocks(m)) # 0
  BY <1>1, <1>2, FS_EmptySet
<1>4. Blocks(m) \in SUBSET Cell
  BY DEF Blocks
<1> QED
  BY <1>1, <1>2, <1>3, <1>4, FirstOfIn

\* Nothing but the mark and the cursor.
JustMarked(a, c) ==
  marked' = a /\ cur' = c /\ board' = board /\ left' = left /\ level' = level

LEMMA MarkedKeeps ==
  ASSUME BoardOK, NEW a, NEW c, JustMarked(a, c), a[1] = 0 \/ OnBlock(a), OnBlock(c)
  PROVE  BoardOK'
<1>1. a[1] = 0 \/ a \in Blocks(board')
  BY DEF OnBlock, JustMarked
<1>2. c \in Blocks(board') /\ marked' = a /\ cur' = c
  BY DEF OnBlock, JustMarked
<1>3. OnBlocks'
  BY <1>1, <1>2 DEF OnBlocks, OnBlock
<1>4. GoodBoard(board') /\ left' = Cardinality(Blocks(board')) /\ (left' = 0 => level' = LEVEL_NUM)
  BY DEF BoardOK, JustMarked
<1> QED
  BY <1>3, <1>4 DEF BoardOK

LEMMA NoMarkIs == NoMark[1] = 0
BY DEF NoMark

LEMMA JoinedKeeps ==
  ASSUME BoardInv, time > 0, NEW a, NEW c, OnBlock(a), OnBlock(c), a # c, board[a] = board[c],
         Joined(a, c)
  PROVE  BoardOK'
<1> DEFINE m == Clear2(board, a, c)
<1>1. IsCleared(board, a, c, m)
  BY ClearedIs DEF BoardInv, BoardOK, OnBlock
<1>2. /\ GoodBoard(m) /\ Cardinality(Blocks(m)) = left - 2 /\ left >= 2 /\ left \in Nat
  BY <1>1, BlocksFinite DEF IsCleared, BoardInv, BoardOK
<1>3. level \in 0 .. LEVEL_NUM - 1 /\ LEVEL_NUM \in Nat
  BY LevelsAre DEF BoardInv, TimerInv, TimerTypes, TaskKnown
<1>4. CASE left # 2
  <2>1. /\ board' = m /\ left' = left - 2 /\ marked' = NoMark /\ cur' = cursor_on(m, c)
        /\ level' = level
    BY <1>4 DEF Joined
  <2> HIDE DEF m
  <2>2. left' # 0
    BY <1>2, <1>4, <2>1
  <2>3. m \in Boards /\ c \in Cell /\ Blocks(m) # {}
    <3>1. Blocks(m) # {}
      BY <1>2, <1>4, FS_EmptySet
    <3> QED
      BY <1>2, <3>1 DEF GoodBoard, OnBlock, Blocks
  <2>4. cursor_on(m, c) \in Blocks(m)
    BY <2>3, CursorOnIs
  <2>5. OnBlocks'
    BY <2>1, <2>4, NoMarkIs DEF OnBlocks, OnBlock
  <2>6. GoodBoard(board') /\ left' = Cardinality(Blocks(board'))
    BY <1>2, <2>1
  <2> QED
    BY <2>2, <2>5, <2>6 DEF BoardOK
<1>5. CASE left = 2 /\ level + 1 < LEVEL_NUM
  <2>1. level' = level + 1 /\ StartLevel(level + 1)
    BY <1>5 DEF Joined
  <2>2. level + 1 \in 0 .. LEVEL_NUM - 1
    BY <1>3, <1>5
  <2>3. PICK n \in lian_init(level + 1) :
          /\ board' = n /\ cur' = FirstOf(Blocks(n)) /\ marked' = NoMark
          /\ left' = Cardinality(Blocks(n))
    BY <2>1, Zenon DEF StartLevel
  <2>4. /\ GoodBoard(n) /\ Cardinality(Blocks(n)) \in Nat \ {0}
        /\ FirstOf(Blocks(n)) \in Blocks(n)
    BY <2>2, StartKeeps
  <2>5. OnBlocks'
    BY <2>3, <2>4, NoMarkIs DEF OnBlocks, OnBlock
  <2>6. GoodBoard(board') /\ left' = Cardinality(Blocks(board')) /\ left' # 0
    BY <2>3, <2>4
  <2> QED
    BY <2>5, <2>6 DEF BoardOK
<1>6. CASE left = 2 /\ ~ (level + 1 < LEVEL_NUM)
  <2>1. level' = level + 1 /\ board' = m /\ left' = 0
    BY <1>6 DEF Joined
  <2> HIDE DEF m
  <2>2. level' = LEVEL_NUM
    BY <1>3, <1>6, <2>1
  <2>3. GoodBoard(board') /\ left' = Cardinality(Blocks(board'))
    BY <1>2, <1>6, <2>1
  <2>4. OnBlocks'
    BY <2>1 DEF OnBlocks
  <2> QED
    BY <2>2, <2>3, <2>4 DEF BoardOK
<1> QED
  BY <1>4, <1>5, <1>6

LEMMA MarkKeeps ==
  ASSUME BoardInv, time > 0, NEW a, NEW c, a[1] = 0 \/ OnBlock(a), OnBlock(c), Mark(a, c)
  PROVE  BoardOK'
<1>1. CASE JustMarked(c, c)
  BY <1>1, MarkedKeeps DEF BoardInv
<1>2. CASE JustMarked(NoMark, c)
  BY <1>2, NoMarkIs, MarkedKeeps DEF BoardInv
<1>3. CASE a[1] # 0 /\ a # c /\ lian_check(board, a, c) # << >> /\ Joined(a, c)
  BY <1>3, CheckMeans, JoinedKeeps
<1> QED
  BY <1>1, <1>2, <1>3 DEF Mark, JustMarked

LEMMA BoardStarts == lianInit => BoardInv
<1> SUFFICES ASSUME lianInit PROVE BoardInv
  OBVIOUS
<1>1. 0 \in 0 .. LEVEL_NUM - 1
  BY LevelsAre
<1>2. PICK m \in lian_init(0) :
        /\ board = m /\ cur = FirstOf(Blocks(m)) /\ marked = NoMark
        /\ left = Cardinality(Blocks(m))
  BY DEF lianInit
<1>3. /\ GoodBoard(m) /\ Cardinality(Blocks(m)) \in Nat \ {0} /\ FirstOf(Blocks(m)) \in Blocks(m)
  BY <1>1, StartKeeps
<1>4. BoardOK
  BY <1>2, <1>3, NoMarkIs DEF BoardOK, OnBlocks, OnBlock
<1> QED
  BY <1>4, TimerInit DEF BoardInv

LEMMA BoardStep == BoardInv /\ [lianNext]_lianVars => BoardInv'
<1> SUFFICES ASSUME BoardInv, [lianNext]_lianVars PROVE BoardInv'
  OBVIOUS
<1>0. TimerInv'
  BY TimerStep DEF BoardInv
<1> SUFFICES BoardOK'
  BY <1>0 DEF BoardInv
<1>a. time > 0 => left > 0
  <2>1. time > 0 => level # LEVEL_NUM
    BY DEF BoardInv, TimerInv, TimerTypes, TaskKnown
  <2>2. left \in Nat
    BY BlocksFinite DEF BoardInv, BoardOK
  <2> QED
    BY <2>1, <2>2 DEF BoardInv, BoardOK
<1>b. left > 0 => OnBlock(cur) /\ (marked[1] = 0 \/ OnBlock(marked))
  BY DEF BoardInv, BoardOK, OnBlocks
<1>c. board \in Boards /\ Blocks(board) \in SUBSET Cell
  BY DEF BoardInv, BoardOK, GoodBoard, Blocks
<1>1. CASE \E i \in 1 .. 4 : bridge_move(Dirs[i])
  <2>1. PICK i \in 1 .. 4 : bridge_move(Dirs[i])
    BY <1>1
  <2>2. left > 0 /\ JustMarked(marked, moved(board, cur, Dirs[i]))
    BY <1>a, <2>1 DEF bridge_move, JustMarked
  <2>3. OnBlock(moved(board, cur, Dirs[i]))
    BY <1>b, <1>c, <2>2, MovedIs DEF OnBlock
  <2> QED
    BY <1>b, <2>2, <2>3, MarkedKeeps DEF BoardInv
<1>2. CASE bridge_next
  <2>1. left > 0 /\ JustMarked(marked, make_cur(board, cur, cur[1] + 1, cur[2]))
    BY <1>a, <1>2 DEF bridge_next, JustMarked
  <2>2. OnBlock(make_cur(board, cur, cur[1] + 1, cur[2]))
    <3>1. Blocks(board) # {}
      BY <1>b, <2>1 DEF OnBlock
    <3> QED
      BY <1>c, <3>1, MakeCurIs DEF OnBlock
  <2> QED
    BY <1>b, <2>1, <2>2, MarkedKeeps DEF BoardInv
<1>3. CASE bridge_mark
  <2>1. left > 0 /\ time > 0 /\ Mark(marked, cur)
    BY <1>a, <1>3 DEF bridge_mark
  <2> QED
    BY <1>b, <2>1, MarkKeeps
<1>4. CASE bridge_help
  <2>1. MarkBoth(help_op(board)) /\ PairSet(board) # {}
    BY <1>4 DEF bridge_help
  <2>2. OnBlock(help_op(board)[1]) /\ OnBlock(help_op(board)[2])
    BY <2>1, HelpIsPair DEF OnBlock
  <2>3. CASE time > 0
    BY <2>1, <2>2, <2>3, MarkKeeps DEF MarkBoth
  <2>4. CASE ~ (time > 0)
    <3>1. JustMarked(help_op(board)[1], help_op(board)[2])
      BY <2>1, <2>4 DEF MarkBoth, JustMarked
    <3> QED
      BY <2>2, <3>1, MarkedKeeps DEF BoardInv
  <2> QED
    BY <2>3, <2>4
<1>5. CASE bridge_exit \/ TimeLoad \/ TimeStore \/ UNCHANGED lianVars
  <2>1. board' = board /\ cur' = cur /\ marked' = marked /\ left' = left /\ level' = level
    BY <1>5 DEF bridge_exit, TimeLoad, TimeStore, lianVars
  <2> QED
    BY <2>1 DEF BoardInv, BoardOK, OnBlocks, OnBlock
<1> QED
  BY <1>1, <1>2, <1>3, <1>4, <1>5 DEF lianNext

\* _G_left counts the blocks, every type has an even number of them, and the cursor
\* and the mark stay on blocks.
THEOREM BoardIsConsistentHolds == lianSpec => []BoardIsConsistent
<1>1. BoardInv => BoardIsConsistent
  <2> SUFFICES ASSUME BoardInv PROVE BoardIsConsistent
    OBVIOUS
  <2>1. ASSUME NEW c \in Blocks(board) PROVE NumberOf(board, board[c]) % 2 = 0
    <3>1. board[c] \in Nat \ {0}
      BY DEF BoardInv, BoardOK, GoodBoard, Boards, Blocks
    <3> QED
      BY <3>1, Zenon DEF BoardInv, BoardOK, GoodBoard, EvenTypes
  <2>2. \A t \in {board[c] : c \in Blocks(board)} : NumberOf(board, t) % 2 = 0
    BY <2>1
  <2> QED
    BY <2>2 DEF BoardIsConsistent, BoardInv, BoardOK, OnBlocks, OnBlock
<1> QED
  BY <1>1, BoardStarts, BoardStep, PTL DEF lianSpec

-----------------------------------------------------------------------------
(* Lian: the search for a path.  What the code tries, a straight line, a   *)
(* corner, and a corner behind each empty cell of the four rays, is what   *)
(* three lines can do.                                                     *)

\* Two lines over an empty corner.
Corner(m, a, b, c) ==
  /\ a[1] # b[1] /\ a[2] # b[2]
  /\ c \in {<<b[1], a[2]>>, <<a[1], b[2]>>}
  /\ m[c] = 0 /\ reach(m, a, c) /\ reach(m, c, b)

\* One line more, to an empty cell t.
Turn(m, a, t) == t \in Cell /\ m[t] = 0 /\ reach(m, a, t)

IsCell(c) == c = <<c[1], c[2]>> /\ c[1] \in 1 .. COL_NUM /\ c[2] \in 1 .. ROW_NUM

LEMMA CellIs ==
  ASSUME NEW c \in Cell
  PROVE  /\ IsCell(c) /\ c[1] \in Int /\ c[2] \in Int
         /\ COL_NUM \in Nat /\ ROW_NUM \in Nat
BY CellsAre DEF IsCell

LEMMA CornersAre ==
  ASSUME NEW a \in Cell, NEW b \in Cell
  PROVE  <<b[1], a[2]>> \in Cell /\ <<a[1], b[2]>> \in Cell
BY CellsAre

\* A line one cell past the corner is empty when the line to it and the corner are.
Past(i, j) == IF i > j THEN j - 1 ELSE j + 1

LEMMA InsidePast ==
  ASSUME NEW i \in Int, NEW j \in Int, i # j
  PROVE  Inside(i, Past(i, j)) = Inside(i, j) \cup {j} /\ Past(i, j) # i
BY DEF Inside, Past

LEMMA RowPast ==
  ASSUME NEW m, NEW a \in Cell, NEW b \in Cell, a[1] # b[1]
  PROVE  reach(m, a, <<Past(a[1], b[1]), a[2]>>)
           <=> reach(m, a, <<b[1], a[2]>>) /\ m[<<b[1], a[2]>>] = 0
<1>1. a[1] \in Int /\ b[1] \in Int
  BY CellIs
<1>2. /\ Inside(a[1], Past(a[1], b[1])) = Inside(a[1], b[1]) \cup {b[1]}
      /\ Past(a[1], b[1]) # a[1]
  BY <1>1, InsidePast
<1> QED
  BY <1>2 DEF reach

LEMMA ColumnPast ==
  ASSUME NEW m, NEW a \in Cell, NEW b \in Cell, a[2] # b[2]
  PROVE  reach(m, a, <<a[1], Past(a[2], b[2])>>)
           <=> reach(m, a, <<a[1], b[2]>>) /\ m[<<a[1], b[2]>>] = 0
<1>1. a[2] \in Int /\ b[2] \in Int
  BY CellIs
<1>2. /\ Inside(a[2], Past(a[2], b[2])) = Inside(a[2], b[2]) \cup {b[2]}
      /\ Past(a[2], b[2]) # a[2]
  BY <1>1, InsidePast
<1> QED
  BY <1>2 DEF reach

IsCornerWay(m, a, b, w) ==
  \/ w = << >> /\ \A c : ~ Corner(m, a, b, c)
  \/ \E c \in Cell : w = <<c>> /\ Corner(m, a, b, c)

LEMMA CornerWay ==
  ASSUME NEW m, NEW a \in Cell, NEW b \in Cell
  PROVE  IsCornerWay(m, a, b, lr_reach(m, a, b))
<1> DEFINE c0 == <<b[1], a[2]>>
           c1 == <<a[1], b[2]>>
           row == reach(m, a, <<Past(a[1], b[1]), a[2]>>) /\ reach(m, c0, b)
           col == reach(m, a, <<a[1], Past(a[2], b[2])>>) /\ reach(m, c1, b)
<1>1. lr_reach(m, a, b) =
        IF a[1] = b[1] \/ a[2] = b[2] THEN << >>
        ELSE IF row THEN <<c0>> ELSE IF col THEN <<c1>> ELSE << >>
  BY Zenon DEF lr_reach, Past
<1>2. c0 \in Cell /\ c1 \in Cell
  BY CornersAre
<1>3. CASE a[1] = b[1] \/ a[2] = b[2]
  BY <1>1, <1>3 DEF IsCornerWay, Corner
<1>4. CASE a[1] # b[1] /\ a[2] # b[2]
  <2>1. (row <=> Corner(m, a, b, c0)) /\ (col <=> Corner(m, a, b, c1))
    BY <1>4, RowPast, ColumnPast DEF Corner
  <2>2. \A c : Corner(m, a, b, c) => c = c0 \/ c = c1
    BY DEF Corner
  <2> HIDE DEF c0, c1, row, col
  <2> QED
    BY <1>1, <1>2, <1>4, <2>1, <2>2 DEF IsCornerWay
<1> QED
  BY <1>3, <1>4

\* The four rays lead to the turns.
LEMMA StepsAre ==
  ASSUME NEW a \in Cell, NEW n \in Int
  PROVE  /\ Step(a, Dirs[1], n) = <<a[1] - n, a[2]>> /\ Step(a, Dirs[2], n) = <<a[1] + n, a[2]>>
         /\ Step(a, Dirs[3], n) = <<a[1], a[2] - n>> /\ Step(a, Dirs[4], n) = <<a[1], a[2] + n>>
<1>1. a[1] \in Int /\ a[2] \in Int
  BY CellIs
<1> QED
  BY <1>1, DirsAre DEF Step

LEMMA RayTurns ==
  ASSUME NEW m \in Boards, NEW a \in Cell, NEW i \in 1 .. 4,
         NEW n \in 1 .. Len(Ray(m, a, Dirs[i]))
  PROVE  Ray(m, a, Dirs[i])[n] = Step(a, Dirs[i], n) /\ Turn(m, a, Step(a, Dirs[i], n))
<1>1. IsRay(m, a, Dirs[i], Ray(m, a, Dirs[i]))
  BY RayIs
<1> DEFINE len == Len(Ray(m, a, Dirs[i]))
<1>2. len \in Nat /\ AllEmpty(m, a, Dirs[i], len) /\ n \in 1 .. len
  BY <1>1, FarIs DEF IsRay, Lens
<1>3. Ray(m, a, Dirs[i])[n] = Step(a, Dirs[i], n)
  BY <1>1 DEF IsRay
<1> HIDE DEF len
<1>4. ASSUME NEW j \in 1 .. n
      PROVE  Step(a, Dirs[i], j) \in Cell /\ m[Step(a, Dirs[i], j)] = 0
  <2>1. j \in 1 .. len
    BY <1>2
  <2> QED
    BY <1>2, <2>1 DEF AllEmpty, MapAt
<1>5. n \in 1 .. n /\ n \in Nat /\ n >= 1
  BY <1>2
<1>6. reach(m, a, Step(a, Dirs[i], n))
  <2>0. a = <<a[1], a[2]>> /\ a[1] \in Int /\ a[2] \in Int /\ n \in Int
    BY <1>5, CellIs DEF IsCell
  <2>1. CASE i = 1
    <3>1. Step(a, Dirs[i], n) = <<a[1] - n, a[2]>>
      BY <2>0, <2>1, StepsAre
    <3>2. ASSUME NEW x \in Inside(a[1], a[1] - n) PROVE m[<<x, a[2]>>] = 0
      <4>1. x \in Int /\ a[1] - x \in 1 .. n /\ a[1] - (a[1] - x) = x
        BY <2>0, <1>5 DEF Inside
      <4>2. Step(a, Dirs[i], a[1] - x) = <<x, a[2]>>
        BY <2>1, <4>1, StepsAre
      <4> QED
        BY <1>4, <4>1, <4>2
    <3> QED
      BY <1>5, <2>0, <3>1, <3>2 DEF reach
  <2>2. CASE i = 2
    <3>1. Step(a, Dirs[i], n) = <<a[1] + n, a[2]>>
      BY <2>0, <2>2, StepsAre
    <3>2. ASSUME NEW x \in Inside(a[1], a[1] + n) PROVE m[<<x, a[2]>>] = 0
      <4>1. x \in Int /\ x - a[1] \in 1 .. n /\ a[1] + (x - a[1]) = x
        BY <2>0, <1>5 DEF Inside
      <4>2. Step(a, Dirs[i], x - a[1]) = <<x, a[2]>>
        BY <2>2, <4>1, StepsAre
      <4> QED
        BY <1>4, <4>1, <4>2
    <3> QED
      BY <1>5, <2>0, <3>1, <3>2 DEF reach
  <2>3. CASE i = 3
    <3>1. Step(a, Dirs[i], n) = <<a[1], a[2] - n>>
      BY <2>0, <2>3, StepsAre
    <3>2. ASSUME NEW y \in Inside(a[2], a[2] - n) PROVE m[<<a[1], y>>] = 0
      <4>1. y \in Int /\ a[2] - y \in 1 .. n /\ a[2] - (a[2] - y) = y
        BY <2>0, <1>5 DEF Inside
      <4>2. Step(a, Dirs[i], a[2] - y) = <<a[1], y>>
        BY <2>3, <4>1, StepsAre
      <4> QED
        BY <1>4, <4>1, <4>2
    <3> QED
      BY <1>5, <2>0, <3>1, <3>2 DEF reach
  <2>4. CASE i = 4
    <3>1. Step(a, Dirs[i], n) = <<a[1], a[2] + n>>
      BY <2>0, <2>4, StepsAre
    <3>2. ASSUME NEW y \in Inside(a[2], a[2] + n) PROVE m[<<a[1], y>>] = 0
      <4>1. y \in Int /\ y - a[2] \in 1 .. n /\ a[2] + (y - a[2]) = y
        BY <2>0, <1>5 DEF Inside
      <4>2. Step(a, Dirs[i], y - a[2]) = <<a[1], y>>
        BY <2>4, <4>1, StepsAre
      <4> QED
        BY <1>4, <4>1, <4>2
    <3> QED
      BY <1>5, <2>0, <3>1, <3>2 DEF reach
  <2> QED
    BY <2>1, <2>2, <2>3, <2>4
<1> QED
  BY <1>3, <1>4, <1>5, <1>6 DEF Turn

LEMMA InRay ==
  ASSUME NEW m \in Boards, NEW a \in Cell, NEW i \in 1 .. 4, NEW n \in 1 .. Far,
         \A j \in 1 .. n : Step(a, Dirs[i], j) \in Cell /\ m[Step(a, Dirs[i], j)] = 0
  PROVE  n \in 1 .. Len(Ray(m, a, Dirs[i])) /\ Ray(m, a, Dirs[i])[n] = Step(a, Dirs[i], n)
<1>1. IsRay(m, a, Dirs[i], Ray(m, a, Dirs[i]))
  BY RayIs
<1>2. Far \in Nat /\ n \in 0 .. Far
  BY FarIs
<1>3. n \in Lens(m, a, Dirs[i])
  BY <1>2 DEF Lens, AllEmpty, MapAt
<1>4. n <= Len(Ray(m, a, Dirs[i])) /\ Len(Ray(m, a, Dirs[i])) \in Nat
  BY <1>1, <1>2, <1>3 DEF IsRay, Lens
<1>5. n \in 1 .. Len(Ray(m, a, Dirs[i]))
  BY <1>4
<1> QED
  BY <1>1, <1>5 DEF IsRay

LEMMA TurnInRay ==
  ASSUME NEW m \in Boards, NEW a \in Cell, NEW t, Turn(m, a, t)
  PROVE  \E i \in 1 .. 4 : \E n \in 1 .. Len(Ray(m, a, Dirs[i])) : Ray(m, a, Dirs[i])[n] = t
<1>1. /\ t \in Cell /\ m[t] = 0 /\ t = <<t[1], t[2]>> /\ a = <<a[1], a[2]>>
      /\ t[1] \in 1 .. COL_NUM /\ t[2] \in 1 .. ROW_NUM /\ a[1] \in 1 .. COL_NUM
      /\ a[2] \in 1 .. ROW_NUM /\ COL_NUM \in Nat /\ ROW_NUM \in Nat
  BY CellIs DEF Turn, IsCell
<1>2. Far \in Nat /\ Far >= ROW_NUM /\ Far >= COL_NUM
  BY FarIs
<1>3. \A x \in 1 .. COL_NUM, y \in 1 .. ROW_NUM : <<x, y>> \in Cell
  BY CellsAre
<1>4. CASE t[2] = a[2] /\ t[1] # a[1]
  <2>1. \A x \in Inside(a[1], t[1]) : m[<<x, a[2]>>] = 0
    BY <1>1, <1>4 DEF Turn, reach
  <2>2. CASE t[1] < a[1]
    <3> DEFINE n == a[1] - t[1]
    <3>0. a[1] \in 1 .. COL_NUM /\ t[1] \in 1 .. COL_NUM /\ COL_NUM \in Nat
      BY <1>1
    <3>1. n \in 1 .. Far
      BY <1>2, <2>2, <3>0
    <3>2. ASSUME NEW j \in 1 .. n
          PROVE  Step(a, Dirs[1], j) \in Cell /\ m[Step(a, Dirs[1], j)] = 0
      <4>0. /\ a[1] \in 1 .. COL_NUM /\ t[1] \in 1 .. COL_NUM /\ COL_NUM \in Nat
            /\ j \in 1 .. a[1] - t[1]
        BY <1>1
      <4>1. /\ j \in Int /\ a[1] - j \in 1 .. COL_NUM
            /\ a[1] - j = t[1] \/ a[1] - j \in Inside(a[1], t[1])
        <5>1. j \in Int /\ a[1] - j \in 1 .. COL_NUM
          BY <4>0
        <5>2. a[1] - j # t[1] => a[1] - j \in t[1] + 1 .. a[1] - 1
          BY <2>2, <4>0
        <5>3. Inside(a[1], t[1]) = t[1] + 1 .. a[1] - 1
          BY <2>2, <4>0 DEF Inside
        <5> QED
          BY <5>1, <5>2, <5>3
      <4>2. Step(a, Dirs[1], j) = <<a[1] - j, a[2]>>
        BY <4>1, StepsAre
      <4>3. m[<<t[1], a[2]>>] = 0
        BY <1>1, <1>4
      <4>4. PICK z \in 1 .. COL_NUM : z = a[1] - j
        BY <4>1
      <4>5. m[<<z, a[2]>>] = 0
        BY <2>1, <4>1, <4>3, <4>4
      <4>6. <<z, a[2]>> \in Cell
        BY <1>1, <1>3
      <4> QED
        BY <4>2, <4>4, <4>5, <4>6
    <3>3. Step(a, Dirs[1], n) = t
      <4>1. n \in Int /\ a[1] - n = t[1]
        BY <1>1
      <4>2. Step(a, Dirs[1], n) = <<a[1] - n, a[2]>>
        BY <4>1, StepsAre
      <4>3. t = <<t[1], a[2]>>
        BY <1>1, <1>4
      <4> QED
        BY <4>1, <4>2, <4>3
    <3>4. 1 \in 1 .. 4
      OBVIOUS
    <3> HIDE DEF n
    <3> QED
      BY <3>1, <3>2, <3>3, <3>4, InRay
  <2>3. CASE t[1] > a[1]
    <3> DEFINE n == t[1] - a[1]
    <3>0. a[1] \in 1 .. COL_NUM /\ t[1] \in 1 .. COL_NUM /\ COL_NUM \in Nat
      BY <1>1
    <3>1. n \in 1 .. Far
      BY <1>2, <2>3, <3>0
    <3>2. ASSUME NEW j \in 1 .. n
          PROVE  Step(a, Dirs[2], j) \in Cell /\ m[Step(a, Dirs[2], j)] = 0
      <4>0. /\ a[1] \in 1 .. COL_NUM /\ t[1] \in 1 .. COL_NUM /\ COL_NUM \in Nat
            /\ j \in 1 .. t[1] - a[1]
        BY <1>1
      <4>1. /\ j \in Int /\ a[1] + j \in 1 .. COL_NUM
            /\ a[1] + j = t[1] \/ a[1] + j \in Inside(a[1], t[1])
        <5>1. j \in Int /\ a[1] + j \in 1 .. COL_NUM
          BY <4>0
        <5>2. a[1] + j # t[1] => a[1] + j \in a[1] + 1 .. t[1] - 1
          BY <2>3, <4>0
        <5>3. Inside(a[1], t[1]) = a[1] + 1 .. t[1] - 1
          BY <2>3, <4>0 DEF Inside
        <5> QED
          BY <5>1, <5>2, <5>3
      <4>2. Step(a, Dirs[2], j) = <<a[1] + j, a[2]>>
        BY <4>1, StepsAre
      <4>3. m[<<t[1], a[2]>>] = 0
        BY <1>1, <1>4
      <4>4. PICK z \in 1 .. COL_NUM : z = a[1] + j
        BY <4>1
      <4>5. m[<<z, a[2]>>] = 0
        BY <2>1, <4>1, <4>3, <4>4
      <4>6. <<z, a[2]>> \in Cell
        BY <1>1, <1>3
      <4> QED
        BY <4>2, <4>4, <4>5, <4>6
    <3>3. Step(a, Dirs[2], n) = t
      <4>1. n \in Int /\ a[1] + n = t[1]
        BY <1>1
      <4>2. Step(a, Dirs[2], n) = <<a[1] + n, a[2]>>
        BY <4>1, StepsAre
      <4>3. t = <<t[1], a[2]>>
        BY <1>1, <1>4
      <4> QED
        BY <4>1, <4>2, <4>3
    <3>4. 2 \in 1 .. 4
      OBVIOUS
    <3> HIDE DEF n
    <3> QED
      BY <3>1, <3>2, <3>3, <3>4, InRay
  <2> QED
    BY <1>1, <1>4, <2>2, <2>3
<1>5. CASE t[1] = a[1] /\ t[2] # a[2]
  <2>1. \A y \in Inside(a[2], t[2]) : m[<<a[1], y>>] = 0
    BY <1>1, <1>5 DEF Turn, reach
  <2>2. CASE t[2] < a[2]
    <3> DEFINE n == a[2] - t[2]
    <3>0. a[2] \in 1 .. ROW_NUM /\ t[2] \in 1 .. ROW_NUM /\ ROW_NUM \in Nat
      BY <1>1
    <3>1. n \in 1 .. Far
      BY <1>2, <2>2, <3>0
    <3>2. ASSUME NEW j \in 1 .. n
          PROVE  Step(a, Dirs[3], j) \in Cell /\ m[Step(a, Dirs[3], j)] = 0
      <4>0. /\ a[2] \in 1 .. ROW_NUM /\ t[2] \in 1 .. ROW_NUM /\ ROW_NUM \in Nat
            /\ j \in 1 .. a[2] - t[2]
        BY <1>1
      <4>1. /\ j \in Int /\ a[2] - j \in 1 .. ROW_NUM
            /\ a[2] - j = t[2] \/ a[2] - j \in Inside(a[2], t[2])
        <5>1. j \in Int /\ a[2] - j \in 1 .. ROW_NUM
          BY <4>0
        <5>2. a[2] - j # t[2] => a[2] - j \in t[2] + 1 .. a[2] - 1
          BY <2>2, <4>0
        <5>3. Inside(a[2], t[2]) = t[2] + 1 .. a[2] - 1
          BY <2>2, <4>0 DEF Inside
        <5> QED
          BY <5>1, <5>2, <5>3
      <4>2. Step(a, Dirs[3], j) = <<a[1], a[2] - j>>
        BY <4>1, StepsAre
      <4>3. m[<<a[1], t[2]>>] = 0
        BY <1>1, <1>5
      <4>4. PICK z \in 1 .. ROW_NUM : z = a[2] - j
        BY <4>1
      <4>5. m[<<a[1], z>>] = 0
        BY <2>1, <4>1, <4>3, <4>4
      <4>6. <<a[1], z>> \in Cell
        BY <1>1, <1>3
      <4> QED
        BY <4>2, <4>4, <4>5, <4>6
    <3>3. Step(a, Dirs[3], n) = t
      <4>1. n \in Int /\ a[2] - n = t[2]
        BY <1>1
      <4>2. Step(a, Dirs[3], n) = <<a[1], a[2] - n>>
        BY <4>1, StepsAre
      <4>3. t = <<a[1], t[2]>>
        BY <1>1, <1>5
      <4> QED
        BY <4>1, <4>2, <4>3
    <3>4. 3 \in 1 .. 4
      OBVIOUS
    <3> HIDE DEF n
    <3> QED
      BY <3>1, <3>2, <3>3, <3>4, InRay
  <2>3. CASE t[2] > a[2]
    <3> DEFINE n == t[2] - a[2]
    <3>0. a[2] \in 1 .. ROW_NUM /\ t[2] \in 1 .. ROW_NUM /\ ROW_NUM \in Nat
      BY <1>1
    <3>1. n \in 1 .. Far
      BY <1>2, <2>3, <3>0
    <3>2. ASSUME NEW j \in 1 .. n
          PROVE  Step(a, Dirs[4], j) \in Cell /\ m[Step(a, Dirs[4], j)] = 0
      <4>0. /\ a[2] \in 1 .. ROW_NUM /\ t[2] \in 1 .. ROW_NUM /\ ROW_NUM \in Nat
            /\ j \in 1 .. t[2] - a[2]
        BY <1>1
      <4>1. /\ j \in Int /\ a[2] + j \in 1 .. ROW_NUM
            /\ a[2] + j = t[2] \/ a[2] + j \in Inside(a[2], t[2])
        <5>1. j \in Int /\ a[2] + j \in 1 .. ROW_NUM
          BY <4>0
        <5>2. a[2] + j # t[2] => a[2] + j \in a[2] + 1 .. t[2] - 1
          BY <2>3, <4>0
        <5>3. Inside(a[2], t[2]) = a[2] + 1 .. t[2] - 1
          BY <2>3, <4>0 DEF Inside
        <5> QED
          BY <5>1, <5>2, <5>3
      <4>2. Step(a, Dirs[4], j) = <<a[1], a[2] + j>>
        BY <4>1, StepsAre
      <4>3. m[<<a[1], t[2]>>] = 0
        BY <1>1, <1>5
      <4>4. PICK z \in 1 .. ROW_NUM : z = a[2] + j
        BY <4>1
      <4>5. m[<<a[1], z>>] = 0
        BY <2>1, <4>1, <4>3, <4>4
      <4>6. <<a[1], z>> \in Cell
        BY <1>1, <1>3
      <4> QED
        BY <4>2, <4>4, <4>5, <4>6
    <3>3. Step(a, Dirs[4], n) = t
      <4>1. n \in Int /\ a[2] + n = t[2]
        BY <1>1
      <4>2. Step(a, Dirs[4], n) = <<a[1], a[2] + n>>
        BY <4>1, StepsAre
      <4>3. t = <<a[1], t[2]>>
        BY <1>1, <1>5
      <4> QED
        BY <4>1, <4>2, <4>3
    <3>4. 4 \in 1 .. 4
      OBVIOUS
    <3> HIDE DEF n
    <3> QED
      BY <3>1, <3>2, <3>3, <3>4, InRay
  <2> QED
    BY <1>1, <1>5, <2>2, <2>3
<1> QED
  BY <1>4, <1>5 DEF Turn, reach

\* The turns, one ray after another.
Turns(m, a) == Ray(m, a, Dirs[1]) \o Ray(m, a, Dirs[2]) \o Ray(m, a, Dirs[3])
                                  \o Ray(m, a, Dirs[4])

Elements(q) == {q[i] : i \in 1 .. Len(q)}

LEMMA BothIn ==
  ASSUME NEW S, NEW q \in Seq(S), NEW r \in Seq(S)
  PROVE  q \o r \in Seq(S) /\ Elements(q \o r) = Elements(q) \cup Elements(r)
<1>1. /\ q \o r \in Seq(S) /\ Len(q \o r) = Len(q) + Len(r) /\ Len(q) \in Nat /\ Len(r) \in Nat
      /\ \A i \in 1 .. Len(q) + Len(r) : (q \o r)[i] = IF i <= Len(q) THEN q[i] ELSE r[i - Len(q)]
  BY ConcatProperties
<1>2. ASSUME NEW x \in Elements(q \o r) PROVE x \in Elements(q) \cup Elements(r)
  <2>1. PICK i \in 1 .. Len(q) + Len(r) : x = (q \o r)[i]
    BY <1>1 DEF Elements
  <2>2. i \in 1 .. Len(q) \/ (~ (i <= Len(q)) /\ i - Len(q) \in 1 .. Len(r))
    BY <1>1
  <2> QED
    BY <1>1, <2>1, <2>2 DEF Elements
<1>3. ASSUME NEW x \in Elements(q) PROVE x \in Elements(q \o r)
  <2>1. PICK i \in 1 .. Len(q) : x = q[i]
    BY DEF Elements
  <2>2. i \in 1 .. Len(q) + Len(r) /\ i <= Len(q)
    BY <1>1
  <2> QED
    BY <1>1, <2>1, <2>2 DEF Elements
<1>4. ASSUME NEW x \in Elements(r) PROVE x \in Elements(q \o r)
  <2>1. PICK i \in 1 .. Len(r) : x = r[i]
    BY DEF Elements
  <2>2. /\ Len(q) + i \in 1 .. Len(q) + Len(r) /\ ~ (Len(q) + i <= Len(q))
        /\ (Len(q) + i) - Len(q) = i
    BY <1>1
  <2> QED
    BY <1>1, <2>1, <2>2 DEF Elements
<1> QED
  BY <1>1, <1>2, <1>3, <1>4

\* Every element of a ray is a turn.
LEMMA RayElements ==
  ASSUME NEW m \in Boards, NEW a \in Cell, NEW i \in 1 .. 4
  PROVE  /\ Ray(m, a, Dirs[i]) \in Seq(Cell)
         /\ \A t \in Elements(Ray(m, a, Dirs[i])) : Turn(m, a, t)
<1>1. IsRay(m, a, Dirs[i], Ray(m, a, Dirs[i]))
  BY RayIs
<1>2. \A n \in 1 .. Len(Ray(m, a, Dirs[i])) : Turn(m, a, Ray(m, a, Dirs[i])[n])
  <2>1. TAKE n \in 1 .. Len(Ray(m, a, Dirs[i]))
  <2>2. Ray(m, a, Dirs[i])[n] = Step(a, Dirs[i], n) /\ Turn(m, a, Step(a, Dirs[i], n))
    BY RayTurns
  <2> QED
    BY <2>2
<1>3. Len(Ray(m, a, Dirs[i])) \in Nat
  BY <1>1, FarIs DEF IsRay, Lens
<1>4. \A n \in 1 .. Len(Ray(m, a, Dirs[i])) : Ray(m, a, Dirs[i])[n] \in Cell
  BY <1>2 DEF Turn
<1>5. Ray(m, a, Dirs[i]) \in Seq(Cell)
  BY <1>1, <1>3, <1>4 DEF IsRay
<1> QED
  BY <1>2, <1>5 DEF Elements

LEMMA TurnsAre ==
  ASSUME NEW m \in Boards, NEW a \in Cell
  PROVE  /\ Turns(m, a) \in Seq(Cell)
         /\ \A t : t \in Elements(Turns(m, a)) <=> Turn(m, a, t)
<1> DEFINE r(i) == Ray(m, a, Dirs[i])
<1>1. \A i \in 1 .. 4 : r(i) \in Seq(Cell) /\ \A t \in Elements(r(i)) : Turn(m, a, t)
  BY RayElements
<1>2. \A t : Turn(m, a, t) => \E i \in 1 .. 4 : t \in Elements(r(i))
  BY TurnInRay DEF Elements
<1>3. Turns(m, a) = ((r(1) \o r(2)) \o r(3)) \o r(4)
  BY DEF Turns
<1> HIDE DEF r
<1>4. r(1) \in Seq(Cell) /\ r(2) \in Seq(Cell) /\ r(3) \in Seq(Cell) /\ r(4) \in Seq(Cell)
  BY <1>1
<1>5. PICK u : u = r(1) \o r(2)
  OBVIOUS
<1>6. PICK v : v = u \o r(3)
  OBVIOUS
<1>a. u \in Seq(Cell) /\ Elements(u) = Elements(r(1)) \cup Elements(r(2))
  BY <1>4, <1>5, BothIn
<1>b. v \in Seq(Cell) /\ Elements(v) = Elements(u) \cup Elements(r(3))
  BY <1>4, <1>a, <1>6, BothIn
<1>7. PICK w : w = v \o r(4)
  OBVIOUS
<1>c. w \in Seq(Cell) /\ Elements(w) = Elements(v) \cup Elements(r(4))
  BY <1>4, <1>b, <1>7, BothIn
<1>d. Turns(m, a) = w
  BY <1>3, <1>5, <1>6, <1>7
<1>8. Elements(Turns(m, a)) = Elements(r(1)) \cup Elements(r(2)) \cup Elements(r(3)) \cup Elements(r(4))
  BY <1>a, <1>b, <1>c, <1>d
<1>9. ASSUME NEW t PROVE t \in Elements(Turns(m, a)) <=> Turn(m, a, t)
  <2>1. CASE Turn(m, a, t)
    <3>1. PICK i \in 1 .. 4 : t \in Elements(r(i))
      BY <1>2, <2>1
    <3>2. i = 1 \/ i = 2 \/ i = 3 \/ i = 4
      OBVIOUS
    <3> QED
      BY <1>8, <2>1, <3>1, <3>2
  <2>2. CASE t \in Elements(Turns(m, a))
    <3>1. \E i \in 1 .. 4 : t \in Elements(r(i))
      <4>1. 1 \in 1 .. 4 /\ 2 \in 1 .. 4 /\ 3 \in 1 .. 4 /\ 4 \in 1 .. 4
        OBVIOUS
      <4> QED
        BY <1>8, <2>2, <4>1
    <3> QED
      BY <1>1, <2>2, <3>1
  <2> QED
    BY <2>1, <2>2
<1> QED
  BY <1>c, <1>d, <1>9

IsTurnWay(m, a, b, w) ==
  \/ w = << >> /\ \A t, c : Turn(m, a, t) => ~ Corner(m, t, b, c)
  \/ \E t \in Cell, c \in Cell : w = <<t, c>> /\ Turn(m, a, t) /\ Corner(m, t, b, c)

LEMMA PairIs ==
  ASSUME NEW e, NEW f
  PROVE  <<e>> \o <<f>> = <<e, f>>
<1>1. PICK s : s = <<e>> \o <<f>>
  OBVIOUS
<1>2. PICK t : t = <<e, f>>
  OBVIOUS
<1>3. <<e>> \in Seq({e, f}) /\ <<f>> \in Seq({e, f}) /\ t \in Seq({e, f})
  BY <1>2
<1>4. Len(t) = 2 /\ t[1] = e /\ t[2] = f
  BY <1>2
<1>5. Len(<<e>>) = 1 /\ Len(<<f>>) = 1
  OBVIOUS
<1>6. /\ s \in Seq({e, f}) /\ Len(s) = 2 /\ s[1] = e /\ s[2] = f
  BY <1>1, <1>3, <1>5, ConcatProperties
<1>7. \A i \in 1 .. Len(s) : s[i] = t[i]
  BY <1>4, <1>6
<1>8. s = t
  BY <1>3, <1>4, <1>6, <1>7, SeqEqual
<1> QED
  BY <1>1, <1>2, <1>8

LEMMA TurnWay ==
  ASSUME NEW m \in Boards, NEW a \in Cell, NEW b \in Cell
  PROVE  IsTurnWay(m, a, b, lr_lr_reach(m, a, b))
<1> DEFINE s == Turns(m, a)
           ways == [i \in 1 .. Len(s) |-> lr_reach(m, s[i], b)]
           on == {i \in 1 .. Len(s) : ways[i] # << >>}
<1>1. s \in Seq(Cell) /\ \A t : t \in Elements(s) <=> Turn(m, a, t)
  BY TurnsAre
<1>2. lr_lr_reach(m, a, b) = IF on = {} THEN << >> ELSE <<s[Min(on)]>> \o ways[Min(on)]
  BY Zenon DEF lr_lr_reach, lr_lr_via, FirstWay, Turns
<1>3. Len(s) \in Nat /\ \A i \in 1 .. Len(s) : s[i] \in Cell
  <2> HIDE DEF s
  <2> QED
    BY <1>1
<1>4. ASSUME NEW i \in 1 .. Len(s)
      PROVE  /\ s[i] \in Cell /\ Turn(m, a, s[i]) /\ ways[i] = lr_reach(m, s[i], b)
             /\ IsCornerWay(m, s[i], b, ways[i])
  <2>1. s[i] \in Cell /\ ways[i] = lr_reach(m, s[i], b)
    BY <1>3
  <2>2. Turn(m, a, s[i])
    BY <1>1, Zenon DEF Elements
  <2>3. IsCornerWay(m, s[i], b, lr_reach(m, s[i], b))
    BY <2>1, CornerWay
  <2> QED
    BY <2>1, <2>2, <2>3
<1>5. CASE on = {}
  <2>1. ASSUME NEW t, NEW c, Turn(m, a, t) PROVE ~ Corner(m, t, b, c)
    <3>1. PICK i \in 1 .. Len(s) : t = s[i]
      BY <1>1, <2>1 DEF Elements
    <3>2. ways[i] = << >> /\ IsCornerWay(m, t, b, ways[i])
      BY <1>4, <1>5, <3>1
    <3>3. \A e : <<e>> # << >>
      OBVIOUS
    <3> QED
      BY <3>2, <3>3 DEF IsCornerWay
  <2> QED
    BY <1>2, <1>5, <2>1 DEF IsTurnWay
<1>6. CASE on # {}
  <2>1. on \in SUBSET Nat
    BY <1>3
  <2>2. Min(on) \in on
    <3> HIDE DEF on
    <3> QED
      BY <1>6, <2>1, MinIs
  <2>3. PICK k : k = Min(on)
    OBVIOUS
  <2>4. k \in 1 .. Len(s) /\ ways[k] # << >>
    BY <2>2, <2>3
  <2>5. s[k] \in Cell /\ Turn(m, a, s[k]) /\ IsCornerWay(m, s[k], b, ways[k])
    BY <1>4, <2>4
  <2>6. PICK c \in Cell : ways[k] = <<c>> /\ Corner(m, s[k], b, c)
    BY <2>4, <2>5 DEF IsCornerWay
  <2>7. lr_lr_reach(m, a, b) = <<s[k]>> \o <<c>>
    BY <1>2, <1>6, <2>3, <2>6
  <2>8. <<s[k]>> \o <<c>> = <<s[k], c>>
    BY PairIs
  <2>9. lr_lr_reach(m, a, b) = <<s[k], c>>
    BY <2>7, <2>8
  <2> HIDE DEF s, ways, on
  <2> QED
    BY <2>5, <2>6, <2>9 DEF IsTurnWay
<1> QED
  BY <1>5, <1>6

\* The parts of a path.
Link(m, p, q) == p = q \/ reach(m, p, q)
Open(m, a, b, p) == p \in {a, b} \/ MapAt(m, p) = 0

LEMMA PathOf4 ==
  ASSUME NEW m, NEW a, NEW p, NEW q, NEW b
  PROVE  EmptyPath(m, <<a, p, q, b>>)
           <=> /\ Open(m, a, b, p) /\ Open(m, a, b, q)
               /\ Link(m, a, p) /\ Link(m, p, q) /\ Link(m, q, b)
<1> DEFINE s == <<a, p, q, b>>
<1>1. Len(s) = 4 /\ s[1] = a /\ s[2] = p /\ s[3] = q /\ s[4] = b
  OBVIOUS
<1>2. \A i : (i \in 2 .. 4 - 1 <=> i = 2 \/ i = 3) /\ (i \in 1 .. 4 - 1 <=> i = 1 \/ i = 2 \/ i = 3)
  OBVIOUS
<1>3. 1 + 1 = 2 /\ 2 + 1 = 3 /\ 3 + 1 = 4
  OBVIOUS
<1> HIDE DEF s
<1>4. (\A i \in 2 .. Len(s) - 1 : s[i] \in {s[1], s[Len(s)]} \/ MapAt(m, s[i]) = 0)
        <=> Open(m, a, b, p) /\ Open(m, a, b, q)
  BY <1>1, <1>2 DEF Open
<1>5. (\A i \in 1 .. Len(s) - 1 : s[i] = s[i + 1] \/ reach(m, s[i], s[i + 1]))
        <=> Link(m, a, p) /\ Link(m, p, q) /\ Link(m, q, b)
  BY <1>1, <1>2, <1>3 DEF Link
<1>6. EmptyPath(m, s)
           <=> /\ Open(m, a, b, p) /\ Open(m, a, b, q)
               /\ Link(m, a, p) /\ Link(m, p, q) /\ Link(m, q, b)
  BY <1>4, <1>5 DEF EmptyPath
<1> QED
  BY <1>6, Zenon DEF s

LEMMA PathOf3 ==
  ASSUME NEW m, NEW a, NEW c, NEW b, MapAt(m, c) = 0, reach(m, a, c), reach(m, c, b)
  PROVE  EmptyPath(m, <<a, c, b>>)
<1> DEFINE s == <<a, c, b>>
<1>1. Len(s) = 3 /\ s[1] = a /\ s[2] = c /\ s[3] = b
  OBVIOUS
<1>2. \A i : (i \in 2 .. 3 - 1 <=> i = 2) /\ (i \in 1 .. 3 - 1 <=> i = 1 \/ i = 2)
  OBVIOUS
<1>3. 1 + 1 = 2 /\ 2 + 1 = 3
  OBVIOUS
<1> HIDE DEF s
<1>4. EmptyPath(m, s)
  BY <1>1, <1>2, <1>3 DEF EmptyPath
<1> QED
  BY <1>4, Zenon DEF s

LEMMA PathOf2 ==
  ASSUME NEW m, NEW a, NEW b, reach(m, a, b)
  PROVE  EmptyPath(m, <<a, b>>)
<1> DEFINE s == <<a, b>>
<1>1. Len(s) = 2 /\ s[1] = a /\ s[2] = b
  OBVIOUS
<1>2. \A i : i \notin 2 .. 2 - 1 /\ (i \in 1 .. 2 - 1 <=> i = 1)
  OBVIOUS
<1>3. 1 + 1 = 2
  OBVIOUS
<1> HIDE DEF s
<1>4. EmptyPath(m, s)
  BY <1>1, <1>2, <1>3 DEF EmptyPath
<1> QED
  BY <1>4, Zenon DEF s

\* A line over an empty cell in the middle.
LEMMA InsideVia ==
  ASSUME NEW i \in Int, NEW j \in Int, NEW k \in Int
  PROVE  Inside(i, k) \subseteq Inside(i, j) \cup {j} \cup Inside(j, k)
BY DEF Inside

LEMMA LineVia ==
  ASSUME NEW m, NEW a \in Cell, NEW t \in Cell, NEW b \in Cell,
         \/ a[2] = t[2] /\ t[2] = b[2] /\ a[1] # b[1]
         \/ a[1] = t[1] /\ t[1] = b[1] /\ a[2] # b[2],
         reach(m, a, t), m[t] = 0, reach(m, t, b)
  PROVE  reach(m, a, b)
<1>1. /\ t = <<t[1], t[2]>> /\ a[1] \in Int /\ a[2] \in Int /\ t[1] \in Int /\ t[2] \in Int
      /\ b[1] \in Int /\ b[2] \in Int
  BY CellIs DEF IsCell
<1>2. CASE a[2] = t[2] /\ t[2] = b[2] /\ a[1] # b[1]
  <2>1. \A x \in Inside(a[1], t[1]) : m[<<x, a[2]>>] = 0
    BY <1>2 DEF reach
  <2>2. \A x \in Inside(t[1], b[1]) : m[<<x, a[2]>>] = 0
    BY <1>2 DEF reach
  <2>3. Inside(a[1], b[1]) \subseteq Inside(a[1], t[1]) \cup {t[1]} \cup Inside(t[1], b[1])
    BY <1>1, InsideVia
  <2>4. m[<<t[1], a[2]>>] = 0
    BY <1>1, <1>2
  <2> QED
    BY <1>2, <2>1, <2>2, <2>3, <2>4 DEF reach
<1>3. CASE a[1] = t[1] /\ t[1] = b[1] /\ a[2] # b[2]
  <2>1. \A y \in Inside(a[2], t[2]) : m[<<a[1], y>>] = 0
    BY <1>3 DEF reach
  <2>2. \A y \in Inside(t[2], b[2]) : m[<<a[1], y>>] = 0
    BY <1>3 DEF reach
  <2>3. Inside(a[2], b[2]) \subseteq Inside(a[2], t[2]) \cup {t[2]} \cup Inside(t[2], b[2])
    BY <1>1, InsideVia
  <2>4. m[<<a[1], t[2]>>] = 0
    BY <1>1, <1>3
  <2> QED
    BY <1>3, <2>1, <2>2, <2>3, <2>4 DEF reach
<1> QED
  BY <1>2, <1>3

\* The paths that PathsAreRight speaks of, and the ways that lian_check tries.
RowPath(m, a, b) == \E x \in 1 .. COL_NUM : EmptyPath(m, <<a, <<x, a[2]>>, <<x, b[2]>>, b>>)
ColumnPath(m, a, b) == \E y \in 1 .. ROW_NUM : EmptyPath(m, <<a, <<a[1], y>>, <<b[1], y>>, b>>)

Joinable(m, a, b) ==
  \/ reach(m, a, b)
  \/ \E c : Corner(m, a, b, c)
  \/ \E t, c : Turn(m, a, t) /\ Corner(m, t, b, c)

\* Two blocks.
TwoBlocks(m, a, b) == m \in Boards /\ a \in Blocks(m) /\ b \in Blocks(m) /\ a # b

LEMMA BlocksAre ==
  ASSUME NEW m, NEW a, NEW b, TwoBlocks(m, a, b)
  PROVE  /\ m \in Boards /\ a \in Cell /\ b \in Cell /\ m[a] # 0 /\ m[b] # 0 /\ a # b
         /\ a = <<a[1], a[2]>> /\ b = <<b[1], b[2]>>
         /\ a[1] \in 1 .. COL_NUM /\ b[1] \in 1 .. COL_NUM
         /\ a[2] \in 1 .. ROW_NUM /\ b[2] \in 1 .. ROW_NUM
BY CellIs DEF TwoBlocks, Blocks, IsCell

LEMMA StraightHasPath ==
  ASSUME NEW m, NEW a, NEW b, TwoBlocks(m, a, b), reach(m, a, b)
  PROVE  RowPath(m, a, b)
<1>0. /\ a = <<a[1], a[2]>> /\ b = <<b[1], b[2]>> /\ a[1] \in 1 .. COL_NUM /\ b[1] \in 1 .. COL_NUM
  BY BlocksAre
<1>1. CASE a[2] = b[2]
  <2>1. EmptyPath(m, <<a, b, b, b>>)
    BY PathOf4 DEF Open, Link
  <2>2. <<b[1], a[2]>> = b /\ <<b[1], b[2]>> = b
    BY <1>0, <1>1
  <2> QED
    BY <1>0, <2>1, <2>2 DEF RowPath
<1>2. CASE a[1] = b[1]
  <2>1. EmptyPath(m, <<a, a, b, b>>)
    BY PathOf4 DEF Open, Link
  <2>2. <<a[1], a[2]>> = a /\ <<a[1], b[2]>> = b
    BY <1>0, <1>2
  <2> QED
    BY <1>0, <2>1, <2>2 DEF RowPath
<1> QED
  BY <1>1, <1>2 DEF reach

LEMMA CornerHasPath ==
  ASSUME NEW m, NEW a, NEW b, TwoBlocks(m, a, b), NEW c, Corner(m, a, b, c)
  PROVE  RowPath(m, a, b)
<1>0. /\ a = <<a[1], a[2]>> /\ b = <<b[1], b[2]>> /\ a[1] \in 1 .. COL_NUM /\ b[1] \in 1 .. COL_NUM
      /\ a \in Cell /\ b \in Cell
  BY BlocksAre
<1>a. c \in Cell /\ MapAt(m, c) = 0
  BY <1>0, CornersAre DEF Corner, MapAt
<1>1. CASE c = <<b[1], a[2]>>
  <2>1. EmptyPath(m, <<a, c, b, b>>)
    BY <1>a, PathOf4 DEF Open, Link, Corner
  <2> QED
    BY <1>0, <1>1, <2>1 DEF RowPath
<1>2. CASE c = <<a[1], b[2]>>
  <2>1. EmptyPath(m, <<a, a, c, b>>)
    BY <1>a, PathOf4 DEF Open, Link, Corner
  <2> QED
    BY <1>0, <1>2, <2>1 DEF RowPath
<1> QED
  BY <1>1, <1>2 DEF Corner

LEMMA TurnHasPath ==
  ASSUME NEW m, NEW a, NEW b, TwoBlocks(m, a, b), NEW t, NEW c, Turn(m, a, t), Corner(m, t, b, c)
  PROVE  RowPath(m, a, b) \/ ColumnPath(m, a, b)
<1>0. /\ a = <<a[1], a[2]>> /\ b = <<b[1], b[2]>> /\ a[1] \in 1 .. COL_NUM /\ b[1] \in 1 .. COL_NUM
      /\ a[2] \in 1 .. ROW_NUM /\ b[2] \in 1 .. ROW_NUM
      /\ a \in Cell /\ b \in Cell /\ m[a] # 0
  BY BlocksAre
<1>a. /\ t \in Cell /\ t = <<t[1], t[2]>> /\ t[1] \in 1 .. COL_NUM /\ t[2] \in 1 .. ROW_NUM
      /\ MapAt(m, t) = 0 /\ m[t] = 0 /\ reach(m, a, t)
  BY CellIs DEF Turn, MapAt, IsCell
<1>b. c \in Cell /\ MapAt(m, c) = 0 /\ m[c] = 0 /\ reach(m, t, c) /\ reach(m, c, b)
  BY <1>0, <1>a, CornersAre DEF Corner, MapAt
<1>c. EmptyPath(m, <<a, t, c, b>>)
  BY <1>a, <1>b, PathOf4 DEF Open, Link
<1>1. CASE t[2] = a[2] /\ c = <<t[1], b[2]>>
  <2>1. t = <<t[1], a[2]>>
    BY <1>1, <1>a
  <2> QED
    BY <1>1, <1>a, <1>c, <2>1 DEF RowPath
<1>2. CASE t[1] = a[1] /\ c = <<b[1], t[2]>>
  <2>1. t = <<a[1], t[2]>>
    BY <1>2, <1>a
  <2> QED
    BY <1>2, <1>a, <1>c, <2>1 DEF ColumnPath
<1>3. CASE t[2] = a[2] /\ c = <<b[1], t[2]>>
  <2>1. c[1] = b[1] /\ c[2] = a[2] /\ c = <<b[1], a[2]>>
    BY <1>3
  <2>2. a[1] # b[1]
    BY <1>0, <1>b, <2>1
  <2>3. reach(m, a, c)
    BY <1>0, <1>3, <1>a, <1>b, <2>1, <2>2, LineVia
  <2>4. EmptyPath(m, <<a, c, b, b>>)
    BY <1>b, <2>3, PathOf4 DEF Open, Link
  <2> QED
    BY <1>0, <2>1, <2>4 DEF RowPath
<1>4. CASE t[1] = a[1] /\ c = <<t[1], b[2]>>
  <2>1. c[1] = a[1] /\ c[2] = b[2] /\ c = <<a[1], b[2]>>
    BY <1>4
  <2>2. a[2] # b[2]
    BY <1>0, <1>b, <2>1
  <2>3. reach(m, a, c)
    BY <1>0, <1>4, <1>a, <1>b, <2>1, <2>2, LineVia
  <2>4. EmptyPath(m, <<a, c, b, b>>)
    BY <1>b, <2>3, PathOf4 DEF Open, Link
  <2>5. <<b[1], b[2]>> = b
    BY <1>0
  <2>6. EmptyPath(m, <<a, <<a[1], b[2]>>, <<b[1], b[2]>>, b>>)
    BY <2>1, <2>4, <2>5
  <2> QED
    BY <1>0, <2>6 DEF ColumnPath
<1> QED
  BY <1>1, <1>2, <1>3, <1>4, <1>a DEF Corner, reach

\* A path over p and q, of which each may be one of its neighbours.
PathPoints(m, a, p, q, b) ==
  /\ p \in Cell /\ q \in Cell
  /\ Open(m, a, b, p) /\ Open(m, a, b, q)
  /\ Link(m, a, p) /\ Link(m, p, q) /\ Link(m, q, b)

LEMMA RowPathJoins ==
  ASSUME NEW m, NEW a, NEW b, TwoBlocks(m, a, b), RowPath(m, a, b)
  PROVE  Joinable(m, a, b)
<1>0. /\ a = <<a[1], a[2]>> /\ b = <<b[1], b[2]>> /\ a # b
      /\ a[2] \in 1 .. ROW_NUM /\ b[2] \in 1 .. ROW_NUM /\ a \in Cell /\ b \in Cell
  BY BlocksAre
<1>1. PICK x \in 1 .. COL_NUM : EmptyPath(m, <<a, <<x, a[2]>>, <<x, b[2]>>, b>>)
  BY DEF RowPath
<1>2. PICK p : p = <<x, a[2]>>
  OBVIOUS
<1>3. PICK q : q = <<x, b[2]>>
  OBVIOUS
<1>4. EmptyPath(m, <<a, p, q, b>>)
  BY <1>1, <1>2, <1>3
<1>5. PathPoints(m, a, p, q, b)
  <2>1. p \in Cell /\ q \in Cell
    BY <1>0, <1>2, <1>3, CellsAre
  <2> QED
    BY <1>4, <2>1, PathOf4 DEF PathPoints
<1>6. p[1] = x /\ p[2] = a[2] /\ q[1] = x /\ q[2] = b[2]
  BY <1>2, <1>3
<1>7. CASE p = a
  <2>1. CASE q = a
    BY <1>0, <1>5, <2>1 DEF PathPoints, Link, Joinable
  <2>2. CASE q = b
    BY <1>0, <1>5, <1>7, <2>2 DEF PathPoints, Link, Joinable
  <2>3. CASE q # a /\ q # b
    <3>1. m[q] = 0 /\ reach(m, a, q) /\ reach(m, q, b)
      BY <1>5, <1>7, <2>3 DEF PathPoints, Link, Open, MapAt
    <3>2. a[1] = x /\ a[1] # b[1] /\ a[2] # b[2]
      BY <1>0, <1>2, <1>3, <1>6, <1>7, <2>3
    <3>3. Corner(m, a, b, q)
      BY <1>3, <3>1, <3>2 DEF Corner
    <3> QED
      BY <3>3 DEF Joinable
  <2> QED
    BY <2>1, <2>2, <2>3
<1>8. CASE p # a /\ p = b
  BY <1>5, <1>8 DEF PathPoints, Link, Joinable
<1>9. CASE p # a /\ p # b
  <2>1. m[p] = 0 /\ reach(m, a, p) /\ x # a[1]
    <3>1. x # a[1]
      BY <1>0, <1>2, <1>9
    <3> QED
      BY <1>5, <1>9, <3>1 DEF PathPoints, Link, Open, MapAt
  <2>2. CASE q = p
    <3>1. a[2] = b[2] /\ a[1] # b[1] /\ reach(m, p, b)
      BY <1>0, <1>5, <1>6, <1>9, <2>2 DEF PathPoints, Link
    <3>2. reach(m, a, b)
      BY <1>0, <1>5, <1>6, <2>1, <3>1, LineVia DEF PathPoints
    <3> QED
      BY <3>2 DEF Joinable
  <2>3. CASE q # p /\ q = b
    <3>1. reach(m, p, b) /\ x = b[1]
      BY <1>5, <1>6, <2>3 DEF PathPoints, Link
    <3>2. a[2] # b[2] /\ a[1] # b[1]
      BY <1>2, <1>3, <2>1, <2>3, <3>1
    <3>3. Corner(m, a, b, p)
      BY <1>2, <2>1, <3>1, <3>2 DEF Corner
    <3> QED
      BY <3>3 DEF Joinable
  <2>4. CASE q # p /\ q # b
    <3>1. q # a
      BY <1>6, <2>1
    <3>2. m[q] = 0 /\ reach(m, p, q) /\ reach(m, q, b)
      BY <1>5, <2>4, <3>1 DEF PathPoints, Link, Open, MapAt
    <3>3. p[1] # b[1] /\ p[2] # b[2] /\ q = <<p[1], b[2]>>
      BY <1>0, <1>2, <1>3, <1>6, <2>4
    <3>4. Corner(m, p, b, q)
      BY <3>2, <3>3 DEF Corner
    <3>5. Turn(m, a, p)
      BY <1>5, <2>1 DEF Turn, PathPoints
    <3> QED
      BY <3>4, <3>5 DEF Joinable
  <2> QED
    BY <2>2, <2>3, <2>4
<1> QED
  BY <1>7, <1>8, <1>9

LEMMA ColumnPathJoins ==
  ASSUME NEW m, NEW a, NEW b, TwoBlocks(m, a, b), ColumnPath(m, a, b)
  PROVE  Joinable(m, a, b)
<1>0. /\ a = <<a[1], a[2]>> /\ b = <<b[1], b[2]>> /\ a # b
      /\ a[1] \in 1 .. COL_NUM /\ b[1] \in 1 .. COL_NUM /\ a \in Cell /\ b \in Cell
  BY BlocksAre
<1>1. PICK y \in 1 .. ROW_NUM : EmptyPath(m, <<a, <<a[1], y>>, <<b[1], y>>, b>>)
  BY DEF ColumnPath
<1>2. PICK p : p = <<a[1], y>>
  OBVIOUS
<1>3. PICK q : q = <<b[1], y>>
  OBVIOUS
<1>4. EmptyPath(m, <<a, p, q, b>>)
  BY <1>1, <1>2, <1>3
<1>5. PathPoints(m, a, p, q, b)
  <2>1. p \in Cell /\ q \in Cell
    BY <1>0, <1>2, <1>3, CellsAre
  <2> QED
    BY <1>4, <2>1, PathOf4 DEF PathPoints
<1>6. p[1] = a[1] /\ p[2] = y /\ q[1] = b[1] /\ q[2] = y
  BY <1>2, <1>3
<1>7. CASE p = a
  <2>1. CASE q = a
    BY <1>0, <1>5, <2>1 DEF PathPoints, Link, Joinable
  <2>2. CASE q = b
    BY <1>0, <1>5, <1>7, <2>2 DEF PathPoints, Link, Joinable
  <2>3. CASE q # a /\ q # b
    <3>1. m[q] = 0 /\ reach(m, a, q) /\ reach(m, q, b)
      BY <1>5, <1>7, <2>3 DEF PathPoints, Link, Open, MapAt
    <3>2. a[2] = y /\ a[1] # b[1] /\ a[2] # b[2]
      BY <1>0, <1>2, <1>3, <1>6, <1>7, <2>3
    <3>3. Corner(m, a, b, q)
      BY <1>3, <3>1, <3>2 DEF Corner
    <3> QED
      BY <3>3 DEF Joinable
  <2> QED
    BY <2>1, <2>2, <2>3
<1>8. CASE p # a /\ p = b
  BY <1>5, <1>8 DEF PathPoints, Link, Joinable
<1>9. CASE p # a /\ p # b
  <2>1. m[p] = 0 /\ reach(m, a, p) /\ y # a[2]
    <3>1. y # a[2]
      BY <1>0, <1>2, <1>9
    <3> QED
      BY <1>5, <1>9, <3>1 DEF PathPoints, Link, Open, MapAt
  <2>2. CASE q = p
    <3>1. a[1] = b[1] /\ a[2] # b[2] /\ reach(m, p, b)
      BY <1>0, <1>5, <1>6, <1>9, <2>2 DEF PathPoints, Link
    <3>2. reach(m, a, b)
      BY <1>0, <1>5, <1>6, <2>1, <3>1, LineVia DEF PathPoints
    <3> QED
      BY <3>2 DEF Joinable
  <2>3. CASE q # p /\ q = b
    <3>1. reach(m, p, b) /\ y = b[2]
      BY <1>5, <1>6, <2>3 DEF PathPoints, Link
    <3>2. a[2] # b[2] /\ a[1] # b[1]
      BY <1>2, <1>3, <2>1, <2>3, <3>1
    <3>3. Corner(m, a, b, p)
      BY <1>2, <2>1, <3>1, <3>2 DEF Corner
    <3> QED
      BY <3>3 DEF Joinable
  <2>4. CASE q # p /\ q # b
    <3>1. q # a
      BY <1>6, <2>1
    <3>2. m[q] = 0 /\ reach(m, p, q) /\ reach(m, q, b)
      BY <1>5, <2>4, <3>1 DEF PathPoints, Link, Open, MapAt
    <3>3. p[1] # b[1] /\ p[2] # b[2] /\ q = <<b[1], p[2]>>
      BY <1>0, <1>2, <1>3, <1>6, <2>4
    <3>4. Corner(m, p, b, q)
      BY <3>2, <3>3 DEF Corner
    <3>5. Turn(m, a, p)
      BY <1>5, <2>1 DEF Turn, PathPoints
    <3> QED
      BY <3>4, <3>5 DEF Joinable
  <2> QED
    BY <2>2, <2>3, <2>4
<1> QED
  BY <1>7, <1>8, <1>9

LEMMA JoinableIs ==
  ASSUME NEW m, NEW a, NEW b, TwoBlocks(m, a, b)
  PROVE  Joinable(m, a, b) <=> RowPath(m, a, b) \/ ColumnPath(m, a, b)
BY StraightHasPath, CornerHasPath, TurnHasPath, RowPathJoins, ColumnPathJoins DEF Joinable

\* What lian_check answers for two blocks of one type.
IsWay(m, a, b, w) ==
  \/ w = << >> /\ ~ Joinable(m, a, b)
  \/ /\ w # << >> /\ Joinable(m, a, b)
     /\ Len(w) <= 4 /\ w[1] = a /\ w[Len(w)] = b /\ EmptyPath(m, w)

LEMMA WrapOf1 ==
  ASSUME NEW a, NEW c, NEW b
  PROVE  Between(a, <<c>>, b) = <<a, c, b>>
<1>1. PICK s : s = <<a>> \o <<c>>
  OBVIOUS
<1>2. s = <<a, c>>
  BY <1>1, PairIs
<1>3. Between(a, <<c>>, b) = <<a, c>> \o <<b>>
  BY <1>1, <1>2 DEF Between
<1>4. <<a, c>> \o <<b>> = <<a, c, b>>
  <2>1. PICK u : u = <<a, c>> \o <<b>>
    OBVIOUS
  <2>2. PICK t : t = <<a, c, b>>
    OBVIOUS
  <2>3. <<a, c>> \in Seq({a, b, c}) /\ <<b>> \in Seq({a, b, c}) /\ t \in Seq({a, b, c})
    BY <2>2
  <2>4. Len(t) = 3 /\ t[1] = a /\ t[2] = c /\ t[3] = b
    BY <2>2
  <2>5. Len(<<a, c>>) = 2 /\ Len(<<b>>) = 1 /\ <<a, c>>[1] = a /\ <<a, c>>[2] = c /\ <<b>>[1] = b
    OBVIOUS
  <2>6. /\ u \in Seq({a, b, c}) /\ Len(u) = 3 /\ u[1] = a /\ u[2] = c /\ u[3] = b
    BY <2>1, <2>3, <2>5, ConcatProperties
  <2>7. \A i \in 1 .. Len(u) : u[i] = t[i]
    BY <2>4, <2>6
  <2>8. u = t
    BY <2>3, <2>4, <2>6, <2>7, SeqEqual
  <2> QED
    BY <2>1, <2>2, <2>8
<1> QED
  BY <1>3, <1>4

LEMMA WrapOf2 ==
  ASSUME NEW a, NEW t, NEW c, NEW b
  PROVE  Between(a, <<t, c>>, b) = <<a, t, c, b>>
<1>1. PICK v : v = <<a>> \o <<t, c>>
  OBVIOUS
<1>2. PICK u : u = v \o <<b>>
  OBVIOUS
<1>3. PICK s : s = <<a, t, c, b>>
  OBVIOUS
<1> DEFINE S == {a, b, c, t}
<1>4. <<a>> \in Seq(S) /\ <<t, c>> \in Seq(S) /\ <<b>> \in Seq(S) /\ s \in Seq(S)
  BY <1>3
<1>5. Len(s) = 4 /\ s[1] = a /\ s[2] = t /\ s[3] = c /\ s[4] = b
  BY <1>3
<1>6. /\ Len(<<a>>) = 1 /\ Len(<<t, c>>) = 2 /\ Len(<<b>>) = 1
      /\ <<a>>[1] = a /\ <<t, c>>[1] = t /\ <<t, c>>[2] = c /\ <<b>>[1] = b
  OBVIOUS
<1> HIDE DEF S
<1>7. v \in Seq(S) /\ Len(v) = 3 /\ v[1] = a /\ v[2] = t /\ v[3] = c
  BY <1>1, <1>4, <1>6, ConcatProperties
<1>8. u \in Seq(S) /\ Len(u) = 4 /\ u[1] = a /\ u[2] = t /\ u[3] = c /\ u[4] = b
  <2>1. PICK r : r = <<b>>
    OBVIOUS
  <2>2. r \in Seq(S) /\ Len(r) = 1 /\ r[1] = b
    BY <1>4, <1>6, <2>1
  <2>3. /\ u \in Seq(S) /\ Len(u) = Len(v) + Len(r)
        /\ \A i \in 1 .. Len(v) + Len(r) : u[i] = IF i <= Len(v) THEN v[i] ELSE r[i - Len(v)]
    BY <1>2, <1>7, <2>1, <2>2, ConcatProperties
  <2>4. 1 \in 1 .. 3 + 1 /\ 2 \in 1 .. 3 + 1 /\ 3 \in 1 .. 3 + 1 /\ 4 \in 1 .. 3 + 1 /\ 4 - 3 = 1
    OBVIOUS
  <2> QED
    BY <1>7, <2>2, <2>3, <2>4
<1>9. \A i \in 1 .. Len(u) : u[i] = s[i]
  BY <1>5, <1>8
<1>a. u = s
  BY <1>4, <1>5, <1>8, <1>9, SeqEqual
<1>b. <<t, c>> # << >>
  OBVIOUS
<1>c. Between(a, <<t, c>>, b) = u
  BY <1>1, <1>2, <1>b DEF Between
<1> QED
  BY <1>3, <1>a, <1>c

LEMMA CheckIsWay ==
  ASSUME NEW m, NEW a, NEW b, TwoBlocks(m, a, b), m[a] = m[b]
  PROVE  IsWay(m, a, b, lian_check(m, a, b))
<1>0. m \in Boards /\ a \in Cell /\ b \in Cell /\ m[a] # 0 /\ a # b
  BY BlocksAre
<1> DEFINE w1 == lr_reach(m, a, b)
           w2 == lr_lr_reach(m, a, b)
<1>1. lian_check(m, a, b) =
        IF reach(m, a, b) THEN <<a, b>> ELSE Between(a, OrElse(w1, w2), b)
  BY <1>0, Zenon DEF lian_check
<1>2. IsCornerWay(m, a, b, w1)
  BY <1>0, CornerWay
<1>3. IsTurnWay(m, a, b, w2)
  BY <1>0, TurnWay
<1>4. CASE reach(m, a, b)
  <2>1. EmptyPath(m, <<a, b>>)
    BY <1>4, PathOf2
  <2>2. /\ <<a, b>> # << >> /\ Len(<<a, b>>) = 2 /\ <<a, b>>[1] = a /\ <<a, b>>[2] = b /\ 2 <= 4
    OBVIOUS
  <2>3. Joinable(m, a, b)
    BY <1>4 DEF Joinable
  <2> QED
    BY <1>1, <1>4, <2>1, <2>2, <2>3 DEF IsWay
<1>5. CASE ~ reach(m, a, b) /\ w1 # << >>
  <2>1. PICK c \in Cell : w1 = <<c>> /\ Corner(m, a, b, c)
    BY <1>2, <1>5 DEF IsCornerWay
  <2>2. lian_check(m, a, b) = <<a, c, b>>
    BY <1>1, <1>5, <2>1, WrapOf1 DEF OrElse
  <2>3. EmptyPath(m, <<a, c, b>>)
    BY <2>1, PathOf3 DEF Corner, MapAt
  <2>4. Joinable(m, a, b)
    BY <2>1 DEF Joinable
  <2>5. /\ <<a, c, b>> # << >> /\ Len(<<a, c, b>>) = 3 /\ <<a, c, b>>[1] = a
        /\ <<a, c, b>>[3] = b /\ 3 <= 4
    OBVIOUS
  <2> QED
    BY <2>2, <2>3, <2>4, <2>5 DEF IsWay
<1>6. CASE ~ reach(m, a, b) /\ w1 = << >>
  <2>1. \A c : ~ Corner(m, a, b, c)
    BY <1>2, <1>6 DEF IsCornerWay
  <2>2. lian_check(m, a, b) = Between(a, w2, b)
    BY <1>1, <1>6 DEF OrElse
  <2>3. CASE w2 = << >>
    <3>1. \A t, c : Turn(m, a, t) => ~ Corner(m, t, b, c)
      BY <1>3, <2>3 DEF IsTurnWay
    <3>2. lian_check(m, a, b) = << >>
      BY <2>2, <2>3 DEF Between
    <3> QED
      BY <1>6, <2>1, <3>1, <3>2 DEF IsWay, Joinable
  <2>4. CASE w2 # << >>
    <3>1. PICK t \in Cell, c \in Cell : w2 = <<t, c>> /\ Turn(m, a, t) /\ Corner(m, t, b, c)
      BY <1>3, <2>4 DEF IsTurnWay
    <3>2. lian_check(m, a, b) = <<a, t, c, b>>
      BY <2>2, <3>1, WrapOf2
    <3>3. EmptyPath(m, <<a, t, c, b>>)
      BY <3>1, PathOf4 DEF Turn, Corner, Open, Link, MapAt
    <3>4. Joinable(m, a, b)
      BY <3>1 DEF Joinable
    <3>5. /\ <<a, t, c, b>> # << >> /\ Len(<<a, t, c, b>>) = 4 /\ <<a, t, c, b>>[1] = a
          /\ <<a, t, c, b>>[4] = b /\ 4 <= 4
      OBVIOUS
    <3> QED
      BY <3>2, <3>3, <3>4, <3>5 DEF IsWay
  <2> QED
    BY <2>3, <2>4
<1> QED
  BY <1>4, <1>5, <1>6

LEMMA CheckIsRight ==
  ASSUME NEW m \in Boards, NEW a \in Blocks(m), NEW b \in Blocks(m)
  PROVE  RightWay(m, a, b, lian_check(m, a, b))
<1>1. CASE a # b /\ m[a] = m[b]
  <2>1. TwoBlocks(m, a, b)
    BY <1>1 DEF TwoBlocks
  <2>2. IsWay(m, a, b, lian_check(m, a, b))
    BY <1>1, <2>1, CheckIsWay
  <2>3. Joinable(m, a, b) <=>
          \/ \E x \in 1 .. COL_NUM : EmptyPath(m, <<a, <<x, a[2]>>, <<x, b[2]>>, b>>)
          \/ \E y \in 1 .. ROW_NUM : EmptyPath(m, <<a, <<a[1], y>>, <<b[1], y>>, b>>)
    BY <2>1, JoinableIs DEF RowPath, ColumnPath
  <2> QED
    BY <1>1, <2>2, <2>3, Zenon DEF RightWay, IsWay
<1>2. CASE ~ (a # b /\ m[a] = m[b])
  <2>1. lian_check(m, a, b) = << >>
    BY <1>2 DEF lian_check
  <2> QED
    BY <1>2, <2>1 DEF RightWay
<1> QED
  BY <1>1, <1>2

\* lian_check finds a way exactly when two blocks of one type are joined by three
\* lines over empty cells, and _G_way is such a way of at most 4 points.
THEOREM PathsAreRightHolds == lianSpec => []PathsAreRight
<1>1. BoardInv => PathsAreRight
  <2> SUFFICES ASSUME BoardInv, left > 0, marked[1] # 0
               PROVE  RightWay(board, marked, cur, lian_check(board, marked, cur))
    BY DEF PathsAreRight
  <2>1. board \in Boards /\ marked \in Blocks(board) /\ cur \in Blocks(board)
    BY DEF BoardInv, BoardOK, GoodBoard, OnBlocks, OnBlock
  <2> QED
    BY <2>1, CheckIsRight
<1> QED
  BY <1>1, BoardStarts, BoardStep, PTL DEF lianSpec

-----------------------------------------------------------------------------
(* Lian: the help.                                                         *)

\* The boards that can be cleared: the least set with the empty boards that contains
\* a board when it contains what a pair leaves of it.
AnyBoard == [Cell -> Int]
EmptyBoard(m) == \A c \in Cell : m[c] = 0
SomePair(m, X) == \E p \in PairSet(m) : Clear2(m, p[1], p[2]) \in X
ClosedSet(X) == \A m \in AnyBoard : EmptyBoard(m) \/ SomePair(m, X) => m \in X
Clearable == {m \in AnyBoard : \A X \in SUBSET AnyBoard : ClosedSet(X) => m \in X}

LEMMA MorePairs ==
  ASSUME NEW X, NEW Y, X \subseteq Y, NEW m, SomePair(m, X)
  PROVE  SomePair(m, Y)
BY DEF SomePair

LEMMA ClearableIs ==
  ASSUME NEW m \in AnyBoard
  PROVE  m \in Clearable <=> EmptyBoard(m) \/ SomePair(m, Clearable)
<1> DEFINE next == {n \in AnyBoard : EmptyBoard(n) \/ SomePair(n, Clearable)}
<1>1. ASSUME NEW n \in next PROVE n \in Clearable
  <2> SUFFICES ASSUME NEW X \in SUBSET AnyBoard, ClosedSet(X) PROVE n \in X
    BY DEF Clearable
  <2>1. Clearable \subseteq X
    BY DEF Clearable
  <2>2. EmptyBoard(n) \/ SomePair(n, X)
    BY <2>1, MorePairs
  <2> QED
    BY <2>2 DEF ClosedSet
<1>2. ClosedSet(next)
  <2> SUFFICES ASSUME NEW n \in AnyBoard, EmptyBoard(n) \/ SomePair(n, next)
               PROVE  n \in next
    BY DEF ClosedSet
  <2>1. next \subseteq Clearable
    BY <1>1
  <2>2. EmptyBoard(n) \/ SomePair(n, Clearable)
    <3> HIDE DEF next
    <3> QED
      BY <2>1, MorePairs
  <2> QED
    BY <2>2
<1>3. next \in SUBSET AnyBoard
  OBVIOUS
<1>4. ASSUME m \in Clearable PROVE m \in next
  <2> HIDE DEF next
  <2> QED
    BY <1>2, <1>3, <1>4 DEF Clearable
<1> QED
  BY <1>1, <1>4

LEMMA ClearInBoards ==
  ASSUME NEW m \in AnyBoard, NEW p \in PairSet(m)
  PROVE  Clear2(m, p[1], p[2]) \in AnyBoard
<1>1. p[1] \in Cell /\ p[2] \in Cell
  BY DEF PairSet
<1>2. PICK a \in Cell : a = p[1]
  BY <1>1
<1>3. PICK b \in Cell : b = p[2]
  BY <1>1
<1>4. [m EXCEPT ![a] = 0, ![b] = 0] \in AnyBoard
  BY DEF AnyBoard
<1> QED
  BY <1>2, <1>3, <1>4 DEF Clear2

\* lian_left_0 is what its definition says it is.
LEMMA LeftIs ==
  lian_left_0 = [m \in AnyBoard |->
                   \/ \A c \in Cell : m[c] = 0
                   \/ \E p \in PairSet(m) : lian_left_0[Clear2(m, p[1], p[2])]]
<1> DEFINE f == [m \in AnyBoard |-> m \in Clearable]
<1>1. ASSUME NEW m \in AnyBoard
      PROVE  m \in Clearable <=> \/ \A c \in Cell : m[c] = 0
                                 \/ \E p \in PairSet(m) : f[Clear2(m, p[1], p[2])]
  <2>1. \A p \in PairSet(m) :
          f[Clear2(m, p[1], p[2])] = (Clear2(m, p[1], p[2]) \in Clearable)
    BY ClearInBoards
  <2> HIDE DEF f
  <2> QED
    BY <2>1, ClearableIs, Zenon DEF EmptyBoard, SomePair
<1>2. \E g : g = [m \in AnyBoard |->
                   \/ \A c \in Cell : m[c] = 0
                   \/ \E p \in PairSet(m) : g[Clear2(m, p[1], p[2])]]
  <2>1. PICK g : g = f
    OBVIOUS
  <2>2. \A m \in AnyBoard : m \in Clearable
                              <=> \/ \A c \in Cell : m[c] = 0
                                  \/ \E p \in PairSet(m) : g[Clear2(m, p[1], p[2])]
    <3> HIDE DEF f
    <3> QED
      BY <1>1, <2>1
  <2> DEFINE some(m) == \E p \in PairSet(m) : g[Clear2(m, p[1], p[2])]
             phi(m) == EmptyBoard(m) \/ some(m)
  <2>a. ASSUME NEW m \in AnyBoard PROVE (m \in Clearable) = phi(m)
    <3>1. m \in Clearable <=> phi(m)
      BY <2>2, Zenon DEF EmptyBoard
    <3>2. CASE m \in Clearable
      <4>1. (m \in Clearable) = TRUE
        BY <3>2
      <4>2. phi(m) = TRUE
        BY <3>1, <3>2
      <4> QED
        BY <4>1, <4>2
    <3>3. CASE m \notin Clearable
      <4>1. (m \in Clearable) = FALSE
        BY <3>3
      <4>2. phi(m) = FALSE
        BY <3>1, <3>3
      <4> QED
        BY <4>1, <4>2
    <3> QED
      BY <3>2, <3>3
  <2>3. [m \in AnyBoard |-> m \in Clearable] = [m \in AnyBoard |-> phi(m)]
    <3> HIDE DEF phi
    <3> QED
      BY <2>a
  <2>4. g = [m \in AnyBoard |-> \/ \A c \in Cell : m[c] = 0
                                \/ \E p \in PairSet(m) : g[Clear2(m, p[1], p[2])]]
    BY <2>1, <2>3, Zenon DEF EmptyBoard
  <2> QED
    BY <2>4, Zenon
<1> QED
  BY <1>2, Zenon DEF lian_left_0, AnyBoard

LEMMA LeftMeans ==
  ASSUME NEW m \in AnyBoard, lian_left_0[m], PairSet(m) # {}
  PROVE  \E p \in PairSet(m) : lian_left_0[Clear2(m, p[1], p[2])]
<1>1. PICK g : g = lian_left_0
  OBVIOUS
<1>2. g = [n \in AnyBoard |-> \/ \A c \in Cell : n[c] = 0
                              \/ \E p \in PairSet(n) : g[Clear2(n, p[1], p[2])]]
  BY <1>1, LeftIs
<1>3. (\A c \in Cell : m[c] = 0) \/ \E p \in PairSet(m) : g[Clear2(m, p[1], p[2])]
  BY <1>1, <1>2
<1>4. \E c \in Cell : m[c] # 0
  BY DEF PairSet
<1> QED
  BY <1>1, <1>3, <1>4

\* On a board that can be cleared the help is a pair that leaves one that can be, too.
LEMMA HelpIsGood ==
  ASSUME NEW m \in AnyBoard, lian_left_0[m], PairSet(m) # {}
  PROVE  lian_left_0[Clear2(m, help_op(m)[1], help_op(m)[2])]
<1> DEFINE good == {p \in PairSet(m) : lian_left_0[Clear2(m, p[1], p[2])]}
<1>1. good # {}
  BY LeftMeans
<1>2. good \in SUBSET (Cell \X Cell)
  BY DEF PairSet
<1>3. help_op(m) = FirstPair(good)
  BY <1>1, Zenon DEF help_op
<1>4. FirstPair(good) \in good
  <2> HIDE DEF good
  <2> QED
    BY <1>1, <1>2, PairsHaveEnds
<1>5. help_op(m) \in good
  <2> HIDE DEF good
  <2> QED
    BY <1>3, <1>4
<1> QED
  BY <1>5

\* The pair that the help takes away leaves a board that can be cleared, when the
\* board could be.
THEOREM HelpKeepsHolds == lianSpec => HelpKeepsClearable
<1> DEFINE HelpKeeps == (board' # board /\ level' = level /\ bridge_help /\ lian_left_0[board])
                      => lian_left_0[board']
<1>1. BoardInv /\ [lianNext]_lianVars => [HelpKeeps]_lianVars
  <2> SUFFICES ASSUME BoardInv, board' # board, level' = level, bridge_help, lian_left_0[board]
               PROVE  lian_left_0[board']
    OBVIOUS
  <2>1. PairSet(board) # {} /\ MarkBoth(help_op(board))
    BY DEF bridge_help
  <2>2. PICK p : p = help_op(board)
    OBVIOUS
  <2>3. Mark(p[1], p[2])
    BY <2>1, <2>2 DEF MarkBoth
  <2>4. Joined(p[1], p[2])
    BY <2>3 DEF Mark
  <2>5. level \in Int
    BY DEF BoardInv, TimerInv, TimerTypes
  <2>6. board' = Clear2(board, p[1], p[2])
    BY <2>4, <2>5 DEF Joined
  <2>7. board \in AnyBoard
    BY DEF BoardInv, BoardOK, GoodBoard, Boards, AnyBoard
  <2>8. lian_left_0[Clear2(board, p[1], p[2])]
    BY <2>1, <2>2, <2>7, HelpIsGood
  <2> QED
    BY <2>6, <2>8
<1> QED
  BY <1>1, BoardStarts, BoardStep, PTL DEF lianSpec, HelpKeepsClearable

-----------------------------------------------------------------------------
(* Five in a row: the lines, and what they have in common.                 *)

Board == Rows \X Cols
Men == {WHITE, BLACK}

\* Five different positions of the board.
FiveOf(S) == S \in SUBSET Board /\ IsFiniteSet(S) /\ Cardinality(S) = 5
Fives == {S \in SUBSET Board : FiveOf(S)}

LEMMA SizesAre ==
  /\ WUZI_ROW_NUM \in Nat /\ WUZI_ROW_NUM >= 5 /\ WUZI_COL_NUM \in Nat /\ WUZI_COL_NUM >= 5
BY WuziAssumption

LEMMA FiveIsFive ==
  ASSUME NEW r \in Int, NEW c \in Int, NEW dr \in {0, 1}, NEW dc \in {-1, 0, 1},
         dr # 0 \/ dc # 0,
         r \in Rows, r + 4 * dr \in Rows, c \in Cols, c + 4 * dc \in Cols
  PROVE  Five(r, c, dr, dc) \in Fives
<1> DEFINE f == [i \in 0 .. 4 |-> <<r + i * dr, c + i * dc>>]
           S == Five(r, c, dr, dc)
<1>1. S \in SUBSET Board
  <2>1. ASSUME NEW i \in 0 .. 4 PROVE r + i * dr \in Rows /\ c + i * dc \in Cols
    <3>1. r + i * dr \in Rows
      BY SizesAre DEF Rows
    <3>2. c + i * dc \in Cols
      BY SizesAre DEF Cols
    <3> QED
      BY <3>1, <3>2
  <2> QED
    BY <2>1 DEF Five, Board
<1>2. S = ((({f[0]} \cup {f[1]}) \cup {f[2]}) \cup {f[3]}) \cup {f[4]}
  BY DEF Five
<1>3. \A i, j \in 0 .. 4 : f[i] = f[j] => i = j
  <2> SUFFICES ASSUME NEW i \in 0 .. 4, NEW j \in 0 .. 4, f[i] = f[j] PROVE i = j
    OBVIOUS
  <2>1. r + i * dr = r + j * dr /\ c + i * dc = c + j * dc
    OBVIOUS
  <2> QED
    BY <2>1
<1> DEFINE S1 == {f[0]}
           S2 == S1 \cup {f[1]}
           S3 == S2 \cup {f[2]}
           S4 == S3 \cup {f[3]}
<1>4. S = S4 \cup {f[4]}
  BY <1>2
<1> HIDE DEF S, f
<1>5. f[1] \notin S1 /\ f[2] \notin S2 /\ f[3] \notin S3 /\ f[4] \notin S4
  BY <1>3
<1>6. IsFiniteSet(S1) /\ Cardinality(S1) = 1
  BY FS_Singleton
<1>7. IsFiniteSet(S2) /\ Cardinality(S2) = 2
  <2> HIDE DEF S1
  <2>1. /\ IsFiniteSet(S1 \cup {f[1]})
        /\ Cardinality(S1 \cup {f[1]}) = IF f[1] \in S1 THEN Cardinality(S1)
                                        ELSE Cardinality(S1) + 1
    BY <1>6, FS_AddElement, Zenon
  <2> QED
    BY <1>5, <1>6, <2>1
<1>8. IsFiniteSet(S3) /\ Cardinality(S3) = 3
  <2> HIDE DEF S2
  <2>1. /\ IsFiniteSet(S2 \cup {f[2]})
        /\ Cardinality(S2 \cup {f[2]}) = IF f[2] \in S2 THEN Cardinality(S2)
                                        ELSE Cardinality(S2) + 1
    BY <1>7, FS_AddElement, Zenon
  <2> QED
    BY <1>5, <1>7, <2>1
<1>9. IsFiniteSet(S4) /\ Cardinality(S4) = 4
  <2> HIDE DEF S3
  <2>1. /\ IsFiniteSet(S3 \cup {f[3]})
        /\ Cardinality(S3 \cup {f[3]}) = IF f[3] \in S3 THEN Cardinality(S3)
                                        ELSE Cardinality(S3) + 1
    BY <1>8, FS_AddElement, Zenon
  <2> QED
    BY <1>5, <1>8, <2>1
<1>10. IsFiniteSet(S) /\ Cardinality(S) = 5
  <2> HIDE DEF S4
  <2> QED
    BY <1>4, <1>5, <1>9, FS_AddElement
<1> QED
  BY <1>1, <1>10 DEF Fives, FiveOf, S

\* A position in two nested loops.
LEMMA LoopOut ==
  ASSUME NEW n \in Nat, n > 0, NEW m \in Nat, NEW j \in 0 .. m * n - 1
  PROVE  j \div n \in 0 .. m - 1
OBVIOUS

LEMMA LoopIn ==
  ASSUME NEW n \in Nat, n > 0, NEW m \in Nat, NEW k \in 1 .. m * n
  PROVE  (k - 1) \div n + 1 \in 1 .. m /\ ((k - 1) % n) + 1 \in 1 .. n
<1> DEFINE j == k - 1
<1>1. m * n \in Nat
  OBVIOUS
<1>2. j \in 0 .. m * n - 1 /\ j \in Nat
  BY <1>1
<1> HIDE DEF j
<1>3. j \div n \in 0 .. m - 1
  BY <1>2, LoopOut
<1>4. j % n \in 0 .. n - 1
  BY <1>2
<1> QED
  BY <1>3, <1>4 DEF j

LEMMA UptoIs ==
  ASSUME NEW n \in Nat
  PROVE  /\ Upto(n) \in Seq(Nat) /\ Len(Upto(n)) = n
         /\ \A i \in 1 .. n : Upto(n)[i] = i - 1 /\ i - 1 \in 0 .. n - 1
<1>1. \A i \in 1 .. n : i - 1 \in Nat
  OBVIOUS
<1> QED
  BY <1>1 DEF Upto

\* The four loops of wuzi_start only make lines of five positions on the board.
LEMMA LinesAreFives ==
  win_cases \in Seq(Fives) /\ \A i \in Case : win_cases[i] \in Fives
<1> DEFINE R == Upto(WUZI_ROW_NUM)
           C == Upto(WUZI_COL_NUM)
           r == Upto(WUZI_ROW_NUM - 4)
           c == Upto(WUZI_COL_NUM - 4)
           b == Reverse(c)
           w1 == Each(R, c, LAMBDA i, j : Five(i, j, 0, 1))
           w2 == Each(C, r, LAMBDA j, i : Five(i, j, 1, 0))
           w3 == Each(r, c, LAMBDA i, j : Five(i, j, 1, 1))
           w4 == Each(r, b, LAMBDA i, j : Five(i, j + 4, 1, -1))
           RN == WUZI_ROW_NUM
           CN == WUZI_COL_NUM
<1>1. /\ RN \in Nat /\ RN >= 5 /\ CN \in Nat /\ CN >= 5
      /\ RN - 4 \in Nat /\ RN - 4 > 0 /\ CN - 4 \in Nat /\ CN - 4 > 0
  BY SizesAre
<1>2. /\ Len(R) = RN /\ \A i \in 1 .. RN : R[i] = i - 1
      /\ Len(C) = CN /\ \A i \in 1 .. CN : C[i] = i - 1
      /\ Len(r) = RN - 4 /\ \A i \in 1 .. RN - 4 : r[i] = i - 1
      /\ Len(c) = CN - 4 /\ \A i \in 1 .. CN - 4 : c[i] = i - 1
      /\ c \in Seq(Nat)
  BY <1>1, UptoIs
<1>3. Len(b) = CN - 4 /\ \A i \in 1 .. CN - 4 : b[i] = CN - 4 - i
  <2> HIDE DEF c
  <2>1. b = [i \in 1 .. CN - 4 |-> c[CN - 4 - i + 1]]
    BY <1>2 DEF Reverse
  <2>2. \A i \in 1 .. CN - 4 : CN - 4 - i + 1 \in 1 .. CN - 4
    BY <1>1
  <2>3. ASSUME NEW i \in 1 .. CN - 4 PROVE c[CN - 4 - i + 1] = CN - 4 - i
    <3>1. c[CN - 4 - i + 1] = CN - 4 - i + 1 - 1
      BY <1>2, <2>2
    <3> QED
      BY <1>1, <3>1
  <2> HIDE DEF b
  <2> QED
    BY <1>1, <2>1, <2>3
<1> HIDE DEF R, C, r, c, b
<1>4. w1 \in Seq(Fives)
  <2>1. w1 = [k \in 1 .. RN * (CN - 4) |->
                Five(R[(k - 1) \div (CN - 4) + 1], c[((k - 1) % (CN - 4)) + 1], 0, 1)]
    BY <1>2 DEF Each
  <2>2. ASSUME NEW i \in 1 .. RN, NEW j \in 1 .. CN - 4 PROVE Five(R[i], c[j], 0, 1) \in Fives
    <3>1. R[i] = i - 1 /\ c[j] = j - 1
      BY <1>2
    <3>2. i - 1 + 4 * 0 \in Rows /\ i - 1 \in Rows /\ j - 1 \in Cols /\ j - 1 + 4 * 1 \in Cols
      BY <1>1 DEF Rows, Cols
    <3>3. Five(i - 1, j - 1, 0, 1) \in Fives
      BY <3>2, FiveIsFive
    <3> QED
      BY <3>1, <3>3
  <2>3. ASSUME NEW k \in 1 .. RN * (CN - 4)
        PROVE  Five(R[(k - 1) \div (CN - 4) + 1], c[((k - 1) % (CN - 4)) + 1], 0, 1) \in Fives
    BY <1>1, <2>2, LoopIn
  <2>4. RN * (CN - 4) \in Nat
    BY <1>1
  <2> HIDE DEF w1
  <2> QED
    BY <2>1, <2>3, <2>4
<1>5. w2 \in Seq(Fives)
  <2>1. w2 = [k \in 1 .. CN * (RN - 4) |->
                Five(r[((k - 1) % (RN - 4)) + 1], C[(k - 1) \div (RN - 4) + 1], 1, 0)]
    BY <1>2 DEF Each
  <2>2. ASSUME NEW i \in 1 .. RN - 4, NEW j \in 1 .. CN PROVE Five(r[i], C[j], 1, 0) \in Fives
    <3>1. r[i] = i - 1 /\ C[j] = j - 1
      BY <1>2
    <3>2. i - 1 + 4 * 1 \in Rows /\ i - 1 \in Rows /\ j - 1 \in Cols /\ j - 1 + 4 * 0 \in Cols
      BY <1>1 DEF Rows, Cols
    <3>3. Five(i - 1, j - 1, 1, 0) \in Fives
      BY <3>2, FiveIsFive
    <3> QED
      BY <3>1, <3>3
  <2>3. ASSUME NEW k \in 1 .. CN * (RN - 4)
        PROVE  Five(r[((k - 1) % (RN - 4)) + 1], C[(k - 1) \div (RN - 4) + 1], 1, 0) \in Fives
    BY <1>1, <2>2, LoopIn
  <2>4. CN * (RN - 4) \in Nat
    BY <1>1
  <2> HIDE DEF w2
  <2> QED
    BY <2>1, <2>3, <2>4
<1>6. w3 \in Seq(Fives)
  <2>1. w3 = [k \in 1 .. (RN - 4) * (CN - 4) |->
                Five(r[(k - 1) \div (CN - 4) + 1], c[((k - 1) % (CN - 4)) + 1], 1, 1)]
    BY <1>2 DEF Each
  <2>2. ASSUME NEW i \in 1 .. RN - 4, NEW j \in 1 .. CN - 4 PROVE Five(r[i], c[j], 1, 1) \in Fives
    <3>1. r[i] = i - 1 /\ c[j] = j - 1
      BY <1>2
    <3>2. i - 1 + 4 * 1 \in Rows /\ i - 1 \in Rows /\ j - 1 \in Cols /\ j - 1 + 4 * 1 \in Cols
      BY <1>1 DEF Rows, Cols
    <3>3. Five(i - 1, j - 1, 1, 1) \in Fives
      BY <3>2, FiveIsFive
    <3> QED
      BY <3>1, <3>3
  <2>3. ASSUME NEW k \in 1 .. (RN - 4) * (CN - 4)
        PROVE  Five(r[(k - 1) \div (CN - 4) + 1], c[((k - 1) % (CN - 4)) + 1], 1, 1) \in Fives
    BY <1>1, <2>2, LoopIn
  <2>4. (RN - 4) * (CN - 4) \in Nat
    BY <1>1
  <2> HIDE DEF w3
  <2> QED
    BY <2>1, <2>3, <2>4
<1>7. w4 \in Seq(Fives)
  <2>1. w4 = [k \in 1 .. (RN - 4) * (CN - 4) |->
                Five(r[(k - 1) \div (CN - 4) + 1], b[((k - 1) % (CN - 4)) + 1] + 4, 1, -1)]
    BY <1>2, <1>3 DEF Each
  <2>2. ASSUME NEW i \in 1 .. RN - 4, NEW j \in 1 .. CN - 4
        PROVE  Five(r[i], b[j] + 4, 1, -1) \in Fives
    <3>1. r[i] = i - 1 /\ b[j] = CN - 4 - j
      BY <1>2, <1>3
    <3>a. CN - 4 - j + 4 = CN - j
      BY <1>1
    <3>2. i - 1 + 4 * 1 \in Rows /\ i - 1 \in Rows /\ CN - j \in Cols /\ CN - j + 4 * (-1) \in Cols
      BY <1>1 DEF Rows, Cols
    <3>3. Five(i - 1, CN - j, 1, -1) \in Fives
      BY <1>1, <3>2, FiveIsFive
    <3> QED
      BY <3>1, <3>3, <3>a
  <2>3. ASSUME NEW k \in 1 .. (RN - 4) * (CN - 4)
        PROVE  Five(r[(k - 1) \div (CN - 4) + 1], b[((k - 1) % (CN - 4)) + 1] + 4, 1, -1) \in Fives
    BY <1>1, <2>2, LoopIn
  <2>4. (RN - 4) * (CN - 4) \in Nat
    BY <1>1
  <2> HIDE DEF w4
  <2> QED
    BY <2>1, <2>3, <2>4
<1>8. win_cases = w1 \o w2 \o w3 \o w4
  BY DEF win_cases, R, C, r, c, b
<1> HIDE DEF w1, w2, w3, w4
<1>9. win_cases \in Seq(Fives)
  BY <1>4, <1>5, <1>6, <1>7, <1>8
<1> QED
  BY <1>9, ElementOfSeq DEF Case

-----------------------------------------------------------------------------
(* A chessman is put on the board.                                         *)

ChessBoards == [Board -> {WHITE, BLACK, NONE}]

Filled(b) == {p \in Board : b[p] # NONE}

\* Five of m in a line.
HasFive(b, m) == \E i \in Case : \A p \in win_cases[i] : b[p] = m

\* The game g with the last chessman on its board.
ShownOf(g) == IF g.last.man = NONE THEN g.board ELSE [g.board EXCEPT ![g.last.at] = g.last.man]

CountsAre(g) == \A m \in Men, i \in Case :
  g.occ[m][i] = IF Count(g.board, 1 - m, i) > 0 THEN WIN_NEVER ELSE Count(g.board, m, i)

GoesOn(g) ==
  /\ g.board \in ChessBoards /\ CountsAre(g)
  /\ \A m \in Men : ~ HasFive(g.board, m)
  /\ g.num = Cardinality(Filled(g.board)) /\ g.num # WUZI_ROW_NUM * WUZI_COL_NUM
  /\ g.last.status = GO_AHEAD /\ ShownOf(g) = g.board

IsOver(g) ==
  /\ \A m \in Men : g.last.status = m <=> HasFive(ShownOf(g), m)
  /\ g.num = Cardinality(Filled(g.board))

LEMMA BoardFinite ==
  /\ IsFiniteSet(Board) /\ Cardinality(Board) = WUZI_ROW_NUM * WUZI_COL_NUM
  /\ \A S \in SUBSET Board : IsFiniteSet(S) /\ Cardinality(S) \in Nat
<1>1. IsFiniteSet(Rows) /\ Cardinality(Rows) = WUZI_ROW_NUM
  BY SizesAre, FS_Interval DEF Rows
<1>2. IsFiniteSet(Cols) /\ Cardinality(Cols) = WUZI_COL_NUM
  BY SizesAre, FS_Interval DEF Cols
<1>3. IsFiniteSet(Board) /\ Cardinality(Board) = Cardinality(Rows) * Cardinality(Cols)
  BY <1>1, <1>2, FS_Product DEF Board
<1> QED
  BY <1>1, <1>2, <1>3, FS_Subset, FS_CardinalityType

LEMMA CountIs ==
  ASSUME NEW b, NEW m, NEW i \in Case
  PROVE  /\ Count(b, m, i) \in 0 .. 5
         /\ Count(b, m, i) = 5 <=> \A p \in win_cases[i] : b[p] = m
         /\ Count(b, m, i) = 0 <=> \A p \in win_cases[i] : b[p] # m
<1> DEFINE S == {p \in win_cases[i] : b[p] = m}
<1>1. IsFiniteSet(win_cases[i]) /\ Cardinality(win_cases[i]) = 5
  BY LinesAreFives DEF Fives, FiveOf
<1>2. S \subseteq win_cases[i]
  OBVIOUS
<1>3. S = win_cases[i] <=> \A p \in win_cases[i] : b[p] = m
  OBVIOUS
<1>4. S = {} <=> \A p \in win_cases[i] : b[p] # m
  OBVIOUS
<1>5. Count(b, m, i) = Cardinality(S)
  BY DEF Count
<1> HIDE DEF S
<1>6. /\ IsFiniteSet(S) /\ Cardinality(S) <= 5 /\ Cardinality(S) \in Nat
      /\ Cardinality(S) = 5 => S = win_cases[i]
  BY <1>1, <1>2, FS_Subset, FS_CardinalityType
<1>7. Cardinality(S) = 0 <=> S = {}
  BY <1>6, FS_EmptySet
<1> QED
  BY <1>1, <1>3, <1>4, <1>5, <1>6, <1>7

LEMMA MenAre == /\ Men = {0, 1} /\ WHITE = 0 /\ BLACK = 1 /\ NONE = 2 /\ WIN_NEVER = 6
                /\ DOGFALL = 2 /\ GO_AHEAD = 3
                /\ \A m \in Men : 1 - m \in Men /\ 1 - m # m /\ m # NONE
BY DEF Men, WHITE, BLACK, NONE, WIN_NEVER, DOGFALL, GO_AHEAD

\* What a chessman changes of a line.
LEMMA PutCounts ==
  ASSUME NEW b \in ChessBoards, NEW man \in Men, NEW at \in Board, b[at] = NONE,
         NEW i \in Case
  PROVE  LET c == [b EXCEPT ![at] = man]
         IN  /\ Count(c, man, i) = Count(b, man, i) + (IF at \in win_cases[i] THEN 1 ELSE 0)
             /\ Count(c, 1 - man, i) = Count(b, 1 - man, i)
<1> DEFINE c == [b EXCEPT ![at] = man]
           L == win_cases[i]
           S == {p \in L : b[p] = man}
<1>1. /\ L \in SUBSET Board /\ IsFiniteSet(L) /\ man # NONE /\ 1 - man # man /\ 1 - man # NONE
  BY LinesAreFives, MenAre DEF Fives, FiveOf
<1>2. c[at] = man /\ \A p \in Board \ {at} : c[p] = b[p]
  BY DEF ChessBoards
<1> HIDE DEF c
<1>3. Count(c, 1 - man, i) = Count(b, 1 - man, i)
  <2>1. {p \in L : c[p] = 1 - man} = {p \in L : b[p] = 1 - man}
    BY <1>1, <1>2
  <2> QED
    BY <2>1 DEF Count
<1>4. Count(c, man, i) = Count(b, man, i) + (IF at \in L THEN 1 ELSE 0)
  <2>1. CASE at \in L
    <3>1. {p \in L : c[p] = man} = S \cup {at} /\ at \notin S
      BY <1>1, <1>2, <2>1
    <3>2. IsFiniteSet(S)
      BY <1>1, FS_Subset
    <3> HIDE DEF S
    <3>3. Cardinality(S \cup {at}) = Cardinality(S) + 1
      BY <3>1, <3>2, FS_AddElement
    <3>4. Count(c, man, i) = Cardinality(S) + 1
      BY <3>1, <3>3 DEF Count
    <3>5. Count(b, man, i) = Cardinality(S)
      BY DEF Count, S
    <3> QED
      BY <2>1, <3>4, <3>5
  <2>2. CASE at \notin L
    <3>1. {p \in L : c[p] = man} = S
      BY <1>1, <1>2, <2>2
    <3>2. Count(c, man, i) = Count(b, man, i)
      BY <3>1 DEF Count
    <3>3. Count(b, man, i) \in 0 .. 5
      BY CountIs
    <3> QED
      BY <2>2, <3>2, <3>3
  <2> QED
    BY <2>1, <2>2
<1> QED
  BY <1>3, <1>4 DEF c

\* The loop stops at a line exactly when the chessman makes five in one.
LEMMA WinsMean ==
  ASSUME NEW g, GoesOn(g), NEW man \in Men, NEW at \in Board, g.board[at] = NONE
  PROVE  LET c == [g.board EXCEPT ![at] = man]
         IN  /\ HasFive(c, man)
                  <=> \E i \in Case : at \in win_cases[i] /\ counted(g.occ[man][i]) = 5
             /\ ~ HasFive(c, 1 - man)
<1> DEFINE b == g.board
           c == [b EXCEPT ![at] = man]
<1>1. /\ b \in ChessBoards /\ \A m \in Men : ~ HasFive(b, m)
      /\ \A i \in Case : g.occ[man][i] = IF Count(b, 1 - man, i) > 0 THEN WIN_NEVER
                                         ELSE Count(b, man, i)
  BY DEF GoesOn, CountsAre
<1>2. 1 - man \in Men /\ 1 - man # man /\ WIN_NEVER = 6
  BY MenAre
<1>3. c[at] = man /\ \A p \in Board \ {at} : c[p] = b[p]
  BY <1>1 DEF ChessBoards
<1> HIDE DEF c, b
<1>4. ASSUME NEW i \in Case
      PROVE  /\ Count(c, man, i) = Count(b, man, i) + (IF at \in win_cases[i] THEN 1 ELSE 0)
             /\ Count(c, 1 - man, i) = Count(b, 1 - man, i)
             /\ Count(b, man, i) \in 0 .. 5 /\ Count(b, 1 - man, i) \in 0 .. 5
             /\ Count(b, man, i) # 5
             /\ Count(c, man, i) = 5 <=> \A p \in win_cases[i] : c[p] = man
             /\ Count(c, 1 - man, i) = 0 <=> \A p \in win_cases[i] : c[p] # 1 - man
  <2>1. /\ Count(c, man, i) = Count(b, man, i) + (IF at \in win_cases[i] THEN 1 ELSE 0)
        /\ Count(c, 1 - man, i) = Count(b, 1 - man, i)
    BY <1>1, PutCounts DEF c, b
  <2>2. ~ \A p \in win_cases[i] : b[p] = man
    BY <1>1 DEF HasFive
  <2> QED
    BY <2>1, <2>2, CountIs
<1>5. ASSUME NEW i \in Case, \A p \in win_cases[i] : c[p] = man
      PROVE  at \in win_cases[i] /\ counted(g.occ[man][i]) = 5
  <2>1. Count(c, man, i) = 5 /\ Count(c, 1 - man, i) = 0
    <3>1. \A p \in win_cases[i] : c[p] # 1 - man
      BY <1>2, <1>5
    <3> QED
      BY <1>4, <1>5, <3>1
  <2>2. at \in win_cases[i]
    BY <1>4, <2>1
  <2>3. Count(b, man, i) = 4 /\ Count(b, 1 - man, i) = 0
    BY <1>4, <2>1, <2>2
  <2>4. g.occ[man][i] = 4
    BY <1>1, <2>3
  <2> QED
    BY <1>2, <2>2, <2>4 DEF counted
<1>6. ASSUME NEW i \in Case, at \in win_cases[i], counted(g.occ[man][i]) = 5
      PROVE  \A p \in win_cases[i] : c[p] = man
  <2>1. g.occ[man][i] = IF Count(b, 1 - man, i) > 0 THEN 6 ELSE Count(b, man, i)
    BY <1>1, <1>2
  <2>2. g.occ[man][i] # 6 /\ g.occ[man][i] + 1 = 5
    BY <1>2, <1>6 DEF counted
  <2>3. Count(b, man, i) = 4
    BY <1>4, <2>1, <2>2
  <2> QED
    BY <1>4, <1>6, <2>3
<1>7. ~ HasFive(c, 1 - man)
  <2> SUFFICES ASSUME NEW i \in Case, \A p \in win_cases[i] : c[p] = 1 - man PROVE FALSE
    BY DEF HasFive
  <2>1. win_cases[i] \in SUBSET Board
    BY LinesAreFives DEF Fives
  <2>2. \A p \in win_cases[i] : b[p] = 1 - man
    BY <1>2, <1>3, <2>1
  <2> QED
    BY <1>1, <1>2, <2>2 DEF HasFive
<1> QED
  BY <1>5, <1>6, <1>7 DEF HasFive, c, b

\* _put_a_chessman: the counters are those of the board while the game goes on, and
\* it ends with the five in a line that it returns, or on a full board.
LEMMA PutIsRight ==
  ASSUME NEW g, GoesOn(g), NEW man \in Men, NEW at \in Board, g.board[at] = NONE
  PROVE  LET h == put_a_chessman(g, man, at)
         IN  IF h.last.status = GO_AHEAD THEN GoesOn(h) ELSE IsOver(h)
<1> DEFINE h == put_a_chessman(g, man, at)
           b == g.board
           c == [b EXCEPT ![at] = man]
           mine == {i \in Case : at \in win_cases[i]}
           wins == {i \in mine : counted(g.occ[man][i]) = 5}
           full == g.num + 1 = WUZI_ROW_NUM * WUZI_COL_NUM
           seen == IF wins = {} THEN mine ELSE {i \in mine : i <= Min(wins)}
           stop == IF wins = {} THEN {} ELSE {Min(wins)}
<1>1. /\ b \in ChessBoards /\ CountsAre(g) /\ (\A m \in Men : ~ HasFive(b, m))
      /\ g.num = Cardinality(Filled(b))
  BY DEF GoesOn
<1>2. /\ Men = {0, 1} /\ man \in {0, 1} /\ man # NONE /\ NONE = 2 /\ DOGFALL = 2 /\ GO_AHEAD = 3
      /\ \A m \in Men : m # man <=> m = 1 - man
  BY MenAre
<1>3. /\ h.board = IF wins # {} THEN b ELSE c
      /\ h.num = IF wins # {} THEN g.num ELSE g.num + 1
      /\ h.last.man = man /\ h.last.at = at
      /\ h.last.status = IF wins # {} THEN man ELSE IF full THEN DOGFALL ELSE GO_AHEAD
      /\ h.occ = [m \in {WHITE, BLACK} |-> [i \in Case |->
                   IF m = man THEN IF i \in seen THEN counted(g.occ[m][i]) ELSE g.occ[m][i]
                   ELSE IF i \in seen \ stop THEN denied(g.occ[m][i]) ELSE g.occ[m][i]]]
  BY DEF put_a_chessman
<1>4. (HasFive(c, man) <=> wins # {}) /\ ~ HasFive(c, 1 - man)
  BY WinsMean
<1> HIDE DEF h, full
<1>5. c \in ChessBoards /\ c[at] = man /\ \A p \in Board \ {at} : c[p] = b[p]
  BY <1>1 DEF ChessBoards, Men
<1>6. ShownOf(h) = c
  <2>1. [c EXCEPT ![at] = man] = c
    BY <1>1 DEF ChessBoards
  <2> HIDE DEF wins
  <2> QED
    BY <1>2, <1>3, <2>1 DEF ShownOf
<1>7. \A m \in Men : h.last.status = m <=> HasFive(ShownOf(h), m)
  <2> SUFFICES ASSUME NEW m \in Men PROVE h.last.status = m <=> HasFive(c, m)
    BY <1>6
  <2> HIDE DEF wins, c
  <2>1. CASE m = man
    BY <1>2, <1>3, <1>4, <2>1
  <2>2. CASE m # man
    <3>1. ~ HasFive(c, m)
      BY <1>2, <1>4, <2>2
    <3> QED
      BY <1>2, <1>3, <2>2, <3>1
  <2> QED
    BY <2>1, <2>2
<1>8. h.num = Cardinality(Filled(h.board))
  <2>1. Filled(c) = Filled(b) \cup {at} /\ at \notin Filled(b)
    BY <1>2, <1>5 DEF Filled
  <2>2. IsFiniteSet(Filled(b))
    BY BoardFinite DEF Filled
  <2> HIDE DEF c, b, wins
  <2>3. Cardinality(Filled(b) \cup {at}) = Cardinality(Filled(b)) + 1
    BY <2>1, <2>2, FS_AddElement
  <2> QED
    BY <1>1, <1>3, <2>1, <2>3
<1>9. ASSUME h.last.status = GO_AHEAD PROVE GoesOn(h)
  <2>1. wins = {} /\ ~ full
    <3> HIDE DEF wins
    <3> QED
      BY <1>2, <1>3, <1>9
  <2>2. /\ h.board = c /\ h.num = g.num + 1 /\ seen = mine /\ stop = {}
    BY <1>3, <2>1
  <2>3. CountsAre(h)
    <3> SUFFICES ASSUME NEW m \in Men, NEW i \in Case
                 PROVE  h.occ[m][i] = IF Count(c, 1 - m, i) > 0 THEN WIN_NEVER
                                      ELSE Count(c, m, i)
      BY <2>2 DEF CountsAre
    <3>1. h.occ[m][i] = IF at \in win_cases[i]
                        THEN IF m = man THEN counted(g.occ[m][i]) ELSE denied(g.occ[m][i])
                        ELSE g.occ[m][i]
      <4>1. (i \in mine <=> at \in win_cases[i]) /\ m \in {WHITE, BLACK}
        BY DEF Men
      <4>2. seen = mine /\ stop = {}
        BY <2>2
      <4> HIDE DEF seen, stop, mine
      <4>3. h.occ[m][i] = IF m = man THEN IF i \in seen THEN counted(g.occ[m][i]) ELSE g.occ[m][i]
                          ELSE IF i \in seen \ stop THEN denied(g.occ[m][i]) ELSE g.occ[m][i]
        BY <1>3, <4>1
      <4> QED
        BY <4>1, <4>2, <4>3
    <3>2. /\ Count(c, man, i) = Count(b, man, i) + (IF at \in win_cases[i] THEN 1 ELSE 0)
          /\ Count(c, 1 - man, i) = Count(b, 1 - man, i)
          /\ Count(b, man, i) \in 0 .. 5 /\ Count(b, 1 - man, i) \in 0 .. 5
      <4>1. /\ Count(c, man, i) = Count(b, man, i) + (IF at \in win_cases[i] THEN 1 ELSE 0)
            /\ Count(c, 1 - man, i) = Count(b, 1 - man, i)
        BY <1>1, PutCounts, Zenon
      <4> QED
        BY <4>1, CountIs, Zenon
    <3>3. g.occ[m][i] = IF Count(b, 1 - m, i) > 0 THEN WIN_NEVER ELSE Count(b, m, i)
      BY <1>1 DEF CountsAre
    <3>4. denied(g.occ[m][i]) = WIN_NEVER /\ WIN_NEVER = 6
          /\ counted(g.occ[m][i]) = IF g.occ[m][i] # 6 THEN g.occ[m][i] + 1 ELSE 6
      BY DEF denied, counted, WIN_NEVER
    <3> HIDE DEF c, b
    <3>5. CASE m = man
      <4>1. /\ Count(c, m, i) = Count(b, m, i) + (IF at \in win_cases[i] THEN 1 ELSE 0)
            /\ Count(c, 1 - m, i) = Count(b, 1 - m, i)
            /\ Count(b, m, i) \in 0 .. 5 /\ Count(b, 1 - m, i) \in 0 .. 5
        BY <3>2, <3>5
      <4>2. h.occ[m][i] = IF at \in win_cases[i] THEN counted(g.occ[m][i]) ELSE g.occ[m][i]
        BY <3>1, <3>5
      <4> QED
        BY <3>3, <3>4, <4>1, <4>2
    <3>6. CASE m = 1 - man
      <4>1. 1 - m = man /\ m # man
        BY <1>2, <3>6
      <4>2. /\ Count(c, 1 - m, i) = Count(b, 1 - m, i) + (IF at \in win_cases[i] THEN 1 ELSE 0)
            /\ Count(c, m, i) = Count(b, m, i)
            /\ Count(b, m, i) \in 0 .. 5 /\ Count(b, 1 - m, i) \in 0 .. 5
        BY <3>2, <3>6, <4>1
      <4>3. h.occ[m][i] = IF at \in win_cases[i] THEN WIN_NEVER ELSE g.occ[m][i]
        BY <3>1, <3>4, <4>1
      <4> QED
        BY <3>3, <4>2, <4>3
    <3> QED
      BY <1>2, <3>5, <3>6
  <2>4. \A m \in Men : ~ HasFive(c, m)
    BY <1>2, <1>4, <2>1
  <2>5. h.num # WUZI_ROW_NUM * WUZI_COL_NUM
    BY <2>1, <2>2 DEF full
  <2> HIDE DEF c
  <2> QED
    BY <1>5, <1>6, <1>8, <1>9, <2>2, <2>3, <2>4, <2>5 DEF GoesOn
<1>10. ASSUME h.last.status # GO_AHEAD PROVE IsOver(h)
  BY <1>7, <1>8 DEF IsOver
<1> QED
  BY <1>9, <1>10 DEF h

-----------------------------------------------------------------------------
(* The answer of the computer.                                             *)

\* A game that goes on has a free position.
LEMMA SomeFree ==
  ASSUME NEW g, GoesOn(g)
  PROVE  Free(g) # {} /\ Free(g) \in SUBSET Board
<1>1. Free(g) = Board \ Filled(g.board)
  BY DEF Free, Filled, Board
<1>2. Filled(g.board) # Board
  BY BoardFinite DEF GoesOn
<1> QED
  BY <1>1, <1>2 DEF Filled

\* The score of a position is bounded by the number of lines.
LEMMA GradeIs ==
  ASSUME NEW g, NEW man, NEW p
  PROVE  grade(g, man, p) \in 0 .. 556 * Len(win_cases)
<1>1. Len(win_cases) \in Nat
  BY LinesAreFives
<1>2. IsFiniteSet(Case) /\ Cardinality(Case) = Len(win_cases)
  <2> DEFINE n == Len(win_cases)
  <2>1. n \in Nat /\ Case = 1 .. n
    BY <1>1 DEF Case
  <2> HIDE DEF n
  <2>2. IsFiniteSet(1 .. n) /\ Cardinality(1 .. n) = IF 1 > n THEN 0 ELSE n - 1 + 1
    BY <2>1, FS_Interval
  <2>3. Cardinality(1 .. n) = n
    BY <2>1, <2>2
  <2> QED
    BY <2>1, <2>2, <2>3 DEF n
<1>3. \A n : LinesWith(g, man, p, n) \in 0 .. Len(win_cases)
  <2> TAKE n
  <2> DEFINE S == {i \in Case : p \in win_cases[i] /\ g.occ[man][i] = n}
  <2>1. S \in SUBSET Case
    OBVIOUS
  <2> HIDE DEF S
  <2>2. IsFiniteSet(S) /\ Cardinality(S) <= Len(win_cases) /\ Cardinality(S) \in Nat
    BY <1>2, <2>1, FS_Subset, FS_CardinalityType
  <2>3. Cardinality(S) \in 0 .. Len(win_cases)
    BY <1>1, <2>2
  <2> QED
    BY <2>3 DEF LinesWith, S
<1>4. /\ score_table[1] = 1 /\ score_table[2] = 5 /\ score_table[3] = 50
      /\ score_table[4] = 100 /\ score_table[5] = 400
  BY DEF score_table
<1>5. PICK n0 \in 0 .. Len(win_cases), n1 \in 0 .. Len(win_cases), n2 \in 0 .. Len(win_cases),
           n3 \in 0 .. Len(win_cases), n4 \in 0 .. Len(win_cases) :
        /\ n0 = LinesWith(g, man, p, 0) /\ n1 = LinesWith(g, man, p, 1)
        /\ n2 = LinesWith(g, man, p, 2) /\ n3 = LinesWith(g, man, p, 3)
        /\ n4 = LinesWith(g, man, p, 4)
  BY <1>3
<1>6. grade(g, man, p) = 1 * n0 + 5 * n1 + 50 * n2 + 100 * n3 + 400 * n4
  BY <1>4, <1>5 DEF grade
<1> QED
  BY <1>1, <1>6

\* The first of the positions S, row by row.
LEMMA FirstExists ==
  ASSUME NEW S \in SUBSET Board, S # {}
  PROVE  \E p \in S : \A q \in S \ {p} : p[1] < q[1] \/ (p[1] = q[1] /\ p[2] < q[2])
<1> DEFINE R == {p[1] : p \in S}
<1>0. \A p \in S : p = <<p[1], p[2]>> /\ p[1] \in Nat /\ p[2] \in Nat
  BY SizesAre DEF Board, Rows, Cols
<1>1. R \in SUBSET Nat /\ R # {}
  BY <1>0
<1>2. PICK x \in R : \A y \in R : x <= y
  <2> HIDE DEF R
  <2> QED
    BY <1>1, LeastExists
<1> DEFINE C == {p[2] : p \in {p \in S : p[1] = x}}
<1>3. C \in SUBSET Nat /\ C # {}
  BY <1>0, <1>2
<1>4. PICK y \in C : \A z \in C : y <= z
  <2> HIDE DEF C
  <2> QED
    BY <1>3, LeastExists
<1>5. PICK p \in S : p[1] = x /\ p[2] = y
  BY <1>4
<1>6. ASSUME NEW q \in S \ {p} PROVE p[1] < q[1] \/ (p[1] = q[1] /\ p[2] < q[2])
  <2>1. q[1] \in R /\ (q[1] = x => q[2] \in C)
    OBVIOUS
  <2>2. x <= q[1] /\ (q[1] = x => y <= q[2])
    BY <1>2, <1>4, <2>1
  <2>3. ~ (p[1] = q[1] /\ p[2] = q[2])
    BY <1>0
  <2> HIDE DEF R, C
  <2> QED
    BY <1>0, <1>5, <2>2, <2>3
<1> QED
  BY <1>6

\* _computer_do finds a free position.
LEMMA BestIsFree ==
  ASSUME NEW g, NEW man, Free(g) # {}, Free(g) \in SUBSET Board
  PROVE  best(g, man) \in Free(g)
<1> DEFINE F == [p \in Free(g) |-> grade(g, man, p)]
           B == {p \in Free(g) : \A q \in Free(g) : F[q] <= F[p]}
           V == {F[p] : p \in Free(g)}
           n == 556 * Len(win_cases)
<1>1. n \in Nat
  BY LinesAreFives
<1>2. V \in SUBSET (0 .. n) /\ V # {}
  BY GradeIs
<1>3. PICK v \in V : \A u \in V : v >= u
  <2> HIDE DEF V, n
  <2> QED
    BY <1>1, <1>2, GreatestExists
<1>4. B # {}
  <2>1. PICK p \in Free(g) : F[p] = v
    BY <1>3
  <2>2. ASSUME NEW q \in Free(g) PROVE F[q] <= F[p]
    <3>1. F[q] \in V
      OBVIOUS
    <3>2. v >= F[q] /\ v \in Int /\ F[q] \in Int
      BY <1>1, <1>2, <1>3, <3>1
    <3> HIDE DEF F
    <3> QED
      BY <2>1, <3>2
  <2> QED
    BY <2>2
<1>5. B \in SUBSET Board
  OBVIOUS
<1>6. best(g, man) = CHOOSE p \in B : \A q \in B \ {p} :
                       p[1] < q[1] \/ (p[1] = q[1] /\ p[2] < q[2])
  BY DEF best
<1>7. B \subseteq Free(g)
  OBVIOUS
<1> HIDE DEF B
<1>8. best(g, man) \in B
  BY <1>4, <1>5, <1>6, FirstExists
<1> QED
  BY <1>7, <1>8

LEMMA ReplyIsFree ==
  ASSUME NEW g, GoesOn(g)
  PROVE  reply(g) \in Board /\ g.board[reply(g)] = NONE
<1>1. Free(g) # {} /\ Free(g) \in SUBSET Board
  BY SomeFree
<1>2. best(g, WHITE) \in Free(g) /\ best(g, BLACK) \in Free(g)
  BY <1>1, BestIsFree
<1>3. reply(g) \in Free(g)
  BY <1>2 DEF reply
<1> QED
  BY <1>1, <1>3 DEF Free

-----------------------------------------------------------------------------
(* The window.                                                             *)

WuziInv == turn \in Men /\ IF game_over THEN IsOver(Game) ELSE GoesOn(Game)

\* What a press or a restart makes of the game.
LEMMA BecomeKeeps ==
  ASSUME NEW g, Become(g), IF g.last.status = GO_AHEAD THEN GoesOn(g) ELSE IsOver(g),
         turn' \in Men
  PROVE  WuziInv'
<1>1. /\ chessboard' = g.board /\ occupy_num' = g.occ /\ chessman_num' = g.num /\ last' = g.last
      /\ game_over' = (g.last.status # GO_AHEAD)
  BY DEF Become
<1>2. /\ Game'.board = g.board /\ Game'.occ = g.occ /\ Game'.num = g.num /\ Game'.last = g.last
  BY <1>1 DEF Game
<1>3. GoesOn(g) => GoesOn(Game')
  BY <1>2 DEF GoesOn, CountsAre, ShownOf
<1>4. IsOver(g) => IsOver(Game')
  BY <1>2 DEF IsOver, ShownOf
<1>5. GoesOn(Game)' <=> GoesOn(Game')
  BY DEF GoesOn, CountsAre, ShownOf, Game
<1>6. IsOver(Game)' <=> IsOver(Game')
  BY DEF IsOver, ShownOf, Game
<1> QED
  BY <1>1, <1>3, <1>4, <1>5, <1>6 DEF WuziInv

LEMMA StartedGoesOn == GoesOn(Started) /\ Started.last.status = GO_AHEAD
<1> DEFINE b == [p \in Rows \X Cols |-> NONE]
<1>1. /\ Started.board = b /\ Started.num = 0 /\ Started.last.status = GO_AHEAD
      /\ Started.last.man = NONE
      /\ \A m \in Men, i \in Case : Started.occ[m][i] = 0
  BY DEF Started, NoMove, Men
<1>2. b \in ChessBoards /\ Filled(b) = {}
  BY DEF ChessBoards, Filled, Board
<1>3. ASSUME NEW m \in Men, NEW i \in Case PROVE Count(b, m, i) = 0 /\ ~ \A p \in win_cases[i] : b[p] = m
  <2>1. win_cases[i] \in SUBSET Board /\ m # NONE
    BY LinesAreFives, MenAre DEF Fives
  <2>2. \A p \in win_cases[i] : b[p] # m
    BY <2>1 DEF Board
  <2> HIDE DEF b
  <2>3. Count(b, m, i) = 0
    BY <2>2, CountIs
  <2> QED
    BY <2>3, CountIs
<1>4. WUZI_ROW_NUM * WUZI_COL_NUM # 0
  BY SizesAre
<1>5. Cardinality(Filled(b)) = 0
  BY <1>2, FS_EmptySet
<1> HIDE DEF b
<1>6. CountsAre(Started)
  <2> SUFFICES ASSUME NEW m \in Men, NEW i \in Case
               PROVE  Started.occ[m][i] = IF Count(Started.board, 1 - m, i) > 0 THEN WIN_NEVER
                                          ELSE Count(Started.board, m, i)
    BY DEF CountsAre
  <2>1. Count(b, m, i) = 0 /\ Count(b, 1 - m, i) = 0
    BY <1>3, MenAre
  <2> QED
    BY <1>1, <2>1
<1>7. \A m \in Men : ~ HasFive(b, m)
  BY <1>3 DEF HasFive
<1> QED
  BY <1>1, <1>2, <1>4, <1>5, <1>6, <1>7 DEF GoesOn, ShownOf

\* A press of two people, and of one and the computer.
LEMMA PressP2PKeeps == ASSUME WuziInv, NEW at \in Presses, PressP2P(at) PROVE WuziInv'
<1>1. /\ GoesOn(Game) /\ turn \in Men /\ at \in Board /\ Game.board[at] = NONE
  BY WuziAssumption DEF WuziInv, PressP2P, May, Game, Board
<1> DEFINE g == put_a_chessman(Game, turn, at)
<1>2. IF g.last.status = GO_AHEAD THEN GoesOn(g) ELSE IsOver(g)
  BY <1>1, PutIsRight
<1>3. Become(g) /\ turn' = IF g.last.status = GO_AHEAD THEN 1 - turn ELSE turn
  BY DEF PressP2P
<1>4. turn' \in Men
  BY <1>1, <1>3, MenAre
<1> QED
  BY <1>2, <1>3, <1>4, BecomeKeeps

LEMMA PressP2CKeeps == ASSUME WuziInv, NEW at \in Presses, PressP2C(at) PROVE WuziInv'
<1>1. /\ GoesOn(Game) /\ turn \in Men /\ at \in Board /\ Game.board[at] = NONE
  BY WuziAssumption DEF WuziInv, PressP2C, May, Game, Board
<1>0. WHITE \in Men /\ BLACK \in Men
  BY DEF Men
<1> DEFINE g == put_a_chessman(Game, WHITE, at)
           h == IF g.last.status # GO_AHEAD THEN g ELSE put_a_chessman(g, BLACK, reply(g))
<1>2. IF g.last.status = GO_AHEAD THEN GoesOn(g) ELSE IsOver(g)
  BY <1>0, <1>1, PutIsRight
<1>3. Become(h) /\ turn' = turn
  BY DEF PressP2C
<1> HIDE DEF g
<1>4. IF h.last.status = GO_AHEAD THEN GoesOn(h) ELSE IsOver(h)
  <2>1. CASE g.last.status # GO_AHEAD
    BY <1>2, <2>1
  <2>2. CASE g.last.status = GO_AHEAD
    <3>1. GoesOn(g) /\ reply(g) \in Board /\ g.board[reply(g)] = NONE
      BY <1>2, <2>2, ReplyIsFree
    <3> DEFINE f == put_a_chessman(g, BLACK, reply(g))
    <3>2. IF f.last.status = GO_AHEAD THEN GoesOn(f) ELSE IsOver(f)
      BY <1>0, <3>1, PutIsRight
    <3>3. h = f
      BY <2>2
    <3> HIDE DEF f, h
    <3> QED
      BY <3>2, <3>3
  <2> QED
    BY <2>1, <2>2
<1> HIDE DEF h
<1> QED
  BY <1>1, <1>3, <1>4, BecomeKeeps

LEMMA WuziStarts == wuziInit => WuziInv
<1> SUFFICES ASSUME wuziInit PROVE WuziInv
  OBVIOUS
<1>1. /\ Game.board = Started.board /\ Game.occ = Started.occ /\ Game.num = Started.num
      /\ Game.last = Started.last /\ game_over = FALSE /\ turn \in Men
  BY DEF wuziInit, Game, Started, Men
<1>2. GoesOn(Game)
  BY <1>1, StartedGoesOn DEF GoesOn, CountsAre, ShownOf
<1> QED
  BY <1>1, <1>2 DEF WuziInv

LEMMA WuziStepKeeps == WuziInv /\ [wuziNext]_wuziVars => WuziInv'
<1> SUFFICES ASSUME WuziInv, [wuziNext]_wuziVars PROVE WuziInv'
  OBVIOUS
<1>1. CASE UNCHANGED wuziVars
  BY <1>1 DEF wuziVars, WuziInv, Game, GoesOn, IsOver, CountsAre, ShownOf
<1>2. ASSUME NEW mode, NEW t \in Men, Restart(mode, t) PROVE WuziInv'
  <2>1. Become(Started) /\ turn' = t
    BY <1>2 DEF Restart
  <2> QED
    BY <1>2, <2>1, StartedGoesOn, BecomeKeeps
<1>3. turn \in Men /\ WHITE \in Men
  BY DEF WuziInv, Men
<1> QED
  BY <1>1, <1>2, <1>3, PressP2PKeeps, PressP2CKeeps DEF wuziNext

\* The counters of the lines are those of the board until the game is over, it is over
\* with a winner exactly when five of one color are in a line, and every chessman is
\* counted: for every size of the board and every presses, of two people or of one and
\* the computer.
THEOREM CountersMatchBoardHolds == wuziSpec => []CountersMatchBoard
<1>1. WuziInv => CountersMatchBoard
  <2> SUFFICES ASSUME WuziInv PROVE CountersMatchBoard
    OBVIOUS
  <2>1. /\ Game.board = chessboard /\ Game.occ = occupy_num /\ Game.num = chessman_num
        /\ Game.last = last
    BY DEF Game
  <2>2. ShownOf(Game) = Shown
    BY <2>1 DEF ShownOf, Shown
  <2>3. chessman_num = Cardinality({p \in Rows \X Cols : chessboard[p] # NONE})
    BY <2>1 DEF WuziInv, GoesOn, IsOver, Filled, Board
  <2>4. ~ game_over => \A m \in Men, i \in Case :
          occupy_num[m][i] = IF Count(chessboard, 1 - m, i) > 0 THEN WIN_NEVER
                             ELSE Count(chessboard, m, i)
    BY <2>1 DEF WuziInv, GoesOn, CountsAre
  <2>5. \A m \in Men : last.status = m <=> HasFive(Shown, m)
    <3>1. CASE game_over
      BY <2>1, <2>2, <3>1 DEF WuziInv, IsOver
    <3>2. CASE ~ game_over
      <4>1. last.status = GO_AHEAD /\ Shown = chessboard /\ \A m \in Men : ~ HasFive(chessboard, m)
        BY <2>1, <2>2, <3>2 DEF WuziInv, GoesOn
      <4>2. \A m \in Men : m # GO_AHEAD
        BY MenAre
      <4> QED
        BY <4>1, <4>2
    <3> QED
      BY <3>1, <3>2
  <2> QED
    BY <2>3, <2>4, <2>5 DEF CountersMatchBoard, HasFive, Men
<1> QED
  BY <1>1, WuziStarts, WuziStepKeeps, PTL DEF wuziSpec

-----------------------------------------------------------------------------
(* The clock.                                                              *)

\* What holds at 0, and at n + 1 when it holds at n, holds of every natural number.
LEMMA Induction ==
  ASSUME NEW S, 0 \in S, \A n \in Nat : n \in S => n + 1 \in S
  PROVE  \A n \in Nat : n \in S
<1> SUFFICES ASSUME NEW n \in Nat, n \notin S PROVE FALSE
  OBVIOUS
<1> DEFINE T == {i \in Nat : i \notin S}
<1>1. PICK m \in T : \A j \in T : m <= j
  BY LeastExists
<1>2. m - 1 \in Nat /\ m - 1 \notin T
  BY <1>1
<1>3. (m - 1) + 1 \in S
  BY <1>2
<1> QED
  BY <1>1, <1>3

\* A date of the calendar.
IsDate(d) ==
  /\ d \in [year : Nat, mon : 1 .. 12, day : Nat]
  /\ d.year >= 1 /\ d.day \in 1 .. monthDays(d.year, d.mon)

Dates == {d \in [year : Nat, mon : 1 .. 12, day : Nat] : IsDate(d)}

\* A month has days, and a leap year one more than others.
LEMMA MonthDaysAre ==
  ASSUME NEW y \in Nat, NEW m \in 1 .. 12
  PROVE  monthDays(y, m) = IF m \in {1, 3, 5, 7, 8, 10, 12} THEN 31
                           ELSE IF m # 2 THEN 30
                           ELSE IF isLeapyear(y) THEN 29 ELSE 28
<1>1. CASE m \in {1, 3, 5, 7, 8, 10, 12}
  BY <1>1 DEF monthDays
<1>2. CASE m \in {4, 6, 9, 11}
  BY <1>2 DEF monthDays
<1>3. CASE m = 2
  BY <1>3 DEF monthDays
<1> QED
  BY <1>1, <1>2, <1>3

\* A year more has a leap day more exactly when it is a leap year.
LEMMA LeapDaysAre ==
  ASSUME NEW y \in Nat, y >= 1
  PROVE  /\ LeapDays(y) \in Int /\ LeapDays(y - 1) \in Int
         /\ LeapDays(y) = LeapDays(y - 1) + (IF isLeapyear(y) THEN 1 ELSE 0)
<1>1. y \div 4 = (y - 1) \div 4 + (IF y % 4 = 0 THEN 1 ELSE 0)
  OBVIOUS
<1>2. y \div 100 = (y - 1) \div 100 + (IF y % 100 = 0 THEN 1 ELSE 0)
  OBVIOUS
<1>3. y \div 400 = (y - 1) \div 400 + (IF y % 400 = 0 THEN 1 ELSE 0)
  OBVIOUS
<1>4. (y % 400 = 0 => y % 100 = 0) /\ (y % 100 = 0 => y % 4 = 0)
  OBVIOUS
<1> QED
  BY <1>1, <1>2, <1>3, <1>4 DEF LeapDays, isLeapyear

LEMMA MonthStartIs ==
  ASSUME NEW m \in 1 .. 12
  PROVE  /\ MonthStart[m] \in Nat
         /\ m # 12 => MonthStart[m + 1] = MonthStart[m]
                        + (IF m \in {1, 3, 5, 7, 8, 10} THEN 31 ELSE IF m # 2 THEN 30 ELSE 28)
         /\ MonthStart[1] = 0 /\ MonthStart[12] = 334
  BY DEF MonthStart

\* A turn of the loop of addDays ends on the next day.
LEMMA NextDayIs ==
  ASSUME NEW d, IsDate(d)
  PROVE  /\ IsDate(nextDay(d)) /\ nextDay(d).year >= d.year
         /\ DayNumber(d) \in Int
         /\ DayNumber(nextDay(d)) = DayNumber(d) + 1
<1> DEFINE y == d.year
           m == d.mon
           e == nextDay(d)
           L == IF isLeapyear(y) THEN 1 ELSE 0
<1>1. y \in Nat /\ y >= 1 /\ m \in 1 .. 12 /\ d.day \in Nat /\ d.day >= 1
  BY DEF IsDate
<1>2. /\ LeapDays(y) \in Int /\ LeapDays(y - 1) \in Int /\ LeapDays(y) = LeapDays(y - 1) + L
  BY <1>1, LeapDaysAre
<1>3. /\ MonthStart[m] \in Nat
      /\ m # 12 => MonthStart[m + 1] = MonthStart[m]
                     + (IF m \in {1, 3, 5, 7, 8, 10} THEN 31 ELSE IF m # 2 THEN 30 ELSE 28)
      /\ MonthStart[1] = 0 /\ MonthStart[12] = 334
  BY <1>1, MonthStartIs
<1>4. monthDays(y, m) = IF m \in {1, 3, 5, 7, 8, 10, 12} THEN 31
                        ELSE IF m # 2 THEN 30 ELSE 28 + L
  BY <1>1, MonthDaysAre
<1>5. DayNumber(d) = 365 * (y - 1) + LeapDays(IF m > 2 THEN y ELSE y - 1)
                       + MonthStart[m] + d.day
  BY DEF DayNumber
<1>6. DayNumber(d) \in Int
  BY <1>1, <1>2, <1>3, <1>5
<1>7. d.day <= monthDays(y, m)
  BY <1>1, <1>4 DEF IsDate
<1>8. CASE d.day < monthDays(y, m)
  <2>1. e = [d EXCEPT !.day = @ + 1]
    BY <1>8 DEF nextDay
  <2>2. e \in [year : Nat, mon : 1 .. 12, day : Nat] /\ e.year = y /\ e.mon = m
        /\ e.day = d.day + 1
    BY <2>1, <1>1 DEF IsDate
  <2>3. IsDate(e)
    BY <2>2, <1>1, <1>4, <1>8 DEF IsDate
  <2>4. DayNumber(e) = 365 * (y - 1) + LeapDays(IF m > 2 THEN y ELSE y - 1)
                         + MonthStart[m] + (d.day + 1)
    BY <2>2 DEF DayNumber
  <2> QED
    BY <2>2, <2>3, <2>4, <1>1, <1>2, <1>3, <1>5, <1>6
<1>9. CASE ~ (d.day < monthDays(y, m)) /\ m < 12
  <2>1. e = [year |-> y, mon |-> m + 1, day |-> 1]
    <3>1. [d EXCEPT !.day = 1] = [year |-> y, mon |-> m, day |-> 1]
      BY DEF IsDate
    <3> QED
      BY <1>9, <3>1 DEF nextDay
  <2>2. e \in [year : Nat, mon : 1 .. 12, day : Nat] /\ e.year = y /\ e.mon = m + 1
        /\ e.day = 1
    BY <2>1, <1>1, <1>9 DEF IsDate
  <2>3. IsDate(e)
    BY <2>2, <1>1, MonthDaysAre DEF IsDate
  <2>4. DayNumber(e) = 365 * (y - 1) + LeapDays(IF m + 1 > 2 THEN y ELSE y - 1)
                         + MonthStart[m + 1] + 1
    BY <2>2 DEF DayNumber
  <2>5. d.day = monthDays(y, m)
    BY <1>1, <1>4, <1>7, <1>9
  <2>6. DayNumber(e) = DayNumber(d) + 1
    <3>1. CASE m = 1
      BY <3>1, <2>4, <2>5, <1>1, <1>2, <1>3, <1>4, <1>5
    <3>2. CASE m = 2
      BY <3>2, <2>4, <2>5, <1>1, <1>2, <1>3, <1>4, <1>5
    <3>3. CASE m > 2
      BY <3>3, <2>4, <2>5, <1>1, <1>2, <1>3, <1>4, <1>5, <1>9
    <3> QED
      BY <1>1, <3>1, <3>2, <3>3
  <2> QED
    BY <2>2, <2>3, <2>6, <1>1, <1>6
<1>10. CASE ~ (d.day < monthDays(y, m)) /\ m = 12
  <2>1. e = [year |-> y + 1, mon |-> 1, day |-> 1]
    <3> DEFINE d1 == [d EXCEPT !.day = 1]
               d2 == [d1 EXCEPT !.mon = 1]
               d3 == [d2 EXCEPT !.year = y + 1]
    <3>1. d1 = [year |-> y, mon |-> m, day |-> 1]
      BY DEF IsDate
    <3>2. e = d3
      BY <1>10 DEF nextDay
    <3> HIDE DEF d1
    <3>3. d2 = [year |-> y, mon |-> 1, day |-> 1]
      BY <3>1
    <3> HIDE DEF d2
    <3>4. d3 = [year |-> y + 1, mon |-> 1, day |-> 1]
      BY <3>3
    <3> QED
      BY <3>2, <3>4
  <2>2. e \in [year : Nat, mon : 1 .. 12, day : Nat] /\ e.year = y + 1 /\ e.mon = 1
        /\ e.day = 1
    BY <2>1, <1>1 DEF IsDate
  <2>3. IsDate(e)
    BY <2>2, <1>1, MonthDaysAre DEF IsDate
  <2>4. DayNumber(e) = 365 * y + LeapDays(y) + 0 + 1
    <3>1. e.year - 1 = y /\ ~ (e.mon > 2)
      BY <2>2, <1>1
    <3> QED
      BY <3>1, <2>2, <1>1, <1>2, <1>3 DEF DayNumber
  <2>5. d.day = 31
    BY <1>1, <1>4, <1>7, <1>10
  <2>6. DayNumber(d) = 365 * (y - 1) + LeapDays(y) + 334 + 31
    BY <2>5, <1>3, <1>5, <1>10
  <2>7. DayNumber(e) = DayNumber(d) + 1
    BY <2>4, <2>6, <1>1, <1>2
  <2> QED
    BY <2>2, <2>3, <2>7, <1>1, <1>6
<1> QED
  BY <1>1, <1>8, <1>9, <1>10

-----------------------------------------------------------------------------
(* What the loops of addDays and updateDayOfYear compute.                  *)

\* What f is after n turns of h, from d.
IsLoop(f, S, h, d) ==
  f \in [Nat -> S] /\ f[0] = d /\ \A n \in Nat : f[n + 1] = h[f[n]]

\* A function on the natural numbers is defined by its value at 0 and by that at
\* n + 1 from that at n.
LEMMA LoopExists ==
  ASSUME NEW S, NEW h \in [S -> S], NEW d \in S
  PROVE  \E f : IsLoop(f, S, h, d)
<1> DEFINE RunsTo(g, n) == /\ g \in [0 .. n -> S] /\ g[0] = d
                           /\ \A i \in 0 .. n - 1 : g[i + 1] = h[g[i]]
           Good == {n \in Nat : \E g \in [0 .. n -> S] : RunsTo(g, n)}
           G(n) == CHOOSE g \in [0 .. n -> S] : RunsTo(g, n)
           f == [n \in Nat |-> G(n)[n]]
<1>1. 0 \in Good
  <2> DEFINE g == [i \in 0 .. 0 |-> d]
  <2>1. RunsTo(g, 0)
    OBVIOUS
  <2> QED
    BY <2>1
<1>2. \A n \in Nat : n \in Good => n + 1 \in Good
  <2> SUFFICES ASSUME NEW n \in Nat, n \in Good PROVE n + 1 \in Good
    OBVIOUS
  <2>1. PICK g \in [0 .. n -> S] : RunsTo(g, n)
    OBVIOUS
  <2> DEFINE k == [i \in 0 .. n + 1 |-> IF i = n + 1 THEN h[g[n]] ELSE g[i]]
  <2>2. k \in [0 .. n + 1 -> S]
    OBVIOUS
  <2>3. k[0] = d
    BY <2>1
  <2>4. ASSUME NEW i \in 0 .. (n + 1) - 1 PROVE k[i + 1] = h[k[i]]
    <3>1. CASE i = n
      BY <3>1
    <3>2. CASE i # n
      BY <3>2, <2>1
    <3> QED
      BY <3>1, <3>2
  <2> HIDE DEF k
  <2>5. RunsTo(k, n + 1)
    BY <2>2, <2>3, <2>4
  <2> QED
    BY <2>2, <2>5
<1>3. \A n \in Nat : n \in Good
  <2> HIDE DEF Good
  <2> QED
    BY <1>1, <1>2, Induction
<1>4. ASSUME NEW n \in Nat PROVE G(n) \in [0 .. n -> S] /\ RunsTo(G(n), n)
  BY <1>3
<1>5. ASSUME NEW n \in Nat, NEW g, RunsTo(g, n) PROVE g[n] = f[n]
  <2> DEFINE Same == {i \in Nat : i <= n => g[i] = G(n)[i]}
  <2>1. 0 \in Same
    BY <1>4, <1>5
  <2>2. \A i \in Nat : i \in Same => i + 1 \in Same
    <3> SUFFICES ASSUME NEW i \in Nat, i \in Same, i + 1 <= n PROVE g[i + 1] = G(n)[i + 1]
      OBVIOUS
    <3>1. g[i + 1] = h[g[i]] /\ G(n)[i + 1] = h[G(n)[i]]
      <4> HIDE DEF G
      <4> QED
        BY <1>4, <1>5
    <3> QED
      BY <3>1
  <2>3. n \in Same
    <3> HIDE DEF Same
    <3> QED
      BY <2>1, <2>2, Induction
  <2> HIDE DEF G
  <2> QED
    BY <2>3
<1>6. f \in [Nat -> S] /\ f[0] = d
  <2> HIDE DEF G
  <2> QED
    BY <1>4
<1>7. ASSUME NEW n \in Nat PROVE f[n + 1] = h[f[n]]
  <2> DEFINE g == G(n + 1)
             k == [i \in 0 .. n |-> g[i]]
  <2> HIDE DEF G
  <2>1. RunsTo(g, n + 1)
    BY <1>4
  <2> HIDE DEF g
  <2>2. RunsTo(k, n)
    BY <2>1
  <2>3. k[n] = f[n]
    <3> HIDE DEF k, f
    <3> QED
      BY <1>5, <2>2
  <2>4. g[n + 1] = h[g[n]]
    BY <2>1
  <2>5. f[n + 1] = g[n + 1]
    BY DEF g
  <2> QED
    BY <2>3, <2>4, <2>5
<1> QED
  <2> HIDE DEF f
  <2> QED
    BY <1>6, <1>7 DEF IsLoop

\* addDays turns its loop once for every day.
LEMMA AddDaysIs ==
  ASSUME NEW d, IsDate(d)
  PROVE  /\ addDays(d, 0) = d
         /\ \A n \in Nat : /\ IsDate(addDays(d, n))
                           /\ addDays(d, n + 1) = nextDay(addDays(d, n))
<1> DEFINE h == [e \in Dates |-> nextDay(e)]
           body(t) == [i \in Nat |-> IF i = 0 THEN d ELSE nextDay(t[i - 1])]
           loop == CHOOSE t : t = body(t)
<1>1. \A e : e \in Dates <=> IsDate(e)
  BY DEF Dates, IsDate
<1>2. h \in [Dates -> Dates]
  BY <1>1, NextDayIs
<1>3. PICK f \in [Nat -> Dates] : f[0] = d /\ \A n \in Nat : f[n + 1] = nextDay(f[n])
  <2> HIDE DEF h
  <2>1. d \in Dates
    BY <1>1
  <2>2. PICK f : IsLoop(f, Dates, h, d)
    BY <1>2, <2>1, LoopExists
  <2>3. \A e \in Dates : h[e] = nextDay(e)
    BY DEF h
  <2>4. \A n \in Nat : f[n + 1] = nextDay(f[n])
    <3> TAKE n \in Nat
    <3>1. f[n] \in Dates
      BY <2>2 DEF IsLoop
    <3> QED
      BY <2>2, <2>3, <3>1 DEF IsLoop
  <2> HIDE DEF Dates
  <2> QED
    BY <2>2, <2>4 DEF IsLoop
<1>4. f = body(f)
  <2>1. ASSUME NEW i \in Nat PROVE f[i] = IF i = 0 THEN d ELSE nextDay(f[i - 1])
    <3>1. CASE i = 0
      BY <3>1, <1>3
    <3>2. CASE i # 0
      <4>1. i - 1 \in Nat /\ (i - 1) + 1 = i
        BY <3>2
      <4> QED
        BY <4>1, <3>2, <1>3
    <3> QED
      BY <3>1, <3>2
  <2> QED
    BY <2>1
<1>5. loop = body(loop)
  <2> HIDE DEF body
  <2> QED
    BY <1>4
<1>6. \A n \in Nat : addDays(d, n) = loop[n]
  BY DEF addDays
<1>7. loop[0] = d /\ \A n \in Nat : loop[n + 1] = nextDay(loop[n])
  <2> HIDE DEF loop
  <2> QED
    BY <1>5
<1>8. \A n \in Nat : IsDate(loop[n])
  <2> HIDE DEF loop
  <2> DEFINE Good == {n \in Nat : IsDate(loop[n])}
  <2>1. 0 \in Good
    BY <1>7
  <2>2. \A n \in Nat : n \in Good => n + 1 \in Good
    BY <1>7, NextDayIs
  <2>3. \A n \in Nat : n \in Good
    <3> HIDE DEF Good
    <3> QED
      BY <2>1, <2>2, Induction
  <2> QED
    BY <2>3
<1> QED
  <2> HIDE DEF loop
  <2> QED
    BY <1>6, <1>7, <1>8

\* addDays ends on the day that is n days later.
LEMMA AddDaysAdds ==
  ASSUME NEW d, IsDate(d), NEW n \in Nat
  PROVE  /\ IsDate(addDays(d, n)) /\ addDays(d, n).year >= d.year
         /\ DayNumber(d) \in Int
         /\ DayNumber(addDays(d, n)) = DayNumber(d) + n
<1> DEFINE Good == {i \in Nat : /\ addDays(d, i).year >= d.year
                                /\ DayNumber(addDays(d, i)) = DayNumber(d) + i}
<1>1. DayNumber(d) \in Int /\ d.year \in Nat
  BY NextDayIs DEF IsDate
<1>2. 0 \in Good
  BY <1>1, AddDaysIs
<1>3. \A i \in Nat : i \in Good => i + 1 \in Good
  <2> SUFFICES ASSUME NEW i \in Nat, i \in Good PROVE i + 1 \in Good
    OBVIOUS
  <2> DEFINE e == addDays(d, i)
  <2>1. IsDate(e) /\ addDays(d, i + 1) = nextDay(e)
    BY AddDaysIs
  <2>2. /\ nextDay(e).year >= e.year /\ DayNumber(nextDay(e)) = DayNumber(e) + 1
        /\ IsDate(nextDay(e))
    BY <2>1, NextDayIs
  <2>3. e.year \in Nat /\ nextDay(e).year \in Nat
    BY <2>1, <2>2 DEF IsDate
  <2>4. e.year >= d.year /\ DayNumber(e) = DayNumber(d) + i
    OBVIOUS
  <2> HIDE DEF e
  <2>5. nextDay(e).year >= d.year /\ DayNumber(nextDay(e)) = DayNumber(d) + (i + 1)
    BY <1>1, <2>2, <2>3, <2>4
  <2> QED
    BY <2>1, <2>5
<1>4. n \in Good
  <2> HIDE DEF Good
  <2> QED
    BY <1>2, <1>3, Induction
<1> QED
  BY <1>1, <1>4, AddDaysIs

\* updateDayOfYear counts the days of the year before the day.
LEMMA DayOfYearIs ==
  ASSUME NEW d, IsDate(d)
  PROVE  updateDayOfYear(d) = MonthStart[d.mon]
           + (IF d.mon > 2 /\ isLeapyear(d.year) THEN 1 ELSE 0) + d.day - 1
<1> DEFINE y == d.year
           L == IF isLeapyear(y) THEN 1 ELSE 0
           days(m) == MonthStart[m] + (IF m > 2 THEN L ELSE 0)
           body(t) == [m \in 1 .. 12 |-> IF m = 1 THEN 0 ELSE t[m - 1] + monthDays(y, m - 1)]
           before == CHOOSE t : t = body(t)
           g == [m \in 1 .. 12 |-> days(m)]
<1>1. y \in Nat /\ d.mon \in 1 .. 12
  BY DEF IsDate
<1>2. ASSUME NEW m \in 1 .. 12, m # 12 PROVE days(m + 1) = days(m) + monthDays(y, m)
  <2>1. monthDays(y, m) = IF m \in {1, 3, 5, 7, 8, 10, 12} THEN 31
                          ELSE IF m # 2 THEN 30 ELSE 28 + L
    BY <1>1, MonthDaysAre
  <2> QED
    BY <1>2, <2>1, MonthStartIs
<1>3. days(1) = 0
  BY MonthStartIs
<1> HIDE DEF days
<1>4. g = body(g)
  <2>1. ASSUME NEW m \in 1 .. 12
        PROVE  g[m] = IF m = 1 THEN 0 ELSE g[m - 1] + monthDays(y, m - 1)
    <3>1. CASE m = 1
      BY <3>1, <1>3
    <3>2. CASE m # 1
      <4>1. m - 1 \in 1 .. 12 /\ m - 1 # 12 /\ (m - 1) + 1 = m
        BY <3>2
      <4>2. days(m) = days(m - 1) + monthDays(y, m - 1)
        BY <4>1, <1>2
      <4> QED
        BY <3>2, <4>1, <4>2
    <3> QED
      BY <3>1, <3>2
  <2> QED
    BY <2>1
<1>5. before = body(before)
  <2> HIDE DEF body
  <2> QED
    BY <1>4
<1>6. updateDayOfYear(d) = before[d.mon] + d.day - 1
  BY DEF updateDayOfYear
<1>7. \A m \in 1 .. 12 : before[m] = days(m)
  <2> HIDE DEF before
  <2> DEFINE Good == {i \in Nat : i + 1 \in 1 .. 12 => before[i + 1] = days(i + 1)}
  <2>1. 0 \in Good
    BY <1>5, <1>3
  <2>2. \A i \in Nat : i \in Good => i + 1 \in Good
    <3> SUFFICES ASSUME NEW i \in Nat, i \in Good, (i + 1) + 1 \in 1 .. 12
                 PROVE  before[(i + 1) + 1] = days((i + 1) + 1)
      OBVIOUS
    <3>1. i + 1 \in 1 .. 12 /\ i + 1 # 12 /\ ((i + 1) + 1) - 1 = i + 1 /\ (i + 1) + 1 # 1
      OBVIOUS
    <3>2. before[(i + 1) + 1] = before[i + 1] + monthDays(y, i + 1)
      BY <1>5, <3>1
    <3> QED
      BY <1>2, <3>1, <3>2
  <2>3. \A i \in Nat : i \in Good
    <3> HIDE DEF Good
    <3> QED
      BY <2>1, <2>2, Induction
  <2>4. ASSUME NEW m \in 1 .. 12 PROVE before[m] = days(m)
    <3>1. m - 1 \in Good /\ (m - 1) + 1 = m
      BY <2>3
    <3> QED
      BY <3>1
  <2> QED
    BY <2>4
<1> QED
  BY <1>1, <1>6, <1>7 DEF days

-----------------------------------------------------------------------------
(* The time that timeGet computes.                                         *)

\* A legal time, of any year that follows one that timeSet takes.
IsTime(t) ==
  /\ t \in [year : Nat, mon : 1 .. 12, day : Nat, hour : 0 .. 23, min : 0 .. 59, sec : 0 .. 59]
  /\ t.year >= 1000 /\ t.day \in 1 .. monthDays(t.year, t.mon)

\* The provers take DayMinutes and DayLength as names of numbers.
LEMMA DayMinutesAre == DayMinutes \in Nat /\ DayMinutes = 24 * 60
  BY DEF DayMinutes

LEMMA DayLengthIs ==
  /\ DayLength \in Nat \ {0} /\ DayLength = 60 * DayMinutes
  /\ \A n \in Nat : DayLength * n = 60 * (DayMinutes * n) /\ DayMinutes * n = 60 * (24 * n)
<1>1. DayLength \in Nat \ {0} /\ DayLength = 60 * DayMinutes
  BY DayMinutesAre DEF DayLength
<1>2. ASSUME NEW n \in Nat
      PROVE  DayLength * n = 60 * (DayMinutes * n) /\ DayMinutes * n = 60 * (24 * n)
  <2>1. DayMinutes * n = 60 * (24 * n)
    BY DayMinutesAre
  <2>2. (60 * DayMinutes) * n = 60 * (DayMinutes * n)
    BY DayMinutesAre
  <2> QED
    BY <1>1, <2>1, <2>2
<1> QED
  BY <1>1, <1>2

\* Quotient and remainder of a number that is given by them.
LEMMA DivModAre ==
  ASSUME NEW D \in Nat \ {0}, NEW q \in Nat, NEW i \in 0 .. D - 1
  PROVE  (D * q + i) \div D = q /\ (D * q + i) % D = i
<1> DEFINE x == D * q + i
           d == x \div D
           r == x % D
<1>1. x \in Nat /\ D * q \in Nat
  OBVIOUS
<1> HIDE DEF x
<1>2. r \in 0 .. D - 1 /\ d \in Nat /\ x = D * d + r
  BY <1>1
<1>3. D * q + i = D * d + r
  BY <1>2 DEF x
<1> HIDE DEF d, r
<1>4. D * (q - d) = r - i
  BY <1>1, <1>2, <1>3
<1>5. q = d
  <2>1. CASE q > d
    <3>1. D * (q - d) >= D * 1
      BY <1>2, <2>1
    <3> QED
      BY <1>2, <1>4, <3>1
  <2>2. CASE q < d
    <3>1. D * (d - q) >= D * 1
      BY <1>2, <2>2
    <3>2. D * (d - q) = i - r
      BY <1>1, <1>2, <1>3
    <3> QED
      BY <1>2, <3>1, <3>2
  <2> QED
    BY <1>2, <2>1, <2>2
<1> QED
  BY <1>2, <1>3, <1>5 DEF d, r, x

DateOf(t) == [year |-> t.year, mon |-> t.mon, day |-> t.day]

LEMMA DateOfIs ==
  ASSUME NEW t, IsTime(t)
  PROVE  /\ IsDate(DateOf(t)) /\ DayNumber(t) = DayNumber(DateOf(t))
         /\ DayNumber(t) \in Int
         /\ SecondOfDay(t) \in 0 .. DayLength - 1
<1>1. IsDate(DateOf(t))
  BY DEF IsTime, IsDate, DateOf
<1>2. DayNumber(t) = DayNumber(DateOf(t))
  BY DEF DateOf, DayNumber
<1>3. SecondOfDay(t) \in 0 .. DayLength - 1
  <2> DEFINE h == t.hour
             m == t.min
             s == t.sec
  <2>1. h \in 0 .. 23 /\ m \in 0 .. 59 /\ s \in 0 .. 59
    BY DEF IsTime
  <2>2. SecondOfDay(t) = 60 * (60 * h + m) + s
    BY DEF SecondOfDay
  <2> HIDE DEF h, m, s
  <2> DEFINE q == 60 * h + m
  <2>3. q \in 0 .. DayMinutes - 1
    BY <2>1, DayMinutesAre
  <2> HIDE DEF q
  <2>4. 60 * q + s \in 0 .. DayLength - 1
    <3>1. DayLength = 60 * DayMinutes /\ DayMinutes \in Nat
      BY DayLengthIs, DayMinutesAre
    <3> QED
      BY <2>1, <2>3, <3>1
  <2> QED
    BY <2>2, <2>4 DEF q
<1> QED
  BY <1>1, <1>2, <1>3, NextDayIs

\* The seconds and the minutes with their carry.
LEMMA CarryOf60 ==
  ASSUME NEW b \in 0 .. 59, NEW n \in Nat
  PROVE  /\ (b + (n % 60)) % 60 \in 0 .. 59
         /\ (n \div 60) + (IF b + (n % 60) > 59 THEN 1 ELSE 0) \in Nat
         /\ 60 * ((n \div 60) + (IF b + (n % 60) > 59 THEN 1 ELSE 0)) + ((b + (n % 60)) % 60) = b + n
  OBVIOUS

\* The hours with theirs.
LEMMA CarryOf24 ==
  ASSUME NEW b \in 0 .. 23, NEW n \in Nat
  PROVE  /\ (b + (n % 24)) % 24 \in 0 .. 23
         /\ (n \div 24) + (IF b + (n % 24) > 23 THEN 1 ELSE 0) \in Nat
         /\ 24 * ((n \div 24) + (IF b + (n % 24) > 23 THEN 1 ELSE 0)) + ((b + (n % 24)) % 24) = b + n
  OBVIOUS

\* The seconds between two counts of ticks.
SecondsFrom(ticks, from) == ((ticks - from) % TICK_MOD) \div SYS_CLK_RATE

\* From a legal base, timeGet computes the time that is so many seconds later as the
\* tick and the moment are apart, a legal one.
LEMMA NowIs ==
  ASSUME NEW ticks, NEW from, IsTime(base), SecondsFrom(ticks, from) \in Nat
  PROVE  /\ IsTime(calculateNowTime(ticks, from))
         /\ <<DayNumber(calculateNowTime(ticks, from)), SecondOfDay(calculateNowTime(ticks, from))>>
              = After(base, SecondsFrom(ticks, from))
<1> DEFINE Seconds == SecondsFrom(ticks, from)
           now     == calculateNowTime(ticks, from)
           sec     == base.sec + (Seconds % 60)
           minutes == (Seconds \div 60) + (IF sec > 59 THEN 1 ELSE 0)
           min     == base.min + (minutes % 60)
           hours   == (minutes \div 60) + (IF min > 59 THEN 1 ELSE 0)
           hour    == base.hour + (hours % 24)
           days    == (hours \div 24) + (IF hour > 23 THEN 1 ELSE 0)
           date    == addDays(DateOf(base), days)
<1>1. /\ base.sec \in 0 .. 59 /\ base.min \in 0 .. 59 /\ base.hour \in 0 .. 23
      /\ base.year \in Nat /\ base.year >= 1000
  BY DEF IsTime
<1>2. now = [year |-> date.year, mon |-> date.mon, day |-> date.day,
             hour |-> hour % 24, min |-> min % 60, sec |-> sec % 60]
  BY DEF calculateNowTime, SecondsFrom, DateOf
<1>3. minutes \in Nat /\ sec % 60 \in 0 .. 59 /\ 60 * minutes + (sec % 60) = base.sec + Seconds
  BY <1>1, CarryOf60
<1> HIDE DEF sec, minutes
<1>4. hours \in Nat /\ min % 60 \in 0 .. 59 /\ 60 * hours + (min % 60) = base.min + minutes
  BY <1>1, <1>3, CarryOf60
<1> HIDE DEF min, hours
<1>5. days \in Nat /\ hour % 24 \in 0 .. 23 /\ 24 * days + (hour % 24) = base.hour + hours
  BY <1>1, <1>4, CarryOf24
<1> HIDE DEF hour, days
<1>6. /\ IsDate(DateOf(base)) /\ DayNumber(base) = DayNumber(DateOf(base))
      /\ DayNumber(base) \in Int /\ SecondOfDay(base) \in 0 .. DayLength - 1
  BY DateOfIs
<1>7. IsDate(date) /\ date.year >= base.year /\ DayNumber(date) = DayNumber(base) + days
  <2>1. IsDate(date) /\ date.year >= DateOf(base).year
        /\ DayNumber(date) = DayNumber(DateOf(base)) + days
    BY <1>5, <1>6, AddDaysAdds
  <2> QED
    BY <2>1, <1>6 DEF DateOf
<1> HIDE DEF date
<1>8. IsTime(now)
  BY <1>1, <1>2, <1>3, <1>4, <1>5, <1>7 DEF IsTime, IsDate
<1>9. DayNumber(now) = DayNumber(base) + days
  BY <1>2, <1>7 DEF DayNumber
<1>10. SecondOfDay(now) = 60 * (60 * (hour % 24) + (min % 60)) + (sec % 60)
  BY <1>2 DEF SecondOfDay
<1> DEFINE h == hour % 24
           m == min % 60
           s == sec % 60
           b == SecondOfDay(base)
<1>11. DayLength * days + SecondOfDay(now) = b + Seconds
  <2> DEFINE p == 60 * base.hour + base.min
             u == base.hour + hours
             x == 24 * days
             v == 60 * u + m
             w == 60 * h + m
  <2>1. b = 60 * p + base.sec
    BY DEF SecondOfDay
  <2>2. SecondOfDay(now) = 60 * w + s
    BY <1>10
  <2> HIDE DEF h, m, s, b, now
  <2>9. /\ s \in 0 .. 59 /\ 60 * minutes + s = base.sec + Seconds
        /\ m \in 0 .. 59 /\ 60 * hours + m = base.min + minutes
        /\ h \in 0 .. 23 /\ 24 * days + h = base.hour + hours
    BY <1>3, <1>4, <1>5 DEF h, m, s
  <2>3. p \in Nat /\ u \in Nat /\ u = x + h /\ x \in Nat
    BY <1>1, <1>4, <1>5, <2>9
  <2>4. p + minutes = v
    <3> DEFINE bh == base.hour
               bm == base.min
    <3>1. bh \in Nat /\ bm \in Nat /\ minutes \in Nat /\ hours \in Nat /\ m \in Nat
      BY <1>1, <1>3, <1>4, <2>9
    <3>2. 60 * hours + m = bm + minutes
      BY <2>9
    <3> HIDE DEF bh, bm
    <3>3. (60 * bh + bm) + minutes = 60 * (bh + hours) + m
      BY <3>1, <3>2
    <3> QED
      BY <3>3 DEF bh, bm
  <2>5. v = 60 * x + w /\ v \in Nat /\ w \in Nat
    <3> HIDE DEF x, u
    <3> QED
      BY <2>3, <2>9
  <2>6. DayLength * days = 60 * (DayMinutes * days) /\ DayMinutes * days = 60 * x
    BY <1>5, DayLengthIs
  <2> HIDE DEF p, u, x, v, w
  <2>7. b + Seconds = 60 * v + s
    BY <1>1, <1>3, <2>1, <2>3, <2>4, <2>9
  <2> DEFINE k == 60 * x
  <2>8. k \in Nat /\ v = k + w /\ DayLength * days = 60 * k
    BY <2>3, <2>5, <2>6
  <2> HIDE DEF k
  <2> QED
    BY <2>2, <2>5, <2>7, <2>8, <2>9
<1>12. SecondOfDay(now) \in 0 .. DayLength - 1
  BY <1>8, DateOfIs
<1>13. (b + Seconds) \div DayLength = days /\ (b + Seconds) % DayLength = SecondOfDay(now)
  <2> DEFINE r == SecondOfDay(now)
             z == b + Seconds
  <2>1. z = DayLength * days + r /\ r \in 0 .. DayLength - 1 /\ days \in Nat /\ z \in Nat
    BY <1>5, <1>6, <1>11, <1>12
  <2> HIDE DEF r, z
  <2>3. DayLength \in Nat \ {0}
    BY DayLengthIs
  <2>2. /\ (DayLength * days + r) \div DayLength = days
        /\ (DayLength * days + r) % DayLength = r
    BY <2>1, <2>3, DivModAre
  <2>4. z \div DayLength = days /\ z % DayLength = r
    BY <2>1, <2>2
  <2> QED
    BY <2>4 DEF r, z
<1> QED
  BY <1>8, <1>9, <1>13 DEF After

\* The weekday of a legal time is that of its day.
LEMMA WeekdayIs ==
  ASSUME NEW t, IsTime(t)
  PROVE  updateWeekday(t) = DayNumber(t) % 7
<1> DEFINE Y == t.year
           y == Y - 1
           M == MonthStart[t.mon]
           L == IF t.mon > 2 /\ isLeapyear(Y) THEN 1 ELSE 0
           n == LeapDays(y)
           d == t.day
<1>1. Y \in Nat /\ Y >= 1 /\ t.mon \in 1 .. 12 /\ d \in Nat /\ M \in Nat /\ y \in Nat /\ d >= 1
  BY MonthStartIs DEF IsTime
<1>2. n \in Int /\ LeapDays(Y) = n + (IF isLeapyear(Y) THEN 1 ELSE 0)
  BY <1>1, LeapDaysAre
<1>3. updateDayOfYear(t) = M + L + d - 1
  <2>1. updateDayOfYear(t) = updateDayOfYear(DateOf(t))
    BY DEF updateDayOfYear, DateOf
  <2>2. IsDate(DateOf(t))
    BY DateOfIs
  <2>3. updateDayOfYear(DateOf(t)) = MonthStart[DateOf(t).mon]
          + (IF DateOf(t).mon > 2 /\ isLeapyear(DateOf(t).year) THEN 1 ELSE 0) + DateOf(t).day - 1
    BY <2>2, DayOfYearIs
  <2> QED
    BY <2>1, <2>3 DEF DateOf
<1>4. DayNumber(t) = 365 * y + n + L + M + d
  <2>1. LeapDays(IF t.mon > 2 THEN Y ELSE y) = n + L
    BY <1>1, <1>2
  <2>2. DayNumber(t) = 365 * y + LeapDays(IF t.mon > 2 THEN Y ELSE y) + M + d
    BY DEF DayNumber
  <2> QED
    BY <1>1, <1>2, <2>1, <2>2
<1>5. updateWeekday(t) = (((Y + (y \div 400) - (y \div 100) + (y \div 4)) % 7) + (M + L + d - 1)) % 7
  BY <1>3 DEF updateWeekday
<1>6. Y + (y \div 400) - (y \div 100) + (y \div 4) = y + 1 + n
  BY <1>1 DEF LeapDays
<1>7. L \in Nat
  OBVIOUS
<1> HIDE DEF Y, y, M, L, n, d
<1>8. (((y + 1 + n) % 7) + (M + L + d - 1)) % 7 = (365 * y + n + L + M + d) % 7
  BY <1>1, <1>2, <1>7
<1> QED
  BY <1>4, <1>5, <1>6, <1>8

-----------------------------------------------------------------------------
(* The inductive invariant of the clock.                                   *)

Times == {t \in [year : Nat, mon : 1 .. 12, day : Nat,
                 hour : 0 .. 23, min : 0 .. 59, sec : 0 .. 59] : IsTime(t)}

Ticks == 0 .. TICK_MOD - 1

Elapsed == (tick - moment) % TICK_MOD
Seconds == SecondsFrom(tick, moment)

Setters ==
  [at : {"out", "tick", "moment", "new", "stored", "loaded"}, new : Times, loaded : Ticks]

TimeTyped ==
  /\ tick \in Ticks /\ moment \in Ticks
  /\ IsTime(base)
  /\ since \in [time : {base}, ticks : Nat]
  /\ setter \in [TimeTask -> Setters]
  /\ alone \in BOOLEAN

Loaded(t) == (tick - setter[t].loaded) % TICK_MOD

\* After a timeSet that no other one overlaps so far, at most its task is between the
\* stores; the tick that it has loaded, or the moment that it has stored, is no earlier
\* than the time that it set.
MomentIsLate ==
  alone => /\ \A t, u \in Storing : t = u
           /\ Storing = {} => Elapsed <= since.ticks
           /\ \A t \in TimeTask : setter[t].at = "loaded" => Loaded(t) <= since.ticks

TimeInv == TimeTyped /\ MomentIsLate

LEMMA TimesAre == \A t : t \in Times <=> IsTime(t)
  BY DEF Times, IsTime

Raw == [year : Int, mon : Int, day : Int, hour : Int, min : Int, sec : Int]

\* timeSet stores legal times only.
LEMMA CheckedIsTime ==
  ASSUME NEW t \in Raw, checkTime(t)
  PROVE  IsTime(t)
<1>1. t.year \in Nat /\ t.year >= 1000 /\ t.mon \in 1 .. 12
  BY DEF Raw, checkTime
<1>2. monthDays(t.year, t.mon) \in Nat
  BY <1>1, MonthDaysAre
<1>3. t.day \in 1 .. monthDays(t.year, t.mon) /\ t.day \in Nat
  BY <1>2 DEF checkTime
<1>4. t.hour \in 0 .. 23 /\ t.min \in 0 .. 59 /\ t.sec \in 0 .. 59
  BY DEF checkTime
<1> QED
  BY <1>1, <1>3, <1>4 DEF Raw, IsTime

LEMMA ElementIsRaw ==
  ASSUME NEW t \in Raw, NEW e \in DOMAIN Epoch, NEW n \in Int
  PROVE  [t EXCEPT ![e] = n] \in Raw
<1>1. e \in {"year", "mon", "day", "hour", "min", "sec"}
  BY DEF Epoch
<1> QED
  BY <1>1 DEF Raw

\* Ticks that pass make the difference of the counters no more than that longer.
LEMMA ElapsedGrows ==
  ASSUME NEW M \in Nat \ {0}, NEW a \in Nat, NEW b \in Nat, NEW n \in Nat
  PROVE  (((a + n) % M) - b) % M <= ((a - b) % M) + n
<1> DEFINE c == (a + n) % M
           d == (a - b) % M
           r == (c - b) % M
           p == (a + n) \div M
           q == (a - b) \div M
           k == (c - b) \div M
<1>1. c \in 0 .. M - 1 /\ p \in Int /\ a + n = M * p + c
  OBVIOUS
<1>2. d \in 0 .. M - 1 /\ q \in Int /\ a - b = M * q + d
  OBVIOUS
<1> HIDE DEF c, p
<1>3. r \in 0 .. M - 1 /\ k \in Int /\ c - b = M * k + r
  BY <1>1
<1> HIDE DEF d, q, r, k
<1> DEFINE j == q - p - k
<1>4. j \in Int /\ r = M * j + (d + n)
  <2>1. M * (q - p - k) = M * q - M * p - M * k
    BY <1>1, <1>2, <1>3
  <2>2. M * p \in Int /\ M * q \in Int /\ M * k \in Int
    BY <1>1, <1>2, <1>3
  <2> QED
    BY <1>1, <1>2, <1>3, <2>1, <2>2
<1> HIDE DEF j
<1>5. r <= d + n
  <2>1. CASE j <= 0
    <3>1. M * j <= 0
      BY <1>4, <2>1
    <3> QED
      BY <1>2, <1>3, <1>4, <3>1
  <2>2. CASE j >= 1
    <3>1. M * j >= M * 1
      BY <1>4, <2>2
    <3> QED
      BY <1>2, <1>3, <1>4, <3>1
  <2> QED
    BY <1>4, <2>1, <2>2
<1> QED
  BY <1>5 DEF c, d, r

LEMMA ModIn ==
  ASSUME NEW M \in Nat \ {0}, NEW a \in Int
  PROVE  a % M \in 0 .. M - 1
  OBVIOUS

LEMMA TicksAre == TICK_MOD \in Nat \ {0} /\ SYS_CLK_RATE \in Nat \ {0}
  BY TimeAssumption

\* A quotient is a natural number, and no less than that of a smaller number.
LEMMA DivIs ==
  ASSUME NEW R \in Nat \ {0}, NEW a \in Nat, NEW b \in Nat, a <= b
  PROVE  a \div R \in Nat /\ b \div R \in Nat /\ a \div R <= b \div R
<1> DEFINE p == a \div R
           q == b \div R
           r == a % R
           s == b % R
<1>1. p \in Nat /\ r \in 0 .. R - 1 /\ a = R * p + r
  OBVIOUS
<1>2. q \in Nat /\ s \in 0 .. R - 1 /\ b = R * q + s
  OBVIOUS
<1> HIDE DEF p, q, r, s
<1>3. p <= q
  <2> SUFFICES ASSUME p > q PROVE FALSE
    BY <1>1, <1>2
  <2>1. R * (p - q) >= R * 1
    BY <1>1, <1>2
  <2>2. R * (p - q) = R * p - R * q /\ R * p \in Int /\ R * q \in Int
    BY <1>1, <1>2
  <2> QED
    BY <1>1, <1>2, <2>1, <2>2
<1> QED
  BY <1>1, <1>2, <1>3 DEF p, q

\* Two counts of ticks, and how far they are apart.
LEMMA ApartIs ==
  ASSUME NEW a \in Ticks, NEW b \in Ticks
  PROVE  /\ (a - b) % TICK_MOD \in Ticks /\ (a - b) % TICK_MOD \in Nat
         /\ SecondsFrom(a, b) \in Nat
<1> DEFINE d == (a - b) % TICK_MOD
<1>1. d \in 0 .. TICK_MOD - 1
  BY ModIn, TicksAre DEF Ticks
<1>2. d \in Nat
  BY <1>1, TicksAre
<1> HIDE DEF d
<1>3. d \div SYS_CLK_RATE \in Nat
  BY <1>2, DivIs, TicksAre
<1> QED
  BY <1>1, <1>2, <1>3 DEF d, Ticks, SecondsFrom

LEMMA SecondsAre ==
  ASSUME TimeTyped
  PROVE  Elapsed \in Nat /\ Seconds \in Nat /\ Seconds = Elapsed \div SYS_CLK_RATE
  BY ApartIs DEF TimeTyped, Elapsed, Seconds, SecondsFrom

\* Every time that timeGet computes is a legal one, whatever it has read.
LEMMA GotIsTime ==
  ASSUME TimeTyped, NEW t \in TimeTask
  PROVE  IsTime(Got(t))
<1>1. setter[t].loaded \in Ticks /\ tick \in Ticks /\ moment \in Ticks /\ IsTime(base)
  BY DEF TimeTyped, Setters
<1>2. ASSUME NEW a \in Ticks, NEW b \in Ticks PROVE IsTime(calculateNowTime(a, b))
  BY <1>1, ApartIs, NowIs
<1> QED
  BY <1>1, <1>2 DEF Got

LEMMA EpochIsTime == IsTime(Epoch) /\ Outside \in Setters /\ Outside.at = "out"
<1>1. monthDays(1970, 1) = 31
  BY DEF monthDays
<1>2. IsTime(Epoch)
  BY <1>1 DEF Epoch, IsTime
<1>3. 0 \in Ticks
  BY TicksAre DEF Ticks
<1> QED
  BY <1>2, <1>3, TimesAre DEF Outside, Setters

LEMMA NoTicks == ASSUME NEW a \in Ticks PROVE (a - a) % TICK_MOD = 0
  BY TicksAre DEF Ticks

LEMMA TimeInitHolds == timeInit => TimeInv
<1> SUFFICES ASSUME timeInit PROVE TimeInv
  OBVIOUS
<1>1. START_TICK \in Ticks
  BY TimeAssumption DEF Ticks
<1>2. TimeTyped
  BY <1>1, EpochIsTime DEF timeInit, TimeTyped
<1>3. \A t \in TimeTask : setter[t].at = "out"
  BY EpochIsTime DEF timeInit
<1>4. Elapsed <= since.ticks
  BY <1>1, NoTicks DEF timeInit, Elapsed
<1> QED
  BY <1>2, <1>3, <1>4 DEF TimeInv, MomentIsLate, Storing

\* A step of a task that is not between its two stores, and does not enter there.
LEMMA OutsideKeeps ==
  ASSUME TimeInv, NEW t \in TimeTask, NEW v \in Setters,
         setter[t].at \notin {"stored", "loaded"}, v.at \notin {"stored", "loaded"},
         setter' = [setter EXCEPT ![t] = v],
         UNCHANGED <<tick, base, moment, since, alone>>
  PROVE  TimeInv'
<1>1. TimeTyped'
  BY DEF TimeInv, TimeTyped
<1>2. \A u \in TimeTask : setter'[u] = IF u = t THEN v ELSE setter[u]
  BY DEF TimeInv, TimeTyped
<1>3. Storing' = Storing
  BY <1>2 DEF Storing
<1>4. \A u \in TimeTask : setter'[u].at = "loaded" => setter[u].at = "loaded" /\ Loaded(u)' = Loaded(u)
  BY <1>2 DEF Loaded
<1>5. Elapsed' = Elapsed
  BY DEF Elapsed
<1> QED
  BY <1>1, <1>3, <1>4, <1>5 DEF TimeInv, MomentIsLate

LEMMA CallKeeps ==
  ASSUME TimeInv, NEW t \in TimeTask, NEW new \in Raw, CallTimeSet(t, new)
  PROVE  TimeInv'
<1> DEFINE v == [setter[t] EXCEPT !.at = "new", !.new = new]
<1>1. new \in Times
  BY CheckedIsTime, TimesAre DEF CallTimeSet
<1>2. v \in Setters /\ v.at = "new"
  BY <1>1 DEF TimeInv, TimeTyped, Setters
<1>3. setter[t].at = "out" /\ setter' = [setter EXCEPT ![t] = v]
  BY EpochIsTime DEF CallTimeSet
<1> HIDE DEF v
<1> QED
  BY <1>2, <1>3, OutsideKeeps DEF CallTimeSet

LEMMA GetKeeps ==
  ASSUME TimeInv, NEW t \in TimeTask, timeGet(t)
  PROVE  TimeInv'
<1>1. setter[t].at = "out" /\ setter[t] \in Setters /\ tick \in Ticks /\ moment \in Ticks
  BY EpochIsTime DEF timeGet, TimeInv, TimeTyped
<1>2. PICK a \in {"tick", "moment"}, n \in Ticks :
        setter' = [setter EXCEPT ![t] = [@ EXCEPT !.at = a, !.loaded = n]]
  BY <1>1 DEF timeGet
<1> DEFINE v == [setter[t] EXCEPT !.at = a, !.loaded = n]
<1>3. v \in Setters /\ v.at = a
  BY <1>1 DEF Setters
<1>4. setter' = [setter EXCEPT ![t] = v]
  BY <1>2
<1> HIDE DEF v
<1> QED
  BY <1>1, <1>3, <1>4, OutsideKeeps DEF timeGet

LEMMA ElementKeeps ==
  ASSUME TimeInv, NEW t \in TimeTask, NEW s \in SetTimes, NEW e \in DOMAIN Epoch,
         setElement(t, e, s[e])
  PROVE  TimeInv'
<1> DEFINE new == [Got(t) EXCEPT ![e] = s[e]]
           v == IF checkTime(new) THEN [at |-> "new", new |-> new, loaded |-> 0] ELSE Outside
<1>1. IsTime(Got(t))
  BY GotIsTime DEF TimeInv
<1>2. Got(t) \in Raw
  BY <1>1 DEF IsTime, Raw
<1>3. s[e] \in Int
  <2>1. s \in Raw /\ e \in {"year", "mon", "day", "hour", "min", "sec"}
    BY TimeAssumption DEF Raw, Epoch
  <2> QED
    BY <2>1 DEF Raw
<1>4. new \in Raw
  BY <1>2, <1>3, ElementIsRaw
<1>5. setter' = [setter EXCEPT ![t] = v] /\ setter[t].at \in {"tick", "moment"}
  BY DEF setElement
<1> HIDE DEF new
<1>6. v \in Setters /\ v.at \in {"new", "out"}
  <2>1. CASE checkTime(new)
    <3>1. new \in Times /\ 0 \in Ticks
      BY <1>4, <2>1, CheckedIsTime, TimesAre, TicksAre DEF Ticks
    <3> QED
      BY <2>1, <3>1 DEF Setters
  <2>2. CASE ~ checkTime(new)
    BY <2>2, EpochIsTime
  <2> QED
    BY <2>1, <2>2
<1> HIDE DEF v
<1> QED
  BY <1>5, <1>6, OutsideKeeps DEF setElement

LEMMA StoreKeeps ==
  ASSUME TimeInv, NEW t \in TimeTask, timeSet(t)
  PROVE  TimeInv'
<1>1. setter[t].new \in Times /\ setter[t] \in Setters
  BY DEF TimeInv, TimeTyped, Setters
<1>2. /\ base' = setter[t].new /\ setter' = [setter EXCEPT ![t].at = "stored"]
      /\ since' = [time |-> base', ticks |-> 0] /\ UNCHANGED <<tick, moment>>
      /\ alone' = (Storing = {})
  BY DEF timeSet
<1>3. IsTime(base')
  BY <1>1, <1>2, TimesAre
<1>4. /\ setter' \in [TimeTask -> Setters]
      /\ \A u \in TimeTask : setter'[u].at = IF u = t THEN "stored" ELSE setter[u].at
  BY <1>1, <1>2 DEF TimeInv, TimeTyped, Setters
<1>5. since' \in [time : {base'}, ticks : Nat]
  BY <1>2
<1>6. TimeTyped'
  BY <1>2, <1>3, <1>4, <1>5 DEF TimeInv, TimeTyped
<1>7. ASSUME alone' PROVE Storing' = {t} /\ \A u \in TimeTask : setter'[u].at # "loaded"
  <2>1. \A u \in TimeTask : setter[u].at \notin {"stored", "loaded"}
    BY <1>2, <1>7 DEF Storing
  <2> QED
    BY <1>4, <2>1 DEF Storing
<1> QED
  BY <1>6, <1>7 DEF TimeInv, MomentIsLate

LEMMA TickLoadKeeps ==
  ASSUME TimeInv, NEW t \in TimeTask, timeSetLoad(t)
  PROVE  TimeInv'
<1>1. setter[t].at = "stored" /\ setter[t] \in Setters /\ tick \in Ticks
  BY DEF timeSetLoad, TimeInv, TimeTyped
<1>2. /\ setter' = [setter EXCEPT ![t] = [@ EXCEPT !.at = "loaded", !.loaded = tick]]
      /\ UNCHANGED <<tick, base, moment, since, alone>>
  BY DEF timeSetLoad
<1> DEFINE v == [setter[t] EXCEPT !.at = "loaded", !.loaded = tick]
<1>3. v \in Setters /\ v.at = "loaded" /\ v.loaded = tick
  BY <1>1 DEF Setters
<1>4. setter' = [setter EXCEPT ![t] = v]
  BY <1>2
<1> HIDE DEF v
<1>5. /\ setter' \in [TimeTask -> Setters]
      /\ \A u \in TimeTask : setter'[u] = IF u = t THEN v ELSE setter[u]
  BY <1>3, <1>4 DEF TimeInv, TimeTyped
<1>6. TimeTyped'
  BY <1>2, <1>5 DEF TimeInv, TimeTyped
<1>7. Storing' = Storing
  BY <1>1, <1>3, <1>5 DEF Storing
<1>8. Loaded(t)' = 0 /\ \A u \in TimeTask : u # t => Loaded(u)' = Loaded(u)
  BY <1>1, <1>2, <1>3, <1>5, NoTicks DEF Loaded
<1>9. since.ticks \in Nat /\ 0 <= since.ticks
  BY DEF TimeInv, TimeTyped
<1> QED
  BY <1>2, <1>5, <1>6, <1>7, <1>8, <1>9 DEF TimeInv, MomentIsLate, Elapsed

LEMMA MomentKeeps ==
  ASSUME TimeInv, NEW t \in TimeTask, timeSetMoment(t)
  PROVE  TimeInv'
<1>1. /\ setter[t].at = "loaded" /\ moment' = setter[t].loaded
      /\ UNCHANGED <<tick, base, since, alone>> /\ setter' = [setter EXCEPT ![t] = Outside]
  BY DEF timeSetMoment
<1>2. /\ setter' \in [TimeTask -> Setters]
      /\ \A u \in TimeTask : setter'[u] = IF u = t THEN Outside ELSE setter[u]
  BY <1>1, EpochIsTime DEF TimeInv, TimeTyped
<1>3. setter[t].loaded \in Ticks
  BY DEF TimeInv, TimeTyped, Setters
<1>4. TimeTyped'
  BY <1>1, <1>2, <1>3 DEF TimeInv, TimeTyped
<1>5. ASSUME alone' PROVE Storing' = {} /\ Elapsed' <= since'.ticks
  <2>1. \A u \in Storing : u = t
    BY <1>1, <1>5 DEF TimeInv, MomentIsLate, Storing
  <2>2. Storing' = {}
    BY <1>2, <2>1, EpochIsTime DEF Storing
  <2>3. Elapsed' = Loaded(t)
    BY <1>1 DEF Elapsed, Loaded
  <2> QED
    BY <1>1, <1>5, <2>2, <2>3 DEF TimeInv, MomentIsLate
<1>6. alone' => \A u \in TimeTask : setter'[u].at # "loaded"
  BY <1>5 DEF Storing
<1> QED
  BY <1>4, <1>5, <1>6 DEF TimeInv, MomentIsLate

LEMMA PassKeeps ==
  ASSUME TimeInv, NEW n \in Jumps, Pass(n)
  PROVE  TimeInv'
<1>1. n \in Nat /\ TICK_MOD \in Nat \ {0}
  BY TimeAssumption
<1>2. /\ tick' = (tick + n) % TICK_MOD /\ since' = [since EXCEPT !.ticks = @ + n]
      /\ UNCHANGED <<base, moment, setter, alone>>
  BY DEF Pass
<1>3. tick \in Nat /\ since.ticks \in Nat /\ moment \in Ticks
  BY TicksAre DEF TimeInv, TimeTyped, Ticks
<1>4. since' \in [time : {base'}, ticks : Nat] /\ since'.ticks = since.ticks + n
  BY <1>1, <1>2 DEF TimeInv, TimeTyped
<1>5. tick' \in Ticks
  BY <1>1, <1>2, <1>3, ModIn DEF Ticks
<1>6. TimeTyped'
  BY <1>2, <1>4, <1>5 DEF TimeInv, TimeTyped
<1>7. ASSUME NEW b \in Ticks, (tick - b) % TICK_MOD <= since.ticks
      PROVE  (tick' - b) % TICK_MOD <= since'.ticks
  <2>1. b \in Nat
    BY TicksAre DEF Ticks
  <2>2. (tick' - b) % TICK_MOD <= ((tick - b) % TICK_MOD) + n
    BY <1>1, <1>2, <1>3, <2>1, ElapsedGrows
  <2>3. tick \in Ticks
    BY DEF TimeInv, TimeTyped
  <2>4. (tick - b) % TICK_MOD \in Nat /\ (tick' - b) % TICK_MOD \in Nat
    BY <1>5, <2>3, ApartIs
  <2> QED
    BY <1>1, <1>3, <1>4, <1>7, <2>2, <2>4
<1>8. Elapsed <= since.ticks => Elapsed' <= since'.ticks
  BY <1>2, <1>3, <1>7 DEF Elapsed
<1>9. \A t \in TimeTask : Loaded(t) <= since.ticks => Loaded(t)' <= since'.ticks
  <2>1. \A t \in TimeTask : setter[t].loaded \in Ticks /\ setter' = setter
    BY <1>2 DEF TimeInv, TimeTyped, Setters
  <2> QED
    BY <1>7, <2>1 DEF Loaded
<1>10. Storing' = Storing /\ alone' = alone /\ setter' = setter
  BY <1>2 DEF Storing
<1> QED
  BY <1>6, <1>8, <1>9, <1>10 DEF TimeInv, MomentIsLate

LEMMA TimeStepKeeps == TimeInv /\ [timeNext]_timeVars => TimeInv'
<1> SUFFICES ASSUME TimeInv, [timeNext]_timeVars PROVE TimeInv'
  OBVIOUS
<1>1. ASSUME NEW t \in TimeTask, NEW new \in SetTimes, CallTimeSet(t, new) PROVE TimeInv'
  <2>1. new \in Raw
    BY TimeAssumption DEF Raw
  <2> QED
    BY <1>1, <2>1, CallKeeps
<1>2. ASSUME NEW t \in TimeTask, NEW s \in SetTimes, NEW e \in DOMAIN Epoch,
             setElement(t, e, s[e])
      PROVE  TimeInv'
  BY <1>2, ElementKeeps
<1>3. ASSUME NEW t \in TimeTask, timeGet(t) PROVE TimeInv'
  BY <1>3, GetKeeps
<1>4. ASSUME NEW t \in TimeTask, timeSet(t) PROVE TimeInv'
  BY <1>4, StoreKeeps
<1>5. ASSUME NEW t \in TimeTask, timeSetLoad(t) PROVE TimeInv'
  BY <1>5, TickLoadKeeps
<1>6. ASSUME NEW t \in TimeTask, timeSetMoment(t) PROVE TimeInv'
  BY <1>6, MomentKeeps
<1>7. ASSUME NEW n \in Jumps, Pass(n) PROVE TimeInv'
  BY <1>7, PassKeeps
<1>8. CASE UNCHANGED timeVars
  BY <1>8 DEF timeVars, TimeInv, TimeTyped, MomentIsLate, Elapsed, Loaded, Storing
<1> QED
  BY <1>1, <1>2, <1>3, <1>4, <1>5, <1>6, <1>7, <1>8 DEF timeNext

LEMMA TimeInvHolds == timeSpec => []TimeInv
<1> QED
  BY TimeInitHolds, TimeStepKeeps, PTL DEF timeSpec

-----------------------------------------------------------------------------

\* A timeGet that nothing disturbs adds the seconds since the moment to the base, for
\* every clock rate, every number of ticks and every legal time that is set, over the
\* ends of months, leap Februaries and years and the wrap-around of the ticks.
THEOREM NowIsBasePlusTicksHolds == timeSpec => []NowIsBasePlusTicks
<1>1. TimeInv => NowIsBasePlusTicks
  <2> SUFFICES ASSUME TimeInv PROVE NowIsBasePlusTicks
    OBVIOUS
  <2> DEFINE now == calculateNowTime(tick, moment)
  <2>1. IsTime(now) /\ <<DayNumber(now), SecondOfDay(now)>> = After(base, Seconds)
    <3>1. IsTime(base) /\ Seconds \in Nat
      BY SecondsAre DEF TimeInv, TimeTyped
    <3> QED
      BY <3>1, NowIs DEF Seconds
  <2>2. updateWeekday(now) = DayNumber(now) % 7
    BY <2>1, WeekdayIs
  <2> HIDE DEF now
  <2>3. now.year <= 9999 => checkTime(now)
    <3>1. now.year \in Nat /\ now.year >= 1000
      BY <2>1 DEF IsTime
    <3>2. /\ now.sec \in 0 .. 59 /\ now.min \in 0 .. 59 /\ now.hour \in 0 .. 23
          /\ now.mon \in 1 .. 12 /\ now.day \in 1 .. monthDays(now.year, now.mon)
      BY <2>1 DEF IsTime
    <3> QED
      BY <3>1, <3>2 DEF checkTime
  <2> QED
    BY <2>1, <2>2, <2>3 DEF NowIsBasePlusTicks, Seconds, SecondsFrom, now
<1> QED
  BY <1>1, TimeInvHolds, PTL

\* A later second is no earlier time.
LEMMA AfterGrows ==
  ASSUME NEW t, IsTime(t), NEW a \in Nat, NEW b \in Nat, a <= b
  PROVE  Le(After(t, a), After(t, b))
<1> DEFINE d == DayNumber(t)
           s == SecondOfDay(t)
           x == s + a
           y == s + b
           D == DayLength
<1>1. d \in Int /\ s \in Nat /\ D \in Nat \ {0}
  BY DateOfIs, DayLengthIs
<1>2. After(t, a) = <<d + (x \div D), x % D>> /\ After(t, b) = <<d + (y \div D), y % D>>
  BY DEF After
<1> HIDE DEF d, s, D
<1>3. x \in Nat /\ y \in Nat /\ x <= y
  BY <1>1
<1> HIDE DEF x, y
<1> DEFINE p == x \div D
           q == y \div D
           i == x % D
           j == y % D
<1>4. p \in Nat /\ q \in Nat /\ p <= q
  BY <1>1, <1>3, DivIs
<1>5. i \in 0 .. D - 1 /\ x = D * p + i /\ j \in 0 .. D - 1 /\ y = D * q + j
  BY <1>1, <1>3
<1> HIDE DEF p, q, i, j
<1>6. d + p < d + q \/ (d + p = d + q /\ i <= j)
  <2>1. CASE p < q
    BY <2>1, <1>1, <1>4
  <2>2. CASE p = q
    <3>1. D * p \in Int
      BY <1>1, <1>4
    <3>2. x = D * p + i /\ y = D * p + j
      BY <2>2, <1>5
    <3> QED
      BY <2>2, <3>1, <3>2, <1>1, <1>3, <1>4, <1>5
  <2> QED
    BY <1>4, <2>1, <2>2
<1>7. After(t, a) = <<d + p, i>> /\ After(t, b) = <<d + q, j>>
  BY <1>2 DEF p, q, i, j
<1> QED
  BY <1>6, <1>7 DEF Le

\* After a call of timeSet that began when no other one was between its two stores, and
\* that no other one came into, the clock is not ahead of the time that was set and the
\* ticks since then, however the load and the store of the tick come apart and however
\* the ticks wrap around.
THEOREM ClockNeverFastHolds == timeSpec => []ClockNeverFast
<1>1. TimeInv => ClockNeverFast
  <2> SUFFICES ASSUME TimeInv, Storing = {}, alone
               PROVE  Le(<<DayNumber(calculateNowTime(tick, moment)),
                           SecondOfDay(calculateNowTime(tick, moment))>>,
                         After(since.time, since.ticks \div SYS_CLK_RATE))
    BY DEF ClockNeverFast
  <2>1. Elapsed <= since.ticks /\ since.ticks \in Nat /\ since.time = base /\ IsTime(base)
    BY DEF TimeInv, TimeTyped, MomentIsLate
  <2>2. Seconds \in Nat /\ Elapsed \in Nat /\ Seconds = Elapsed \div SYS_CLK_RATE
    BY SecondsAre DEF TimeInv
  <2>3. since.ticks \div SYS_CLK_RATE \in Nat /\ Seconds <= since.ticks \div SYS_CLK_RATE
    BY <2>1, <2>2, DivIs, TicksAre
  <2>4. <<DayNumber(calculateNowTime(tick, moment)), SecondOfDay(calculateNowTime(tick, moment))>>
          = After(base, Seconds)
    BY <2>1, <2>2, NowIs DEF Seconds
  <2>5. Le(After(base, Seconds), After(base, since.ticks \div SYS_CLK_RATE))
    BY <2>1, <2>2, <2>3, AfterGrows
  <2> QED
    BY <2>1, <2>4, <2>5
<1> QED
  BY <1>1, TimeInvHolds, PTL

=============================================================================
