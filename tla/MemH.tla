-------------------------------- MODULE MemH --------------------------------
(***************************************************************************)
(* memH.c: the heap.  Blocks follow one another in memory, each with a     *)
(* head in front of the bytes it holds; the heads form a chain in address  *)
(* order.  malloc takes the first block that is large enough and splits    *)
(* it, free merges a block with its free neighbours.  Each of the two is   *)
(* one critical section; realloc is a malloc, a copy and a free.           *)
(*                                                                         *)
(* Addresses are bytes from heap_start.                                    *)
(***************************************************************************)
EXTENDS Integers, FiniteSets, Functions

CONSTANTS
  HeapTask,               \* the tasks that use the heap
  HEAP_SIZE,          \* CONFIG_HEAP_SIZE
  HEAD,               \* sizeof (_BLOCK_HEAD): 20
  HEAP_ALIGN,              \* DEFAULT_ALIGN_BYTE: 4
  WORD,               \* the sizes are counted modulo WORD: 2^32
  Requests,           \* the numbers of bytes that the tasks ask for
  Foreign             \* the addresses that they free and malloc did not return

ASSUME MemHAssumption ==
  /\ HEAP_ALIGN \in Nat \ {0} /\ HEAD \in Nat \ {0} /\ HEAP_SIZE \in Nat /\ WORD \in Nat
  /\ HEAD % HEAP_ALIGN = 0 /\ HEAP_SIZE % HEAP_ALIGN = 0
  /\ HEAD + HEAP_ALIGN <= HEAP_SIZE /\ 2 * HEAP_SIZE <= WORD
  /\ Requests \subseteq 0 .. WORD - 1
  /\ Foreign \subseteq Int
  /\ \A ptr \in Foreign : ptr % HEAP_ALIGN # 0 \/ ptr \notin HEAD .. HEAP_SIZE - 1

NoBlock == -1

VARIABLES
  blk,    \* the block heads by address
  info,   \* the counters of _G_sys_heap
  held,   \* what the tasks hold: the address malloc returned, the bytes asked for
  call    \* the task's call: none, a realloc that has still to copy and free, or
          \* a malloc that found no block and loops forever

heapVars == <<blk, info, held, call>>

Blocks == DOMAIN blk

BLOCK_HEAD == [prev : Int, next : Int, size : Nat, is_alloced : BOOLEAN]

NoCall == [op |-> "none", old |-> NoBlock, n |-> 0]

\* heap_init
heapInit ==
  /\ blk = [a \in {0} |-> [prev |-> NoBlock, next |-> NoBlock, size |-> HEAP_SIZE - HEAD,
                           is_alloced |-> FALSE]]
  /\ info = [block_num |-> 1, alloced_num |-> 0, alloced_size |-> 0,
             free_num |-> 1, free_size |-> HEAP_SIZE - HEAD]
  /\ held = {}
  /\ call = [t \in HeapTask |-> NoCall]

-----------------------------------------------------------------------------
(* malloc                                                                  *)

\* Rounded up to a multiple of HEAP_ALIGN.
aligned(n) == LET m == (n + HEAP_ALIGN - 1) % WORD IN m - (m % HEAP_ALIGN)

Fits(n) == {p \in Blocks : ~ blk[p].is_alloced /\ blk[p].size >= aligned(n)}

\* The chain is in address order.
first_fit(n) == CHOOSE p \in Fits(n) : \A q \in Fits(n) : p <= q

splits(p, nbytes) == blk[p].size - (nbytes + HEAD) >= HEAP_ALIGN

\* p keeps nbytes, a new block gets the rest.
split(p, nbytes) ==
  LET new_p == p + HEAD + nbytes
      next  == blk[p].next
  IN  [a \in Blocks \cup {new_p} |->
         CASE a = new_p -> [prev |-> p, next |-> next,
                            size |-> blk[p].size - (nbytes + HEAD),
                            is_alloced |-> FALSE]
           [] a = p     -> [blk[p] EXCEPT !.next = new_p, !.size = nbytes,
                                          !.is_alloced = TRUE]
           [] a = next  -> [blk[a] EXCEPT !.prev = new_p]
           [] OTHER     -> blk[a]]

take_block(p, nbytes) ==
  IF splits(p, nbytes)
  THEN /\ blk' = split(p, nbytes)
       /\ info' = [info EXCEPT !.block_num = @ + 1,
                               !.free_size = @ - (nbytes + HEAD),
                               !.alloced_num = @ + 1,
                               !.alloced_size = @ + nbytes]
  ELSE /\ blk' = [blk EXCEPT ![p].is_alloced = TRUE]
       /\ info' = [info EXCEPT !.free_num = @ - 1,
                               !.free_size = @ - blk[p].size,
                               !.alloced_num = @ + 1,
                               !.alloced_size = @ + blk[p].size]

\* malloc, and calloc: the caller holds n bytes, or its task is lost in FOREVER.
malloc(t, n) ==
  /\ call[t] = NoCall
  /\ \/ /\ Fits(n) # {}
        /\ take_block(first_fit(n), aligned(n))
        /\ held' = held \cup {[ptr |-> first_fit(n) + HEAD, n |-> n]}
        /\ UNCHANGED call
     \/ /\ Fits(n) = {}
        /\ call' = [call EXCEPT ![t].op = "FOREVER"]
        /\ UNCHANGED <<blk, info, held>>

-----------------------------------------------------------------------------
(* free                                                                    *)

CAN_MERGE(a) == a # NoBlock /\ ~ blk[a].is_alloced

\* Mutant: the block after the merged ones keeps its prev pointer.
relinked_not(f, a, prev) == f

\* The block at a, if there is one, gets a new predecessor.
relinked(f, a, prev) ==
  [b \in DOMAIN f |-> IF b = a THEN [f[b] EXCEPT !.prev = prev] ELSE f[b]]

\* The chain after the block p was freed.
freed(p) ==
  LET b    == blk[p]
      n    == b.next
      drop(S) == [a \in Blocks \ S |-> blk[a]]
      keep == [b EXCEPT !.is_alloced = FALSE]
  IN  CASE ~ CAN_MERGE(b.prev) /\ ~ CAN_MERGE(n) -> [blk EXCEPT ![p] = keep]
        [] CAN_MERGE(b.prev) /\ ~ CAN_MERGE(n) ->
             relinked([drop({p}) EXCEPT ![b.prev].next = n,
                                        ![b.prev].size = @ + b.size + HEAD],
                      n, b.prev)
        [] ~ CAN_MERGE(b.prev) /\ CAN_MERGE(n) ->
             relinked([drop({n}) EXCEPT
                         ![p] = [keep EXCEPT !.next = blk[n].next,
                                             !.size = @ + blk[n].size + HEAD]],
                      blk[n].next, p)
        [] OTHER ->
             relinked([drop({p, n}) EXCEPT
                         ![b.prev].next = blk[n].next,
                         ![b.prev].size = @ + b.size + blk[n].size + 2 * HEAD],
                      blk[n].next, b.prev)

\* The counters: m heads became bytes of a free block.
counted(p) ==
  LET b == blk[p]
      m == Cardinality({a \in {b.prev, b.next} : CAN_MERGE(a)})
  IN  [info EXCEPT !.alloced_size = (@ - b.size) % WORD,
                   !.alloced_num = (@ - 1) % WORD,
                   !.free_size = @ + b.size + m * HEAD,
                   !.block_num = @ - m, !.free_num = @ + 1 - m]

\* Mutant: free takes an address inside a block for the block.
free_block_inside(ptr) ==
  LET In == {p \in Blocks : ptr \in p + HEAD .. p + HEAD + blk[p].size - 1}
  IN  IF In # {}
      THEN \E p \in In : blk' = freed(p) /\ info' = counted(p)
      ELSE UNCHANGED <<blk, info>>

\* An address outside the heap, or one with no block head in front of it, is
\* ignored.
free_block(ptr) ==
  IF ptr \in 0 .. HEAP_SIZE - 1 /\ ptr - HEAD \in Blocks
  THEN blk' = freed(ptr - HEAD) /\ info' = counted(ptr - HEAD)
  ELSE UNCHANGED <<blk, info>>

\* A task gives back what it, or another task, got.
free(t, h) ==
  /\ call[t] = NoCall
  /\ free_block(h.ptr)
  /\ held' = held \ {h}
  /\ UNCHANGED call

free_foreign(t, ptr) ==
  /\ call[t] = NoCall
  /\ \A h \in held : h.ptr # ptr
  /\ free_block(ptr)
  /\ UNCHANGED <<held, call>>

-----------------------------------------------------------------------------
(* realloc                                                                 *)

\* The block h is in use by this call until realloc_end frees it.
realloc(t, h, n) ==
  /\ call[t] = NoCall
  /\ \/ n = 0 /\ free(t, h)
     \/ /\ n # 0 /\ Fits(n) # {}
        /\ take_block(first_fit(n), aligned(n))
        /\ held' = (held \ {h}) \cup {[ptr |-> first_fit(n) + HEAD, n |-> n]}
        /\ call' = [call EXCEPT ![t] = [op |-> "realloc", old |-> h.ptr, n |-> n]]
     \/ n # 0 /\ Fits(n) = {} /\ malloc(t, n)

\* bcopy of n bytes from the old block, then free.
realloc_end(t) ==
  /\ call[t].op = "realloc"
  /\ free_block(call[t].old)
  /\ call' = [call EXCEPT ![t] = NoCall]
  /\ UNCHANGED held

\* The processor is lost to a task in FOREVER only while it is the highest.
heapNext ==
  \E t \in HeapTask :
    \/ \E n \in Requests : malloc(t, n)
    \/ \E h \in held : free(t, h)
    \/ \E ptr \in Foreign : free_foreign(t, ptr)
    \/ \E h \in held, n \in Requests : realloc(t, h, n)
    \/ realloc_end(t)

heapSpec == heapInit /\ [][heapNext]_heapVars

-----------------------------------------------------------------------------
\* The blocks tile the heap: each one ends where the next one begins, the last
\* one at the end of the heap, and prev and next are each other's inverse.
BlocksTile ==
  /\ 0 \in Blocks /\ blk[0].prev = NoBlock
  /\ \A p \in Blocks :
       LET end == p + HEAD + blk[p].size
       IN  /\ \/ blk[p].next = NoBlock /\ end = HEAP_SIZE
              \/ blk[p].next = end /\ end \in Blocks /\ blk[end].prev = p
           /\ p # 0 => blk[p].prev \in Blocks /\ blk[blk[p].prev].next = p
           /\ \A q \in Blocks : p < q => end <= q

\* free leaves no two neighbours free.
FreeBlocksMerged ==
  \A p \in Blocks : blk[p].next # NoBlock
                      => blk[p].is_alloced \/ blk[blk[p].next].is_alloced

Alloced == {p \in Blocks : blk[p].is_alloced}
Free == Blocks \ Alloced

bytes(S) == SumFunctionOnSet([p \in Blocks |-> blk[p].size], S)

\* The counters that the "h" command shows agree with the chain.
CountersMatch ==
  info = [block_num |-> Cardinality(Blocks),
          alloced_num |-> Cardinality(Alloced), alloced_size |-> bytes(Alloced),
          free_num |-> Cardinality(Free), free_size |-> bytes(Free)]

\* After every split and every kind of merge the chain of heads describes the
\* whole heap, a large request fails only when there is no room for it in one
\* piece, and the counters are right.
HeapIsTiled == BlocksTile /\ FreeBlocksMerged /\ CountersMatch

\* The addresses in use by the tasks.
InUse ==
  {h.ptr : h \in held} \cup {call[t].old : t \in {t \in HeapTask : call[t].op = "realloc"}}

\* The allocated blocks are exactly those in use, whatever is freed or reallocated
\* and by whom: malloc never hands out a block twice, free and realloc leak none and
\* take none away from its user, a foreign address included ("if <usr_p> is't from
\* malloc, do nothing", memH.c:207).  free's range check accepts what malloc returned,
\* and a task gets at least the bytes that it asked for.
BlocksInUse ==
  /\ {p + HEAD : p \in Alloced} = InUse
  /\ InUse \subseteq 0 .. HEAP_SIZE - 1
  /\ \A h \in held : blk[h.ptr - HEAD].size >= h.n
=============================================================================
