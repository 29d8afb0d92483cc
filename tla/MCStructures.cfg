CONSTANTS
  Task = {t1, t2, t3, t4}
  Obj = {}
  NULL = NULL
  PRIORITY_NUM_MAX = 4
  GROUP = 2
  HeapTask = {h1, h2}
  HEAP_SIZE = 56
  HEAD = 8
  HEAP_ALIGN = 4
  WORD = 256
  Requests = {0, 3, 8}
  Foreign = {13, 56, 100}
  Caller = {c1, c2}
  TASK_NUM_MAX = 3
  STACK_PAGE_NUM = 4
  STACK_PAGE_SIZE = 8
  ALIGN = 4
  StackSizes = {0, 3, 15}
  Node = {n1, n2, n3}
  List = {a, b}
  NIL = NIL
SPECIFICATION mcSpec
CHECK_DEADLOCK FALSE
INVARIANTS HighestIsFirst HeapIsTiled BlocksInUse StacksDisjoint NoPageLost NoTcbLost WalkEndsAtFirstMove
PROPERTIES ImplementsPrioQueue ImplementsSeqLists
