CONSTANTS
  NULL = NULL
  IDLE = idle
  Task = {idle, t1, t2, t3}
  StartTasks = {t1, t2, t3}
  Obj = {b1, c1, q1}
  SemBs = {b1}
  SemCs = {c1}
  SemMs = {}
  MsgQs = {q1}
  Msg = {v1}
  PRIORITY_NUM_MAX = 4
  GROUP = 2
  WAIT_FOREVER = 99
  MAX_COUNT = 2
  MAX_NUM = 1
  UINT = 100
  MaxTake = 2
  UserPri = {0, 1}
  Timeouts = {0, 1}
  Delays = {0, 1}
  Killable = {}
  Later = {}
  Disposable = {b1, c1}
SPECIFICATION Spec
INVARIANTS EachTaskInItsQueue WakeupsPending WaitersHaveTicks
SYMMETRY Symmetry
