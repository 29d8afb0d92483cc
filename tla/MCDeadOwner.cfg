CONSTANTS
  NULL = NULL
  IDLE = idle
  Task = {idle, t1, t2, t3}
  StartTasks = {t1, t2, t3}
  Obj = {m1, m2}
  SemBs = {}
  SemCs = {}
  SemMs = {m1, m2}
  MsgQs = {}
  Msg = {}
  PRIORITY_NUM_MAX = 4
  GROUP = 2
  WAIT_FOREVER = 99
  MAX_COUNT = 2
  MAX_NUM = 1
  UINT = 100
  MaxTake = 1
  UserPri = {0, 1}
  Timeouts = {99}
  Delays = {1}
  Killable = {t3}
  Later = {m2}
  Disposable = {}
SPECIFICATION Spec
PROPERTY DeletedOwnsNothing
SYMMETRY Symmetry
CHECK_DEADLOCK FALSE
