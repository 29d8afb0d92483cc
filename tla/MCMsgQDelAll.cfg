CONSTANTS
  NULL = NULL
  IDLE = idle
  Task = {idle, t1, t2, t3, t4}
  StartTasks = {t1, t2, t3, t4}
  Obj = {q1}
  SemBs = {}
  SemCs = {}
  SemMs = {}
  MsgQs = {q1}
  Msg = {v1}
  PRIORITY_NUM_MAX = 4
  GROUP = 2
  WAIT_FOREVER = 99
  MAX_COUNT = 2
  MAX_NUM = 1
  UINT = 100
  MaxTake = 2
  UserPri = {0, 1}
  Timeouts = {99}
  Delays = {1}
  Killable = {}
  Later = {}
  Disposable = {q1}
SPECIFICATION Spec
INVARIANT WaitersAreTicked
