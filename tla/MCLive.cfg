CONSTANTS
  NULL = NULL
  IDLE = idle
  Task = {idle, t1, t2, t3}
  StartTasks = {t1, t2, t3}
  Obj = {b1}
  SemBs = {b1}
  SemCs = {}
  SemMs = {}
  MsgQs = {}
  Msg = {}
  PRIORITY_NUM_MAX = 4
  GROUP = 2
  WAIT_FOREVER = 99
  MAX_COUNT = 2
  MAX_NUM = 1
  UINT = 100
  MaxTake = 2
  UserPri = {0, 1}
  Timeouts = {1, 2}
  Delays = {1, 2}
  Killable = {}
  Later = {b1}
  Disposable = {}
SPECIFICATION FairSpec
PROPERTIES TimedWaitEnds EqualsTakeTurns
