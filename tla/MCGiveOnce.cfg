CONSTANTS
  NULL = NULL
  IDLE = idle
  Task = {idle, t1, t2}
  StartTasks = {t1, t2}
  Obj = {m1}
  SemBs = {}
  SemCs = {}
  SemMs = {m1}
  MsgQs = {}
  Msg = {}
  PRIORITY_NUM_MAX = 4
  GROUP = 2
  WAIT_FOREVER = 99
  MAX_COUNT = 2
  MAX_NUM = 1
  UINT = 100
  MaxTake = 2
  UserPri = {0, 1}
  Timeouts = {1, 99}
  Delays = {1}
  Killable = {}
  Later = {}
  Disposable = {}
SPECIFICATION Spec
PROPERTY GiveReleases
