CONSTANTS
  NULL = NULL
  IDLE = idle
  Task = {idle, t1, t2}
  StartTasks = {t1, t2}
  Obj = {b1}
  SemBs = {b1}
  SemCs = {}
  SemMs = {}
  MsgQs = {}
  Msg = {}
  PRIORITY_NUM_MAX = 4
  GROUP = 2
  WAIT_FOREVER = 99
  MAX_COUNT = 2
  MAX_NUM = 1
  UINT = 100
  MaxTake = 2
  UserPri = {0, 1}
  Timeouts = {}
  Delays = {}
  Killable = {}
  Later = {}
  Disposable = {}
  Readers = {t1, t2}
  RX_SEM = b1
  RX_FIFO_SIZE = 2
  READ_MAX = 2
  MaxChars = 3
  JOB_QUEUE_MAX = 3
  STEPS = 2
  DOWN_PERIOD = 3
  QUIT_PERIOD = 2
SPECIFICATION mcSpec
CHECK_DEADLOCK FALSE
INVARIANTS NoReaderSleepsOnData StepsAreForThisBlock BridgeOutlivesJob
PROPERTIES CharsAreRead GameEnds
