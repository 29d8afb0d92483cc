CONSTANTS
  Letter = {"a"}
  Blank = "_"
  Commands <- ShellCommands
  EXIT <- ShellExit
  Files <- ShellFiles
  CMD_LEN_MAX = 3
  HISTORY_MAX = 2
  ARG_NUM_MAX = 2
  MaxLines = 3
  LevelMaps <- LianMaps
  TYPE_NUM <- LianTypes
  ROW_NUM = 3
  COL_NUM = 3
  ONE_LEVEL_TIME = 2
  MaxTicks = 3
  column_num = 4
  row_num = 6
  NewTypes = {0, 1, 10}
  MAX_SCORE = 1
  IoTask = {io1, io2}
  Paths <- IoPaths
  BEEP <- BeepName
  YAFFS <- YaffsName
  IOS_MAX_FILE_DES = 5
  MAX_HANDLES = 2
  WUZI_ROW_NUM = 5
  WUZI_COL_NUM = 6
  Presses <- WuziPresses
  TimeTask = {tm1, tm2}
  SetTimes <- TimeSets
  Jumps = {125, 5200001}
  SYS_CLK_RATE = 2
  TICK_MOD = 33554432
  START_TICK = 33554000
  MAX_STEPS = 3
  Digit = {"2"}
  Signs = {"+", "-"}
  Factors = {"*"}
  LB = "("
  RB = ")"
  EXPR_MAX = 6
SPECIFICATION mcSpec
CHECK_DEADLOCK FALSE
INVARIANTS ShownIsEntered HistoryIsRecent PathsAreRight BoardIsConsistent GoneTimerDeletedOnlyAfterWin RaceLosesWholeLevels BoardIsSound FdHeldByOne CountersMatchBoard NowIsBasePlusTicks ClockNeverFast ParsesByPrecedence
PROPERTIES HelpKeepsClearable FullLinesVanish
