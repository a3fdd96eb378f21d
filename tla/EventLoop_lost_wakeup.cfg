CONSTANTS
  Callers = {c1, c2}
  NoTask = NoTask
  Requests <- OneSendTimed
  MaxCalls = 1
  SendQueueLen = 2
  ApiQueueLen = 1
  RxCap = 1
  MaxBurst = 1
  UrcBudget = 0
  ResponseMax = 2
  BufLen = 1
  TickMod = 4
  MaxLag = 0
  IntMax = 4
  MayFail = {}
  NullReadTraps = FALSE
  LineAnswers <- OkAnswer
  PromptAnswers <- PromptOnly
SPECIFICATION Spec
INVARIANT NoLostSendWakeup
CHECK_DEADLOCK FALSE
